------------------------- MODULE ConfirmationHeight -------------------------
(***************************************************************************)
(* confirmation_height_processor: the thread that takes the hashes it is   *)
(* given to the unbounded or the bounded processor, flushes what they left *)
(* pending, and sleeps when there is nothing to do.                        *)
(* Operators marked "Defect" are not used by the specification.            *)
(***************************************************************************)
EXTENDS ConfirmationHeightUnbounded, ConfirmationHeightBounded

Init ==
  /\ stored = {Genesis}
  /\ confirmation_height =
       [a \in Account |-> IF a = Block[Genesis].account THEN [height |-> 1, frontier |-> Genesis]
                          ELSE [height |-> 0, frontier |-> Zero]]
  /\ cemented_count = 1
  /\ mode \in Modes
  /\ awaiting_processing = << >> /\ original_hash = Zero /\ original_hashes_pending = {}
  /\ batch_write_size \in BatchWriteSizes
  /\ current = Zero /\ first_iter = FALSE
  /\ cemented_blocks = << >>
  /\ unbounded = empty_unbounded /\ bounded = empty_bounded
  /\ control = "run" /\ flushing = FALSE
  /\ requested = {} /\ unanswered = {} /\ adds = 0
  /\ notified = [h \in Hash |-> 0]
  /\ failed = FALSE

pending_empty == unbounded.pending_writes = << >> /\ bounded.pending_writes = << >>

(* run: the next hash, and the processor for it.                            *)
use_unbounded ==
  \/ unbounded.pending_writes # << >>
  \/ mode = "unbounded"
  \/ /\ mode = "automatic"
     /\ block_count < unbounded_cutoff \/ block_count - unbounded_cutoff < cemented_count
     /\ bounded.pending_writes = << >>

set_next_hash ==
  /\ control = "run" /\ awaiting_processing # << >>
  /\ original_hash' = Head(awaiting_processing)
  /\ awaiting_processing' = Tail(awaiting_processing)
  /\ original_hashes_pending' =
       (IF pending_empty THEN {} ELSE original_hashes_pending) \cup {original_hash'}
  /\ current' = original_hash' /\ first_iter' = TRUE
  /\ IF use_unbounded
     THEN /\ control' = "unbounded"
          /\ unbounded' = unbounded_start
          /\ failed' = (bounded.pending_writes # << >>)
          /\ UNCHANGED bounded
     ELSE /\ control' = "bounded"
          /\ bounded' = bounded_start
          /\ failed' = (unbounded.pending_writes # << >>)
          /\ UNCHANGED unbounded
  /\ flushing' = FALSE
  /\ UNCHANGED <<ledger_vars, mode, batch_write_size, cemented_blocks, history_vars, unanswered>>

(* run: nothing is waiting.  The mutex is released to flush what is pending *)
(* or, if nothing is, only until the cleanup.                               *)
unlock ==
  /\ control = "run" /\ awaiting_processing = << >>
  /\ control' = IF bounded.pending_writes # << >> THEN "flush_bounded"
                ELSE IF unbounded.pending_writes # << >> THEN "flush_unbounded" ELSE "sleep"
  /\ flushing' = TRUE
  /\ UNCHANGED <<ledger_vars, mode, given_vars, batch_write_size, local_vars, cemented_blocks,
                 unbounded, bounded, history_vars, unanswered, failed>>

flush ==
  /\ control \in {"flush_bounded", "flush_unbounded"}
  /\ control' = IF control = "flush_bounded" THEN "cement_bounded" ELSE "cement_unbounded"
  /\ failed' = (bounded.pending_writes # << >> /\ unbounded.pending_writes # << >>)
  /\ UNCHANGED <<ledger_vars, mode, given_vars, batch_write_size, local_vars, cemented_blocks,
                 unbounded, bounded, flushing, history_vars, unanswered>>

(* lock_and_cleanup: after it the loop goes on, or the thread waits without *)
(* looking again whether a hash has come.                                   *)
lock_and_cleanup ==
  /\ control \in {"cleanup", "sleep"}
  /\ original_hash' = Zero /\ original_hashes_pending' = {}
  /\ bounded' = [bounded EXCEPT !.accounts_confirmed_info = << >>]
  /\ unbounded' = [unbounded EXCEPT !.confirmed_iterated_pairs = << >>,
                                    !.implicit_receive_cemented_mapping = << >>,
                                    !.block_cache = {}]
  /\ control' = IF control = "sleep" THEN "wait" ELSE "run"
  /\ UNCHANGED <<ledger_vars, mode, awaiting_processing, batch_write_size, local_vars,
                 cemented_blocks, flushing, history_vars, unanswered, failed>>

run == set_next_hash \/ unlock \/ flush \/ lock_and_cleanup
       \/ iterate_unbounded \/ output_unbounded \/ cement_unbounded \/ committed_unbounded
       \/ iterate_bounded \/ output_bounded \/ return_bounded \/ cement_bounded \/ committed_bounded
       \/ notify_observers

Next == run \/ \E h \in Hash : process_block(h) \/ rollback(h) \/ add(h)

(* The thread runs.                                                         *)
RunSpec == Init /\ [][Next]_vars /\ WF_vars(run)

(* The same written out, which TLC evaluates faster on large instances: run *)
(* can take a step unless the thread waits, and it is the steps of the      *)
(* other threads that change stored or adds.                                *)
Fairness == []<>(control = "wait") \/ []<><<UNCHANGED <<stored, adds>>>>_vars

Spec == Init /\ [][Next]_vars /\ Fairness

-----------------------------------------------------------------------------
(* No assertion of the two processors fails, no block or iterator is        *)
(* dereferenced that is not there, and no error of cement_blocks is         *)
(* reported, whatever the order in which hashes come and blocks are stored, *)
(* wherever the batches are cut and the circular buffer overflows.          *)
(* And the tables agree: an account's frontier is the block at its          *)
(* confirmed height, and cemented_count is the number of cemented blocks,   *)
(* even when several pending writes overlap.  And is_processing_block knows *)
(* a requested block as such when its observers are called, on which        *)
(* block_cemented_callback relies.                                          *)
BooksRight ==
  /\ ~failed
  /\ \A a \in Account :
       LET info == confirmation_height[a]
       IN info.height > 0 => /\ info.frontier \in stored /\ height[info.frontier] = info.height
                             /\ Block[info.frontier].account = a
  /\ cemented_count = Cardinality({h \in stored : block_confirmed(h)})
  /\ \A h \in Range(cemented_blocks) \cap unanswered : is_processing_block(h)

(* The processors keep Cementer's promises: cement_blocks cements what the  *)
(* requested blocks rest on and nothing else, lower blocks first, and the   *)
(* observers hear of every block once and in order.                         *)
requires == [h \in Hash |-> dependencies(h)]
excludes == {p \in Hash \X Hash : rivals(p[1], p[2])}
Contract == INSTANCE Cementer WITH
  Vertex <- Hash, Requires <- requires, Excludes <- excludes, Below <- below,
  cemented <- {h \in stored : block_confirmed(h)},
  waiting <- unanswered, announced <- notified
ImplementsCementer == Contract!CementerSpec

(* A hash that is not cemented when it is taken from awaiting_processing is *)
(* cemented and its observers are called, without another call of add.      *)
UncementedAnswered ==
  \A h \in Hash : (/\ original_hash = h /\ h \in unanswered /\ ~block_confirmed(h)
                   /\ ~Contains(awaiting_processing, h))
                  ~> h \notin unanswered

(* Every hash taken from awaiting_processing is answered: the observers are *)
(* called for it, as cemented or as already cemented.                       *)
TakenAnswered ==
  \A h \in Hash : (/\ original_hash = h /\ h \in unanswered
                   /\ ~Contains(awaiting_processing, h))
                  ~> h \notin unanswered

(* A hash given to add does not stay in awaiting_processing.                *)
AddedTaken ==
  \A h \in Hash : Contains(awaiting_processing, h) ~> ~Contains(awaiting_processing, h)

=============================================================================
