-------------------- MODULE ConfirmationHeightProcessor --------------------
(***************************************************************************)
(* What the bounded and the unbounded way of cementing share: the ledger   *)
(* they read and write, the hashes they are given, and the observers they  *)
(* call.                                                                   *)
(***************************************************************************)
EXTENDS Chains, SequencesExt

CONSTANTS
  Modes,              \* the confirmation height modes of a behaviour
  unbounded_cutoff,
  BatchWriteSizes,    \* what batch_write_size may be adjusted to
  max_items,
  pending_writes_max_size,
  MaxAdds             \* bound: calls of add in a behaviour

ASSUME SizesAssumption ==
  max_items > 1 /\ pending_writes_max_size > 0 /\ BatchWriteSizes # {}

VARIABLES
  stored,                   \* the blocks of the ledger
  confirmation_height,      \* the table: [height, frontier] of each account
  cemented_count,           \* ledger.cache.cemented_count
  mode,
  awaiting_processing,
  original_hash,
  original_hashes_pending,
  batch_write_size,
  current, first_iter,      \* locals of process
  cemented_blocks,          \* cemented, the observers not yet called
  unbounded, bounded,       \* the members and locals of the two processors
  control,                  \* where the thread is
  flushing,                 \* cement_blocks was called by run
  requested,                \* history: every hash that was added
  unanswered,               \* history: added, and no observer called since
  notified,                 \* history: calls of the cemented observers
  adds,                     \* calls of add so far
  failed                    \* an assertion failed or a null was dereferenced

ledger_vars == <<stored, confirmation_height, cemented_count>>
given_vars == <<awaiting_processing, original_hash, original_hashes_pending>>
local_vars == <<current, first_iter>>
history_vars == <<requested, notified, adds>>
vars == <<ledger_vars, mode, given_vars, batch_write_size, local_vars, cemented_blocks,
          unbounded, bounded, control, flushing, history_vars, unanswered, failed>>

block_count == Cardinality(stored)
block_confirmed(h) == h \in stored /\ height[h] <= confirmation_height[Block[h].account].height

(* sideband.successor of a stored block.                                    *)
successor(h) ==
  IF \E s \in stored : Block[s].previous = h
  THEN CHOOSE s \in stored : Block[s].previous = h ELSE Zero

(* Defect: a block that opens its account is not taken for a receive.       *)
is_receive_not_open(h) ==
  Block[h].source # Zero /\ Block[h].source \in stored /\ Block[h].previous # Zero
(* The source or link of the block names a stored block.                    *)
is_receive(h) == Block[h].source # Zero /\ Block[h].source \in stored

(* The n blocks from h downwards, and from h upwards until there is none.   *)
downwards(h, n) ==
  LET at[i \in 1 .. n] == IF i = 1 THEN h ELSE Block[at[i - 1]].previous IN at
upwards(h, n) ==
  LET at[i \in 1 .. n] == IF i = 1 THEN h
                          ELSE IF at[i - 1] = Zero THEN Zero ELSE successor(at[i - 1])
  IN at

-----------------------------------------------------------------------------
(* The rest of the node: other threads store blocks, roll back blocks and   *)
(* add what elections confirmed.  The ledger takes a block when what it     *)
(* rests on is there and its place in the chain is free, and it refuses to  *)
(* roll back a cemented block; that it never rolls back one an election     *)
(* confirmed is what the processors rely on.                                *)
writing == control \in {"cement_unbounded", "cement_bounded"}

process_block(h) ==
  /\ ~writing
  /\ h \notin stored /\ dependencies(h) \subseteq stored
  /\ ~foreign(h) /\ ~sourceless(h)
  /\ \A s \in stored : ~rivals(h, s)
  /\ stored' = stored \cup {h}
  /\ UNCHANGED <<confirmation_height, cemented_count, mode, given_vars, batch_write_size,
                 local_vars, cemented_blocks, unbounded, bounded, control, flushing,
                 history_vars, unanswered, failed>>

rollback(h) ==
  /\ ~writing
  /\ h \in stored /\ ~block_confirmed(h)
  /\ \A s \in stored : h \notin dependencies(s)
  /\ \A r \in requested : h \notin below[r]
  /\ stored' = stored \ {h}
  /\ UNCHANGED <<confirmation_height, cemented_count, mode, given_vars, batch_write_size,
                 local_vars, cemented_blocks, unbounded, bounded, control, flushing,
                 history_vars, unanswered, failed>>

(* awaiting_processing is unique by hash; the notification reaches the      *)
(* thread only if it waits.                                                 *)
add(h) ==
  /\ adds < MaxAdds /\ h \in stored
  /\ awaiting_processing' = IF Contains(awaiting_processing, h) THEN awaiting_processing
                            ELSE Append(awaiting_processing, h)
  /\ control' = IF control = "wait" THEN "run" ELSE control
  /\ adds' = adds + 1
  /\ requested' = requested \cup {h}
  /\ unanswered' = unanswered \cup {h}
  /\ UNCHANGED <<ledger_vars, mode, original_hash, original_hashes_pending, batch_write_size,
                 local_vars, cemented_blocks, unbounded, bounded, flushing, notified, failed>>

(* The hash is one the processor was given and is not done with.            *)
is_processing_block(h) == h \in original_hashes_pending \/ Contains(awaiting_processing, h)

-----------------------------------------------------------------------------
(* The observers.  Those for an already cemented block are called for the   *)
(* hash that was given, if the condition holds; those for cemented blocks   *)
(* one block at a time, after the write transaction and without the guard.  *)
notify_already_cemented(called) ==
  unanswered' = IF called THEN unanswered \ {original_hash} ELSE unanswered

notify_observers ==
  /\ control \in {"notify_unbounded", "notify_bounded"}
  /\ cemented_blocks # <<>>
  /\ cemented_blocks' = Tail(cemented_blocks)
  /\ notified' = [notified EXCEPT ![Head(cemented_blocks)] = @ + 1]
  /\ unanswered' = unanswered \ {Head(cemented_blocks)}
  /\ UNCHANGED <<ledger_vars, mode, given_vars, batch_write_size, local_vars, unbounded,
                 bounded, control, flushing, requested, adds, failed>>

=============================================================================
