--------------------------- MODULE BlockProcessor ---------------------------
(***************************************************************************)
(* block_processor: the queue of arrived blocks, the queue of the blocks   *)
(* elections force, the unchecked table, and the batches in which they are *)
(* processed under one write transaction.  The ledger is the set of its    *)
(* blocks: as the open write transaction sees it, and as readers do.       *)
(* A block comes to the queue with its signature checked; its amounts are  *)
(* right, its source is a send to its account, and it is no epoch block of *)
(* an account that is not open.                                            *)
(* Operators marked "Defect" are not used by the specification.            *)
(***************************************************************************)
EXTENDS Chains, Functions

CONSTANTS
  Legacy,         \* the blocks that are not state blocks
  Live,           \* the blocks that arrive as live traffic (block_arrival.recent)
                  \* and are processed within the 300 s their age may have
  quarter_size,   \* block_processor_full_size / 4
  MaxArrivals,    \* bound: how often each block arrives
  Traffic,        \* bound: the sets of blocks that arrive in one behaviour
  Rank            \* an order in which the blocks can have been created

(* A hash covers the hashes its block names, so blocks cannot name each     *)
(* other in a circle.                                                       *)
ASSUME RankAssumption ==
  /\ IsFiniteSet(Hash)
  /\ Rank \in [Hash -> Nat]
  /\ \A h \in Hash : \A d \in dependencies(h) : Rank[d] < Rank[h]

(* A legacy block does not name its account: it is that of its previous.    *)
ASSUME LegacyAssumption == Legacy \subseteq Hash /\ \A h \in Legacy : ~foreign(h)

VARIABLES
  stored,         \* the blocks of the ledger, in the open write transaction
  committed,      \* the same, for readers
  cemented,       \* the blocks at or below their account's confirmation height
  unchecked,      \* pairs <<missing dependency, block>>
  blocks, forced,
  batch,          \* the processing thread: idle, in a transaction, or after it
  post_events,    \* blocks process_live is to be called for
  arrivals        \* how often each block has arrived

ledger_vars == <<stored, committed, cemented>>
queue_vars == <<unchecked, blocks, forced, batch, post_events, arrivals>>

BlockProcessorInit ==
  /\ stored = {Genesis} /\ committed = {Genesis} /\ cemented = {Genesis}
  /\ unchecked = {} /\ blocks = << >> /\ forced = << >>
  /\ batch = "idle" /\ post_events = << >>
  /\ arrivals = [h \in Hash |-> 0]

(* The block of a ledger at the root of h: ledger::successor and            *)
(* ledger::forked_block, which find none when h is the first on its root.   *)
successor(h, ledger) ==
  IF \E s \in ledger : root(s) = root(h) THEN CHOOSE s \in ledger : root(s) = root(h) ELSE Zero

(* What ledger::process answers.  An open block is asked for its source     *)
(* before its account is, a state block after.                              *)
opened(h, ledger) == \E s \in ledger : Block[s].account = Block[h].account
result(h, ledger) ==
  LET previous == Block[h].previous
      source == Block[h].source
  IN IF h \in ledger THEN "old"
     ELSE IF previous \notin ledger \cup {Zero} THEN "gap_previous"
     ELSE IF h \in Legacy /\ previous \notin Legacy \cup {Zero} THEN "block_position"
     ELSE IF h \in Legacy /\ previous = Zero /\ source \notin ledger THEN "gap_source"
     ELSE IF foreign(h) /\ ~opened(h, ledger) THEN "gap_previous"
     ELSE IF foreign(h) \/ \E s \in ledger : root(s) = root(h) THEN "fork"
     ELSE IF sourceless(h) \/ source \notin ledger \cup {Zero} THEN "gap_source"
     ELSE IF \E s \in ledger : rivals(h, s) THEN "unreceivable"
     ELSE "progress"

(* What ledger::rollback of h removes: h and all that rests on it, unless h *)
(* is cemented.                                                             *)
rollback_list(h) == IF h \in cemented THEN {} ELSE {s \in stored : h \in below[s]}

can_vote(h) == dependencies(h) \subseteq cemented

-----------------------------------------------------------------------------
add(h) ==
  /\ arrivals[h] < MaxArrivals
  /\ \E together \in Traffic : {h} \cup {k \in Hash : arrivals[k] > 0} \subseteq together
  /\ arrivals' = [arrivals EXCEPT ![h] = @ + 1]
  /\ blocks' = Append(blocks, h)
  /\ UNCHANGED <<ledger_vars, unchecked, forced, batch, post_events>>

process_batch ==
  /\ batch = "idle" /\ (blocks # << >> \/ forced # << >>)
  /\ batch' = "open"
  /\ UNCHANGED <<ledger_vars, unchecked, blocks, forced, post_events, arrivals>>

(* The next block of the batch, and the ledger it is processed in.          *)
taken == IF forced # << >> THEN Head(forced) ELSE Head(blocks)
rolled_back ==
  IF forced # << >> /\ successor(taken, stored) \notin {Zero, taken}
  THEN rollback_list(successor(taken, stored)) ELSE {}
outcome == result(taken, stored \ rolled_back)

(* The elements of a finite set, in the order of a table; and a sequence    *)
(* from its end.                                                            *)
listed(S) == CHOOSE s \in Bijection(1 .. Cardinality(S), S) : TRUE
reversed(s) == [i \in 1 .. Len(s) |-> s[Len(s) + 1 - i]]

(* queue_unchecked: what waited for h, in front unless the queues are long. *)
waiting_for(h) == listed({w \in Hash : <<h, w>> \in unchecked})
queue_unchecked(h, queue, others) ==
  IF Len(queue) + others > quarter_size THEN queue \o waiting_for(h)
  ELSE reversed(waiting_for(h)) \o queue

(* Defect: a block without its source waits for its previous block.         *)
missing_previous(h, answer) == Block[h].previous
(* The dependency a block waits for in the unchecked table.                 *)
missing(h, answer) == IF answer = "gap_previous" THEN Block[h].previous ELSE Block[h].source

(* One round of process_batch: a forced block first replaces its rival.     *)
process_one ==
  LET blocks_left == IF forced # << >> THEN blocks ELSE Tail(blocks)
      forced_left == IF forced # << >> THEN Tail(forced) ELSE forced
  IN /\ batch = "open" /\ (blocks # << >> \/ forced # << >>)
     /\ forced' = forced_left
     /\ stored' = (stored \ rolled_back) \cup (IF outcome = "progress" THEN {taken} ELSE {})
     /\ unchecked' =
          CASE outcome = "progress" -> {u \in unchecked : u[1] # taken}
            [] outcome \in {"gap_previous", "gap_source"} ->
                 unchecked \cup {<<missing(taken, outcome), taken>>}
            [] OTHER -> unchecked
     /\ blocks' = IF outcome = "progress"
                  THEN queue_unchecked(taken, blocks_left, Len(forced_left)) ELSE blocks_left
     /\ post_events' = IF outcome = "progress" /\ taken \in Live
                       THEN Append(post_events, taken) ELSE post_events
     /\ UNCHANGED <<committed, cemented, batch, arrivals>>

(* The batch ends when nothing is queued, its time is up, or another writer *)
(* asks for its turn; the events follow the commit.                         *)
commit ==
  /\ batch = "open"
  /\ committed' = stored
  /\ batch' = "post"
  /\ UNCHANGED <<stored, cemented, unchecked, blocks, forced, post_events, arrivals>>

process_live ==
  /\ batch = "post" /\ post_events # << >>
  /\ post_events' = Tail(post_events)
  /\ UNCHANGED <<ledger_vars, unchecked, blocks, forced, batch, arrivals>>

end_batch ==
  /\ batch = "post" /\ post_events = << >>
  /\ batch' = "idle"
  /\ UNCHANGED <<ledger_vars, unchecked, blocks, forced, post_events, arrivals>>

=============================================================================
