------------------------------ MODULE Cementer ------------------------------
(***************************************************************************)
(* What the confirmation height processor promises the rest of the node:   *)
(* it cements only what a requested block rests on, and a block together   *)
(* with or after all it requires; every cemented block is announced once,  *)
(* after the blocks it requires; a request is answered by announcing the   *)
(* block, or by the report that it is cemented already, which comes only   *)
(* after it was announced.                                                 *)
(***************************************************************************)
EXTENDS Lattice, Naturals

CONSTANT Below   \* a block and everything it rests on

VARIABLES
  requested,   \* every block that was to be cemented
  waiting,     \* requested, and not answered since
  announced    \* how often each block was announced as cemented

cementer_vars == <<lattice_vars, requested, waiting, announced>>

CementerInit ==
  /\ LatticeInit
  /\ requested = {} /\ waiting = {}
  /\ announced = [v \in Vertex |-> 0]

(* The ledger takes blocks, and drops only what no request rests on.        *)
Process(v) == Add(v) /\ UNCHANGED <<requested, waiting, announced>>

Rollback(v) ==
  /\ Remove(v)
  /\ \A r \in requested : v \notin Below[r]
  /\ UNCHANGED <<requested, waiting, announced>>

Request(v) ==
  /\ v \in stored
  /\ requested' = requested \cup {v}
  /\ waiting' = waiting \cup {v}
  /\ UNCHANGED <<lattice_vars, announced>>

CementRequested(S) ==
  /\ Cement(S)
  /\ \A v \in S : \E r \in requested : v \in Below[r]
  /\ UNCHANGED <<requested, waiting, announced>>

Announce(v) ==
  /\ v \in cemented \ {Genesis} /\ announced[v] = 0
  /\ \A w \in Requires[v] \ {Genesis} : announced[w] > 0
  /\ announced' = [announced EXCEPT ![v] = 1]
  /\ waiting' = waiting \ {v}
  /\ UNCHANGED <<lattice_vars, requested>>

AlreadyCemented(v) ==
  /\ v \in waiting /\ (v = Genesis \/ announced[v] > 0)
  /\ waiting' = waiting \ {v}
  /\ UNCHANGED <<lattice_vars, requested, announced>>

CementerNext ==
  \/ \E v \in Vertex : \/ Process(v) \/ Rollback(v) \/ Request(v)
                       \/ Announce(v) \/ AlreadyCemented(v)
  \/ \E S \in SUBSET (stored \ cemented) : CementRequested(S)

CementerSpec == CementerInit /\ [][CementerNext]_cementer_vars

=============================================================================
