------------------------------ MODULE Lattice ------------------------------
(***************************************************************************)
(* What the ledger promises of its set of blocks, without tables, amounts  *)
(* or recursion: a block enters when what it requires is there and nothing *)
(* that excludes it is; a block leaves only if nothing stored requires it  *)
(* and it is not cemented; blocks are cemented with all they require.      *)
(***************************************************************************)
CONSTANTS
  Vertex,    \* every block
  Genesis,   \* the block that is always there
  Requires,  \* the blocks each block depends on
  Excludes   \* pairs of blocks that cannot both be stored

(* What an instance must see to; the ledger's is proved to.                 *)
LatticeAssumption ==
  /\ Genesis \in Vertex
  /\ Requires \in [Vertex -> SUBSET Vertex]
  /\ Requires[Genesis] = {}
  /\ \A v \in Vertex : v \notin Requires[v]
  /\ \A v, w \in Vertex : <<v, w>> \in Excludes => <<w, v>> \in Excludes
  /\ \A v \in Vertex : <<v, v>> \notin Excludes

VARIABLES stored, cemented

lattice_vars == <<stored, cemented>>

LatticeInit == stored = {Genesis} /\ cemented = {Genesis}

Add(v) ==
  /\ v \notin stored
  /\ Requires[v] \subseteq stored
  /\ \A w \in stored : <<v, w>> \notin Excludes
  /\ stored' = stored \cup {v}
  /\ UNCHANGED cemented

Remove(v) ==
  /\ v \in stored \ cemented
  /\ \A w \in stored : v \notin Requires[w]
  /\ stored' = stored \ {v}
  /\ UNCHANGED cemented

Cement(S) ==
  /\ S # {}
  /\ \A v \in S : Requires[v] \subseteq cemented \cup S
  /\ cemented' = cemented \cup S
  /\ UNCHANGED stored

LatticeNext ==
  \/ \E v \in Vertex : Add(v) \/ Remove(v)
  \/ \E S \in SUBSET (stored \ cemented) : Cement(S)

LatticeSpec == LatticeInit /\ [][LatticeNext]_lattice_vars

-----------------------------------------------------------------------------
LatticeTypeOK == stored \subseteq Vertex /\ cemented \subseteq stored

(* Everything a stored block requires is stored, everything a cemented one  *)
(* requires is cemented, and no two stored blocks exclude each other: the   *)
(* consistency ledger::process and ledger::rollback maintain together.      *)
Consistent ==
  /\ \A v \in stored : Requires[v] \subseteq stored
  /\ \A v \in cemented : Requires[v] \subseteq cemented
  /\ \A v, w \in stored : <<v, w>> \notin Excludes

(* A cemented block is final: it stays cemented, and so no block excluding  *)
(* it is ever stored again.                                                 *)
Final == [][cemented \subseteq cemented' /\ cemented' \subseteq stored']_lattice_vars

=============================================================================
