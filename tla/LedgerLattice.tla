--------------------------- MODULE LedgerLattice ---------------------------
(***************************************************************************)
(* Ledger implements Lattice: what a block requires and excludes can be    *)
(* read off the blocks alone, with summation_visitor's recomputation of    *)
(* balances standing in for the sidebands.                                 *)
(***************************************************************************)
EXTENDS LedgerProperties

(* summation_visitor: the balance after a block, or the amount it moves,    *)
(* from the contents of blocks only.  A link that is no block counts for    *)
(* nothing, except the genesis account in the genesis block.                *)
distance(x, y) == IF x < y THEN y - x ELSE x - y
summed(kind, h, before, incoming) ==
  LET type == Block[h].type
  IN IF kind = "balance"
     THEN CASE type \in {"send", "state"} -> Block[h].balance
            [] type = "change" -> before
            [] type = "open" -> incoming
            [] type = "receive" -> (before + incoming) % Modulus
     ELSE CASE type \in {"send", "state"} -> distance(Block[h].balance, before)
            [] type = "change" -> 0
            [] type \in {"open", "receive"} -> incoming
Summand == {"balance", "amount"} \X (Hash \cup Destination)
summation[q \in Summand] ==
  CASE q[2] \in Hash ->
         summed(q[1], q[2], summation[<<"balance", Block[q[2]].previous>>],
                            summation[<<"amount", Block[q[2]].link>>])
    [] q[2] = GenesisAccount -> Modulus - 1
    [] OTHER -> 0

(* The balance a stored block carries is the one recomputed from its        *)
(* ancestors, however often it and they were undone and processed again.    *)
BalancesSumUp ==
  \A h \in DOMAIN blocks : block_balance_calculated(h) = summation[<<"balance", h>>]

-----------------------------------------------------------------------------
received(h) ==
  CASE Block[h].type \in {"receive", "open"} -> Block[h].link
    [] Block[h].type = "state" ->
         IF Block[h].balance < summation[<<"balance", Block[h].previous>>]
         THEN Zero ELSE Block[h].link
    [] OTHER -> Zero

requires == [h \in Hash |-> Hash \cap {Block[h].previous, received(h)}]
excludes ==
  {p \in Hash \X Hash :
     /\ p[1] # p[2]
     /\ \/ root(p[1]) = root(p[2])
        \/ received(p[1]) \in Hash /\ received(p[1]) = received(p[2])}

Abstract == INSTANCE Lattice WITH
  Vertex <- Hash, Genesis <- GenesisHash, Requires <- requires, Excludes <- excludes,
  stored <- DOMAIN blocks,
  cemented <- {h \in DOMAIN blocks : block_confirmed(h)}

(* Every step of the ledger, the steps in the middle of a nested rollback   *)
(* included, adds, removes or cements one block as Lattice allows, or       *)
(* leaves the set of blocks alone.                                          *)
ImplementsLattice == Abstract!LatticeSpec

=============================================================================
