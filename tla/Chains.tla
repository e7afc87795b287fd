------------------------------- MODULE Chains -------------------------------
(***************************************************************************)
(* The blocks the node's threads hand each other.  A block is given by its *)
(* account, its previous block and, when it receives, its source, all of   *)
(* them any names at all; everything else about it is left to Ledger.      *)
(***************************************************************************)
EXTENDS Integers, Sequences, FiniteSets

CONSTANTS
  Hash, Account, Zero,
  Block,              \* [Hash -> [account, previous, source]], Zero for none
  Genesis             \* the cemented genesis block

height ==
  LET of[h \in Hash] == IF Block[h].previous = Zero THEN 1 ELSE of[Block[h].previous] + 1
  IN [h \in Hash |-> of[h]]

dependencies(h) == {Block[h].previous, Block[h].source} \ {Zero}
(* Two blocks for one place in a chain, or receiving from one send.         *)
root(h) == IF Block[h].previous = Zero THEN Block[h].account ELSE Block[h].previous
rivals(h, s) == /\ h # s
                /\ root(h) = root(s) \/ (Block[h].source = Block[s].source /\ Block[h].source # Zero)
(* A block and everything it rests on.                                      *)
below ==
  LET of[h \in Hash] == {h} \cup UNION {of[d] : d \in dependencies(h)}
  IN [h \in Hash |-> of[h]]

(* The blocks no ledger takes: a block on a block of another account, and a *)
(* first block that receives nothing.                                       *)
foreign(h) == /\ Block[h].previous # Zero
              /\ Block[Block[h].previous].account # Block[h].account
sourceless(h) == Block[h].previous = Zero /\ Block[h].source = Zero

ASSUME BlocksAssumption ==
  /\ Zero \notin Hash /\ Genesis \in Hash
  /\ Block \in [Hash -> [account : Account, previous : Hash \cup {Zero},
                         source : Hash \cup {Zero}]]
  /\ dependencies(Genesis) = {}

=============================================================================
