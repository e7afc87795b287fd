---------------------------- MODULE MCElections ----------------------------
(***************************************************************************)
(* Elections between the rivals a and b of the genesis account; d opens    *)
(* another account with what a sends, and x, of that account too, is       *)
(* misplaced on a.  b and d are legacy blocks.                             *)
(***************************************************************************)
EXTENDS Elections

block(a, p, s) == [account |-> a, previous |-> p, source |-> s]

ForkBlock ==
  [g |-> block("G", "0", "0"), a |-> block("G", "g", "0"), b |-> block("G", "g", "0"),
   d |-> block("D", "0", "a"), x |-> block("D", "a", "0")]
ForkHash == DOMAIN ForkBlock
ForkOrder == <<"g", "a", "b", "d", "x">>
ForkRank == [g |-> 0, a |-> 1, b |-> 1, d |-> 2, x |-> 2]

(* p alone makes a quorum, q alone a winner.                                *)
Weights == [p |-> 4, q |-> 1]
Voters == DOMAIN Weights
Ballots == [p |-> {"a", "d"}, q |-> {"a", "b"}]

=============================================================================
