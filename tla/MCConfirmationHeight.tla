----------------------- MODULE MCConfirmationHeight -----------------------
(***************************************************************************)
(* Small universes of blocks, each account opened by a send of another.    *)
(***************************************************************************)
EXTENDS ConfirmationHeight

b(a, p, s) == [account |-> a, previous |-> p, source |-> s]

AllBlocks ==
  [g0 |-> b("G", "0", "0"), g1 |-> b("G", "g0", "0"), g2 |-> b("G", "g1", "0"),
   a1 |-> b("A", "0", "g1"), a2 |-> b("A", "a1", "0"), a3 |-> b("A", "a2", "b2"),
   a4 |-> b("A", "a3", "0"),
   b1 |-> b("B", "0", "a2"), b2 |-> b("B", "b1", "0"), b3 |-> b("B", "b2", "g2"),
   c1 |-> b("C", "0", "a4")]

(* a3 receives what b2 sent back, so that pending writes of A overlap;      *)
(* cementing c1 meets the receives c1, a3 and b1 and overflows a buffer of  *)
(* two.                                                                     *)
RingHash == DOMAIN AllBlocks \ {"g2", "b3"}
Ring == [h \in RingHash |-> AllBlocks[h]]

(* Two ways down from b3.                                                   *)
FanHash == {"g0", "g1", "g2", "a1", "a2", "b1", "b2", "b3"}
Fan == [h \in FanHash |-> AllBlocks[h]]

(* One account that received from the genesis account.                      *)
PairHash == {"g0", "g1", "a1", "a2"}
Pair == [h \in PairHash |-> AllBlocks[h]]
=============================================================================
