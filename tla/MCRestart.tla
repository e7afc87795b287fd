----------------------------- MODULE MCRestart -----------------------------
(***************************************************************************)
(* LedgerRestart on a universe small enough to be combined with every      *)
(* choice of the last commit: a round trip of funds between G and A across *)
(* an epoch 2 upgrade of A.                                                *)
(***************************************************************************)
EXTENDS LedgerRestart

CONSTANTS gen, G, A, E, NoKey, link1, link2, s1, s1x, e2A, rA, sA, rG

RestartAccount == {G, A, E, NoKey}
RestartEpochLink == {link1, link2}
RestartEpochOf == [l \in RestartEpochLink |-> IF l = link1 THEN 1 ELSE 2]
RestartEpochSigner == [l \in RestartEpochLink |-> E]
RestartThresholds == [epoch_1 |-> 1, epoch_2 |-> 1, epoch_2_receive |-> 1]

RestartBlock(type, account, previous, representative, bal, link) ==
  [type |-> type, account |-> account, previous |-> previous,
   representative |-> representative, balance |-> bal, link |-> link,
   signer |-> IF link \in RestartEpochLink THEN E ELSE account, difficulty |-> 1]

RestartRank == [h \in Hash |-> Cardinality(ancestors[h])]

(* s1 and s1x fork the genesis chain; e2A opens A in epoch 2, rA receives   *)
(* s1 there, sA sends back and rG receives it in epoch 2.                   *)
RestartHash == {gen, s1, s1x, e2A, rA, sA, rG}
RestartBlocks ==
  [h \in RestartHash |->
     CASE h = gen -> RestartBlock("open", G, NoKey, G, 0, G)
       [] h = s1 -> RestartBlock("send", G, gen, NoKey, 1, A)
       [] h = s1x -> RestartBlock("state", G, gen, A, 2, A)
       [] h = e2A -> RestartBlock("state", A, NoKey, NoKey, 0, link2)
       [] h = rA -> RestartBlock("state", A, e2A, A, 2, s1)
       [] h = sA -> RestartBlock("state", A, rA, G, 0, G)
       [] h = rG -> RestartBlock("state", G, s1, A, 3, sA)]

=============================================================================
