------------------------------ MODULE MCLedger ------------------------------
(***************************************************************************)
(* Ledger on closed universes of blocks.  In each one the genesis account  *)
(* and two others exchange a supply of 3 raw; several blocks compete for   *)
(* the same root, so that which chains grow depends on what arrives first  *)
(* and on what is rolled back.                                             *)
(***************************************************************************)
EXTENDS Ledger, LedgerLattice

CONSTANTS
  gen, G, A, D, E, NoKey,
  s1, s1x, oA, oAx, cA, sA, rG, rGs, zA, oD, sD, qA, nG, wG, dG, eG, fG, bG, oZ, pA, pD, nD,
  link1, link2, e1G, e2G, xG, e1A, e2A, f1A, rA1, rA2, sG, tG, vG, lA, uA

MCAccount == {G, A, D, E, NoKey}

MCBlock(type, account, previous, representative, bal, link) ==
  [type |-> type, account |-> account, previous |-> previous,
   representative |-> representative, balance |-> bal, link |-> link,
   signer |-> account, difficulty |-> 1]

genesis_block == MCBlock("open", G, NoKey, G, 0, G)
MCThresholds == [epoch_1 |-> 1, epoch_2 |-> 2, epoch_2_receive |-> 1]

MCEpochLink == {link1, link2}
MCEpochOf == [l \in MCEpochLink |-> IF l = link1 THEN 1 ELSE 2]
MCEpochSigner == [l \in MCEpochLink |-> E]

(* A rank that grows from a block to the blocks naming it.                  *)
MCRank == [h \in Hash |-> Cardinality(ancestors[h])]

-----------------------------------------------------------------------------
(* Legacy and state blocks side by side.  s1 and s1x fork the genesis       *)
(* chain, oA and oAx the opening of A, cA and sA the chain of A, rG and rGs *)
(* the genesis chain again.  A sends back to G, so undoing oA undoes rG;    *)
(* A and D exchange zA and sD, so undoing s1 nests three deep.  eG sends    *)
(* nothing to its own account and bG burns.  nG spends more than there is,  *)
(* wG is signed by another key, dG receives sA again and oZ would open the  *)
(* burn account.  pA is a block of A on the genesis chain.                  *)
MixHash == {gen, s1, s1x, oA, oAx, cA, sA, rG, rGs, zA, oD, sD, qA, nG, wG, dG, eG, fG, bG, oZ, pA}
MixBlock ==
  [h \in MixHash |->
     CASE h = gen -> genesis_block
       [] h = s1 -> MCBlock("send", G, gen, NoKey, 1, A)
       [] h = s1x -> MCBlock("state", G, gen, A, 2, A)
       [] h = oA -> MCBlock("open", A, NoKey, A, 0, s1)
       [] h = oAx -> MCBlock("state", A, NoKey, G, 2, s1)
       [] h = cA -> MCBlock("change", A, oA, G, 0, NoKey)
       [] h = sA -> MCBlock("state", A, oA, D, 0, G)
       [] h = rG -> MCBlock("receive", G, s1, NoKey, 0, sA)
       [] h = rGs -> MCBlock("state", G, s1, D, 3, sA)
       [] h = zA -> MCBlock("send", A, cA, NoKey, 1, D)
       [] h = oD -> MCBlock("open", D, NoKey, D, 0, zA)
       [] h = sD -> MCBlock("state", D, oD, A, 0, A)
       [] h = qA -> MCBlock("receive", A, zA, NoKey, 0, sD)
       [] h = nG -> MCBlock("send", G, s1, NoKey, 2, D)
       [] h = wG -> [MCBlock("send", G, s1, NoKey, 0, D) EXCEPT !.signer = A]
       [] h = dG -> MCBlock("receive", G, rG, NoKey, 0, sA)
       [] h = eG -> MCBlock("send", G, rG, NoKey, 3, G)
       [] h = fG -> MCBlock("receive", G, eG, NoKey, 0, eG)
       [] h = bG -> MCBlock("state", G, rG, A, 2, NoKey)
       [] h = oZ -> MCBlock("state", NoKey, NoKey, A, 1, bG)
       [] h = pA -> MCBlock("state", A, s1, A, 2, NoKey)]

-----------------------------------------------------------------------------
(* Epoch upgrades.  e1G and e2G upgrade the genesis chain, xG skips an      *)
(* epoch; e1A and e2A open A without funds, f1A upgrades it after a legacy  *)
(* open; rA1 and rA2 receive s1 after an epoch open.  sG and tG send in     *)
(* epoch 2, tG with too little work; vG sends to an epoch link.  lA may not *)
(* receive sG as a legacy block; uA receives it and raises A to epoch 2.    *)
(* pA and pD are blocks of A and D on the genesis chain, nD opens D without *)
(* a source.                                                                *)
EpochBlock(account, previous, representative, bal, link) ==
  [MCBlock("state", account, previous, representative, bal, link) EXCEPT !.signer = E]
EpochHash == {gen, s1, oA, e1G, e2G, xG, e1A, e2A, f1A, rA1, rA2, sG, tG, vG, lA, uA,
              pA, pD, nD}
EpochBlocks ==
  [h \in EpochHash |->
     CASE h = gen -> genesis_block
       [] h = s1 -> MCBlock("send", G, gen, NoKey, 1, A)
       [] h = oA -> MCBlock("open", A, NoKey, A, 0, s1)
       [] h = e1G -> EpochBlock(G, s1, G, 1, link1)
       [] h = e2G -> EpochBlock(G, e1G, G, 1, link2)
       [] h = xG -> EpochBlock(G, s1, G, 1, link2)
       [] h = e1A -> EpochBlock(A, NoKey, NoKey, 0, link1)
       [] h = e2A -> EpochBlock(A, NoKey, NoKey, 0, link2)
       [] h = f1A -> EpochBlock(A, oA, A, 2, link1)
       [] h = rA1 -> MCBlock("state", A, e1A, A, 2, s1)
       [] h = rA2 -> MCBlock("state", A, e2A, D, 2, s1)
       [] h = sG -> [MCBlock("state", G, e2G, D, 0, A) EXCEPT !.difficulty = 2]
       [] h = tG -> MCBlock("state", G, e2G, A, 0, A)
       [] h = vG -> MCBlock("state", G, e1G, A, 0, link1)
       [] h = lA -> MCBlock("receive", A, oA, NoKey, 0, sG)
       [] h = uA -> MCBlock("state", A, oA, A, 3, sG)
       [] h = pA -> MCBlock("state", A, s1, A, 2, NoKey)
       [] h = pD -> MCBlock("state", D, s1, D, 0, NoKey)
       [] h = nD -> MCBlock("state", D, NoKey, D, 0, NoKey)]

=============================================================================
