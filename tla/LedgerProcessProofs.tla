------------------------- MODULE LedgerProcessProofs ------------------------
(***************************************************************************)
(* Adding a block preserves LedgerInv, and the handlers of                 *)
(* ledger_processor add a block: each is an instance of Appended when its  *)
(* checks pass.                                                            *)
(***************************************************************************)
EXTENDS LedgerProcess, LedgerFacts

(* Enough time for a step on a busy machine.                                *)
USE ZenonT(60)

(* An added block keeps every table in its type.                            *)
LEMMA AppendedType ==
  ASSUME LedgerInv, NEW b, Appended(b)
  PROVE  TypeOK'
<1> USE DEF Appended
<1>1. DOMAIN blocks' \subseteq Hash /\ blocks' \in [DOMAIN blocks' -> Sideband]
  BY DEF AppendedBlocks, LedgerInv, TypeOK, stored
<1>2. DOMAIN accounts' \subseteq Account /\ accounts' \in [DOMAIN accounts' -> AccountInfo]
  BY DEF AppendedAccounts, LedgerInv, TypeOK
<1>3. /\ DOMAIN confirmation_height' \subseteq Account
      /\ confirmation_height' \in [DOMAIN confirmation_height' -> HeightInfo]
  BY <1>2 DEF AppendedAccounts
<1>4. /\ DOMAIN pending' \subseteq (Destination \cup Hash) \X Hash
      /\ pending' \in [DOMAIN pending' -> PendingInfo]
  <2>1. /\ DOMAIN pending \subseteq (Destination \cup Hash) \X Hash
        /\ pending \in [DOMAIN pending -> PendingInfo]
    BY DEF LedgerInv, TypeOK
  <2>2. b \in Hash /\ Block[b].link \in Destination \cup Hash
    BY BlockAssumption DEF AppendedBlocks, BlockContents, Destination
  <2>3. CASE sends(b) /\ \E info \in PendingInfo :
               pending' = Put(pending, <<Block[b].link, b>>, info)
    BY SMTT(60), <2>1, <2>2, <2>3 DEF Put
  <2>4. CASE pending' = Del(pending, <<owner(b), Block[b].link>>)
    BY <2>1, <2>4 DEF Del
  <2>5. CASE pending' = pending
    BY <2>1, <2>5
  <2> QED BY <2>3, <2>4, <2>5 DEF AppendedPending
<1>5. DOMAIN frontiers' \subseteq Hash /\ frontiers' \in [DOMAIN frontiers' -> Account]
  BY DEF AppendedFrontiers
<1>6. /\ block_count' \in Nat /\ account_count' \in Nat /\ cemented_count' \in Nat
      /\ stack' \in Seq(Frame)
  BY SMTT(60) DEF LedgerInv, TypeOK, AppendedAccounts
<1> QED BY <1>1, <1>2, <1>3, <1>4, <1>5, <1>6 DEF TypeOK

(* An added block extends or opens the chain of its account.                *)
LEMMA AppendedChain ==
  ASSUME LedgerInv, NEW b, Appended(b)
  PROVE  ChainInv'
<1> DEFINE a == owner(b)
<1> AppendedReads(b)
  BY AppendedFacts
<1> USE DEF AppendedReads
<1>0. /\ AppendedBlocks(b) /\ AppendedAccounts(b) /\ AppendedFrontiers(b)
      /\ TypeOK /\ BlocksOwned /\ BlocksOnPrevious /\ HeightsOrdered /\ HeadsStored
      /\ ChangesKeepBalance /\ FrontiersAreHeads
  BY DEF Appended, LedgerInv, ChainInv
<1>1. \A x \in DOMAIN accounts : accounts[x].block_count \in Nat /\ accounts[x].head \in stored
  BY <1>0 DEF TypeOK, AccountInfo, HeadsStored
<1>2. BlocksOwned'
  <2> SUFFICES ASSUME NEW h \in stored'
               PROVE  /\ blocks'[h].account = owner(h)
                      /\ owner(h) \in DOMAIN accounts'
                      /\ 1 <= blocks'[h].height
                      /\ blocks'[h].height <= accounts'[owner(h)].block_count
    BY DEF BlocksOwned, owner
  <2>1. CASE h = b
    BY SMTT(60), <1>0, <1>1, <2>1 DEF AppendedBlocks, AppendedAccounts
  <2>2. CASE h # b
    <3>1. h \in stored /\ blocks'[h].account = blocks[h].account
      BY <1>0, <2>2 DEF AppendedBlocks, Kept
    <3>2. CASE owner(h) = a
      BY SMTT(60), <1>0, <1>1, <3>1, <3>2 DEF AppendedAccounts, BlocksOwned
    <3>3. CASE owner(h) # a
      BY <1>0, <1>1, <3>1, <3>3 DEF AppendedAccounts, BlocksOwned
    <3> QED BY <3>2, <3>3
  <2> QED BY <2>1, <2>2
<1>3. BlocksOnPrevious'
  <2> SUFFICES ASSUME NEW h \in stored'
               PROVE  IF Block[h].previous = Zero
                      THEN blocks'[h].height = 1 /\ Block[h].type \in {"open", "state"}
                      ELSE /\ Block[h].previous \in stored'
                           /\ owner(Block[h].previous) = owner(h)
                           /\ Block[h].type # "state" => Block[Block[h].previous].type # "state"
                           /\ blocks'[h].height = blocks'[Block[h].previous].height + 1
    BY DEF BlocksOnPrevious, owner
  <2>1. CASE h = b /\ a \in DOMAIN accounts
    <3> DEFINE previous == Block[b].previous
    <3>1. /\ previous = accounts[a].head /\ blocks'[b].height = accounts[a].block_count + 1
          /\ Block[b].type # "state" => Block[previous].type # "state"
      BY <1>0, <2>1 DEF AppendedAccounts
    <3>2. /\ previous \in stored /\ owner(previous) = a
          /\ blocks[previous].height = accounts[a].block_count
      BY <1>0, <2>1, <3>1 DEF HeadsStored
    <3>3. previous \in stored' /\ previous # Zero /\ blocks'[previous].height = blocks[previous].height
      BY <1>0, <3>2 DEF AppendedBlocks
    <3> QED BY <2>1, <3>1, <3>2, <3>3
  <2>2. CASE h = b /\ a \notin DOMAIN accounts
    BY <1>0, <2>2 DEF AppendedAccounts
  <2>3. CASE h # b
    BY <1>0, <2>3 DEF AppendedBlocks, BlocksOnPrevious
  <2> QED BY <2>1, <2>2, <2>3
<1>4. HeightsOrdered'
  <2> SUFFICES ASSUME NEW h \in stored', NEW k \in stored', owner(h) = owner(k)
               PROVE  /\ blocks'[h].height = blocks'[k].height => h = k
                      /\ blocks'[h].height <= blocks'[k].height => Rank[h] <= Rank[k]
    BY DEF HeightsOrdered, owner
  <2>1. \A x \in stored : owner(x) = a =>
          /\ blocks'[x].height < blocks'[b].height
          /\ Rank[x] < Rank[b]
    <3> SUFFICES ASSUME NEW x \in stored, owner(x) = a
                 PROVE  blocks'[x].height < blocks'[b].height /\ Rank[x] < Rank[b]
      OBVIOUS
    <3>1. a \in DOMAIN accounts /\ blocks[x].height <= accounts[a].block_count
      BY <1>0 DEF BlocksOwned
    <3>2. blocks'[b].height = accounts[a].block_count + 1
      BY <1>0, <3>1 DEF AppendedAccounts
    <3>3. Block[b].previous \in stored /\ Block[b].previous = accounts[a].head
      BY <1>0, <1>1, <3>1 DEF AppendedAccounts
    <3>4. owner(Block[b].previous) = a /\ blocks[Block[b].previous].height = accounts[a].block_count
      BY <1>0, <3>1, <3>3 DEF HeadsStored
    <3>5. Rank[x] <= Rank[Block[b].previous]
      BY <1>0, <3>1, <3>3, <3>4 DEF HeightsOrdered
    <3>6. Rank[Block[b].previous] < Rank[b] /\ Rank[x] \in Nat /\ Rank[b] \in Nat
          /\ Rank[Block[b].previous] \in Nat
      BY <3>3, RankAssumption
    <3> QED BY SMTT(60), <1>1, <3>1, <3>2, <3>5, <3>6
  <2>2. CASE h \in stored /\ k \in stored
    BY <1>0, <2>2 DEF HeightsOrdered
  <2>3. CASE h = b \/ k = b
    <3>1. stored' = stored \cup {b} /\ Rank[b] \in Nat
      BY <1>0, RankAssumption DEF AppendedBlocks
    <3> QED BY SMTT(60), <2>1, <2>3, <3>1, RankAssumption
  <2> QED BY <1>0, <2>2, <2>3 DEF AppendedBlocks
<1>5. HeadsStored'
  <2> SUFFICES ASSUME NEW x \in DOMAIN accounts'
               PROVE  /\ accounts'[x].head \in stored'
                      /\ owner(accounts'[x].head) = x
                      /\ blocks'[accounts'[x].head].height = accounts'[x].block_count
                      /\ accounts'[x].balance = worth(blocks', accounts'[x].head)
    BY DEF HeadsStored, owner, balance, block_balance_calculated, worth
  <2>1. CASE x = a
    <3>1. b # Zero
      BY ConstantsAssumption
    <3>2. accounts'[x].head = b /\ accounts'[x].balance = worth(blocks', b)
      BY <1>0, <2>1, <3>1 DEF AppendedAccounts, block_balance_calculated, worth
    <3> QED BY <1>0, <2>1, <3>2 DEF AppendedBlocks, AppendedAccounts
  <2>2. CASE x # a
    <3>1. x \in DOMAIN accounts /\ accounts'[x] = accounts[x]
      BY <1>0, <2>2 DEF AppendedAccounts
    <3>2. worth(blocks', accounts[x].head) = balance(accounts[x].head)
      BY <1>0, <1>1, <3>1 DEF AppendedBlocks, Kept, worth, balance, block_balance_calculated
    <3> QED BY <1>0, <1>1, <3>1, <3>2 DEF AppendedBlocks, HeadsStored
  <2> QED BY <2>1, <2>2
<1>6. ChangesKeepBalance'
  <2> SUFFICES ASSUME NEW h \in stored', Block[h].type = "change"
               PROVE  Block[h].previous # Zero /\ blocks'[h].balance = balance(Block[h].previous)'
    BY DEF ChangesKeepBalance, balance, block_balance_calculated
  <2>1. CASE h = b
    BY <1>0, <2>1 DEF AppendedAccounts
  <2>2. CASE h # b
    <3>1. h \in stored
      BY <1>0, <2>2 DEF AppendedBlocks
    <3>2. Block[h].previous # Zero /\ blocks[h].balance = balance(Block[h].previous)
      BY <1>0, <3>1 DEF ChangesKeepBalance
    <3>3. blocks'[h].balance = blocks[h].balance
      BY <1>0, <3>1 DEF AppendedBlocks, Kept
    <3>4. balance(Block[h].previous)' = balance(Block[h].previous)
      BY <3>1, <3>2 DEF AppendedReads
    <3> QED BY <3>2, <3>3, <3>4
  <2> QED BY <2>1, <2>2
<1>7. FrontiersAreHeads'
  <2> SUFFICES ASSUME NEW h \in DOMAIN frontiers'
               PROVE  /\ frontiers'[h] \in DOMAIN accounts'
                      /\ accounts'[frontiers'[h]].head = h
                      /\ Block[h].type # "state"
    BY DEF FrontiersAreHeads
  <2>1. CASE h = b /\ frontiers'[h] = a /\ Block[h].type # "state"
    BY <1>0, <2>1 DEF AppendedAccounts
  <2>2. CASE h \in DOMAIN frontiers /\ h # Block[b].previous /\ frontiers'[h] = frontiers[h]
    <3>1. frontiers[h] # a
      BY <1>0, <2>2 DEF AppendedAccounts, FrontiersAreHeads
    <3> QED BY SMTT(60), <1>0, <2>2, <3>1 DEF AppendedAccounts, FrontiersAreHeads
  <2> QED BY <1>0, <2>1, <2>2 DEF AppendedFrontiers
<1> QED BY <1>2, <1>3, <1>4, <1>5, <1>6, <1>7 DEF ChainInv

(* An added send becomes pending, an added receive uses up a pending send.  *)
LEMMA AppendedSend ==
  ASSUME LedgerInv, NEW b, Appended(b)
  PROVE  SendInv'
<1> DEFINE link == Block[b].link
           key == <<owner(b), link>>
<1> AppendedReads(b)
  BY AppendedFacts
<1> USE DEF AppendedReads
<1>0. /\ stored' = stored \cup {b} /\ b \notin stored
      /\ AppendedPending(b)
      /\ ReceiversHaveSends /\ PendingAreSends /\ PendingNotReceived /\ ReceivedOnce
      /\ SendsAccounted
  BY DEF Appended, AppendedBlocks, LedgerInv, SendInv
<1>1. ~(sends(b) /\ is_receiver(b))
  BY DEF is_receiver
<1>2. is_receiver(b) =>
        /\ key \in DOMAIN pending /\ pending' = Del(pending, key)
        /\ link \in stored /\ sends(link) /\ Block[link].link = owner(b)
  BY <1>0, <1>1 DEF AppendedPending, PendingAreSends
<1>3. \A k \in DOMAIN pending' :
        \/ k \in DOMAIN pending /\ pending'[k] = pending[k] /\ (is_receiver(b) => k # key)
        \/ sends(b) /\ k = <<link, b>> /\ pending'[k].source = owner(b)
  <2>1. CASE sends(b) /\ \E info \in PendingInfo : /\ info.source = owner(b)
                                                   /\ pending' = Put(pending, <<link, b>>, info)
    BY <1>1, <2>1 DEF Put
  <2>2. CASE is_receiver(b) /\ pending' = Del(pending, key)
    BY <2>2 DEF Del
  <2>3. CASE ~sends(b) /\ ~is_receiver(b) /\ pending' = pending
    BY <2>3
  <2> QED BY <1>0, <2>1, <2>2, <2>3 DEF AppendedPending
<1>4. \A k \in DOMAIN pending : k \in DOMAIN pending' \/ (is_receiver(b) /\ k = key)
  BY <1>0 DEF AppendedPending, Put, Del
<1>5. sends(b) => <<link, b>> \in DOMAIN pending'
  BY <1>0, <1>1 DEF AppendedPending, Put
<1>6. ReceiversHaveSends'
  <2> SUFFICES ASSUME NEW r \in stored', is_receiver(r)'
               PROVE  /\ Block[r].link \in stored'
                      /\ sends(Block[r].link)'
                      /\ Block[Block[r].link].link = owner(r)
    BY DEF ReceiversHaveSends, owner
  <2>1. CASE r = b
    BY <1>0, <1>2, <2>1
  <2>2. CASE r # b
    BY <1>0, <2>2 DEF ReceiversHaveSends
  <2> QED BY <2>1, <2>2
<1>7. PendingAreSends'
  <2> SUFFICES ASSUME NEW k \in DOMAIN pending'
               PROVE  /\ k[2] \in stored' /\ sends(k[2])'
                      /\ k = <<Block[k[2]].link, k[2]>>
                      /\ pending'[k].source = owner(k[2])
    BY DEF PendingAreSends, owner
  <2> QED BY SMTT(60), <1>0, <1>3 DEF PendingAreSends
<1>8. PendingNotReceived'
  <2> SUFFICES ASSUME NEW k \in DOMAIN pending', NEW r \in stored', is_receiver(r)'
               PROVE  Block[r].link # k[2]
    BY DEF PendingNotReceived
  <2>1. is_receiver(r)
    BY <1>0
  <2>2. CASE r = b
    <3>1. k \in DOMAIN pending /\ k # key
      BY <1>1, <1>3, <2>1, <2>2
    <3> QED BY <1>0, <1>2, <2>1, <2>2, <3>1 DEF PendingAreSends
  <2>3. CASE r \in stored
    <3>1. Block[r].link \in stored
      BY <1>0, <2>1, <2>3 DEF ReceiversHaveSends
    <3> QED BY SMTT(60), <1>0, <1>3, <2>1, <2>3, <3>1 DEF PendingNotReceived
  <2> QED BY <1>0, <2>2, <2>3
<1>9. ReceivedOnce'
  <2> SUFFICES ASSUME NEW r \in stored', NEW q \in stored', is_receiver(r)', is_receiver(q)',
                      Block[r].link = Block[q].link
               PROVE  r = q
    BY DEF ReceivedOnce
  <2>1. is_receiver(r) /\ is_receiver(q)
    BY <1>0
  <2>2. \A x \in stored : is_receiver(x) /\ is_receiver(b) => Block[x].link # link
    BY <1>0, <1>2 DEF PendingNotReceived
  <2> QED BY <1>0, <2>1, <2>2 DEF ReceivedOnce
<1>10. SendsAccounted'
  <2> SUFFICES ASSUME NEW h \in stored', sends(h)'
               PROVE  \/ <<Block[h].link, h>> \in DOMAIN pending'
                      \/ \E r \in stored' : is_receiver(r)' /\ Block[r].link = h
    BY DEF SendsAccounted
  <2>1. sends(h)
    BY <1>0
  <2>2. CASE h = b
    BY <1>5, <2>1, <2>2
  <2>3. CASE h \in stored /\ <<Block[h].link, h>> \in DOMAIN pending
    <3>1. CASE <<Block[h].link, h>> \in DOMAIN pending'
      BY <3>1
    <3>2. CASE is_receiver(b) /\ <<Block[h].link, h>> = key
      BY <1>0, <3>2
    <3> QED BY <1>4, <2>3, <3>1, <3>2
  <2>4. CASE h \in stored /\ \E r \in stored : is_receiver(r) /\ Block[r].link = h
    BY <1>0, <2>4
  <2> QED BY <1>0, <2>1, <2>2, <2>3, <2>4 DEF SendsAccounted
<1> QED BY <1>6, <1>7, <1>8, <1>9, <1>10 DEF SendInv

(* An added block is not cemented and disturbs no cemented one.             *)
LEMMA AppendedCement ==
  ASSUME LedgerInv, NEW b, Appended(b)
  PROVE  /\ CementInv'
         /\ \A h \in stored : block_confirmed(h)' <=> block_confirmed(h)
<1> DEFINE a == owner(b)
<1> AppendedReads(b)
  BY AppendedFacts
<1> USE DEF AppendedReads
<1>0. /\ AppendedBlocks(b) /\ AppendedAccounts(b) /\ TypeOK /\ BlocksOwned
      /\ HeightsKnown /\ GenesisCemented /\ CementedOnCemented /\ CementedFrontiers
      /\ stored' = stored \cup {b} /\ b \notin stored
  BY DEF Appended, AppendedBlocks, LedgerInv, ChainInv, CementInv
<1>1. BlocksOwned'
  BY AppendedChain DEF ChainInv
<1>2. \A x \in DOMAIN accounts : /\ accounts[x].block_count \in Nat
                                 /\ confirmation_height[x].height \in Nat
                                 /\ confirmation_height'[x] = confirmation_height[x]
                                 /\ confirmation_height[x].height <= accounts[x].block_count
  BY <1>0 DEF TypeOK, AccountInfo, HeightInfo, HeightsKnown, AppendedAccounts
<1>3. ASSUME NEW h \in stored
      PROVE  block_confirmed(h)' <=> block_confirmed(h)
  <2>1. block_confirmed(h)' <=> blocks'[h].height <= confirmation_height'[owner(h)].height
    BY <1>0, <1>1, <1>3, Confirmed
       DEF owner, block_confirmed, BlocksOwned, block_exists, block_account, stored
  <2> QED BY <1>0, <1>2, <1>3, <2>1, Confirmed DEF BlocksOwned
<1>4. ~block_confirmed(b)'
  <2>1. block_confirmed(b)' => blocks'[b].height <= confirmation_height'[a].height
    BY <1>0, <1>1 DEF BlocksOwned, owner, block_confirmed, block_account
  <2>2. CASE a \in DOMAIN accounts
    BY SMTT(60), <1>0, <1>2, <2>1, <2>2 DEF AppendedAccounts
  <2>3. CASE a \notin DOMAIN accounts
    BY SMTT(60), <1>0, <2>1, <2>3 DEF AppendedAccounts
  <2> QED BY <2>2, <2>3
<1>5. HeightsKnown'
  <2> SUFFICES ASSUME NEW x \in DOMAIN accounts'
               PROVE  confirmation_height'[x].height <= accounts'[x].block_count
    BY <1>0 DEF HeightsKnown, AppendedAccounts
  <2>1. CASE x = a /\ a \in DOMAIN accounts
    <3>1. accounts'[a].block_count = accounts[a].block_count + 1
      BY <1>0, <2>1 DEF AppendedAccounts
    <3>2. /\ accounts[a].block_count \in Nat /\ confirmation_height[a].height \in Nat
          /\ confirmation_height'[a].height <= accounts[a].block_count
          /\ confirmation_height'[a].height = confirmation_height[a].height
      BY <1>2, <2>1
    <3> QED BY SMTT(60), <2>1, <3>1, <3>2
  <2>2. CASE x = a /\ a \notin DOMAIN accounts
    BY SMTT(60), <1>0, <2>2 DEF AppendedAccounts
  <2>3. CASE x # a
    BY <1>0, <1>2, <2>3 DEF AppendedAccounts
  <2> QED BY <2>1, <2>2, <2>3
<1>6. GenesisCemented'
  BY <1>0, <1>3 DEF GenesisCemented, AppendedBlocks, Kept
<1>7. CementedOnCemented'
  <2> SUFFICES ASSUME NEW h \in stored', block_confirmed(h)', NEW d \in dependent_blocks(h)'
               PROVE  block_confirmed(d)'
    BY DEF CementedOnCemented, can_vote
  <2>1. h \in stored /\ block_confirmed(h) /\ d \in dependent_blocks(h)
    BY <1>0, <1>3, <1>4
  <2>2. block_confirmed(d)
    BY <1>0, <2>1 DEF CementedOnCemented, can_vote
  <2> QED BY <1>3, <2>2 DEF block_confirmed, block_exists, stored
<1>8. CementedFrontiers'
  <2> SUFFICES ASSUME NEW x \in DOMAIN confirmation_height'
               PROVE  LET info == confirmation_height'[x]
                      IN IF info.height = 0 THEN info.frontier = Zero
                         ELSE info.frontier \in stored' /\ owner(info.frontier) = x
                              /\ blocks'[info.frontier].height = info.height
    BY DEF CementedFrontiers, owner
  <2>1. CASE x \in DOMAIN accounts
    BY SMTT(60), <1>0, <1>2, <2>1 DEF CementedFrontiers, HeightsKnown
  <2>2. CASE x = a /\ a \notin DOMAIN accounts
    BY SMTT(60), <1>0, <2>2 DEF AppendedAccounts
  <2> QED BY <1>0, <2>1, <2>2 DEF AppendedAccounts
<1> QED BY <1>3, <1>5, <1>6, <1>7, <1>8 DEF CementInv

(* An added block becomes the successor of the head it stands on.           *)
LEMMA AppendedLink ==
  ASSUME LedgerInv, NEW b, Appended(b)
  PROVE  LinkInv'
<1> DEFINE a == owner(b)
           previous == Block[b].previous
<1> AppendedReads(b) /\ AppendedValues(b)
  BY AppendedFacts, AppendedKeepsValues
<1>0. /\ AppendedBlocks(b) /\ AppendedAccounts(b) /\ SuccessorsPut(b) /\ FrontiersMoved(b)
      /\ TypeOK /\ BlocksOwned /\ BlocksOnPrevious /\ HeadsStored
      /\ NeighboursLinked /\ OpenBlocksStored /\ LegacyHeadsAreFrontiers
  BY DEF Appended, LedgerInv, ChainInv, LinkInv
<1>1. /\ stored' = stored \cup {b} /\ b \notin stored /\ b # Zero
      /\ accounts'[a].head = b /\ DOMAIN accounts' = DOMAIN accounts \cup {a}
      /\ \A x \in DOMAIN accounts : x # a => accounts'[x] = accounts[x]
  BY <1>0, Contents DEF AppendedBlocks, AppendedAccounts
<1>2. /\ previous # Zero <=> a \in DOMAIN accounts
      /\ a \in DOMAIN accounts => /\ previous \in stored /\ previous = accounts[a].head
                                  /\ blocks[previous].height = accounts[a].block_count
                                  /\ owner(previous) = a
  BY <1>0 DEF AppendedAccounts, AppendedReads, AppendedValues, HeadsStored
<1>3. ASSUME NEW h \in stored, Block[h].previous # Zero
      PROVE  Block[h].previous # previous /\ Block[h].previous \in stored
  <2>1. /\ Block[h].previous \in stored /\ owner(Block[h].previous) = owner(h)
        /\ blocks[h].height = blocks[Block[h].previous].height + 1
        /\ blocks[h].height <= accounts[owner(h)].block_count
    BY <1>0, <1>3 DEF BlocksOnPrevious, BlocksOwned
  <2>2. blocks[Block[h].previous].height \in Nat
    BY <2>1 DEF AppendedReads
  <2>3. blocks[Block[h].previous].height # accounts[owner(h)].block_count
    BY SMTT(60), <2>1, <2>2
  <2> QED BY <1>2, <1>3, <2>1, <2>3
<1>4. /\ \A h \in stored : blocks'[h].successor = IF h = previous THEN b ELSE blocks[h].successor
      /\ blocks'[b].successor = Zero
      /\ accounts'[a].open_block = IF a \in DOMAIN accounts THEN accounts[a].open_block ELSE b
  BY <1>0 DEF SuccessorsPut
<1>5. NeighboursLinked'
  <2> SUFFICES ASSUME NEW h \in stored'
               PROVE  /\ IF Block[h].previous = Zero
                         THEN accounts'[owner(h)].open_block = h
                         ELSE blocks'[Block[h].previous].successor = h
                      /\ IF blocks'[h].successor = Zero
                         THEN accounts'[owner(h)].head = h
                         ELSE /\ blocks'[h].successor \in stored'
                              /\ Block[blocks'[h].successor].previous = h
    BY DEF NeighboursLinked, owner
  <2>1. CASE h = b
    BY <1>1, <1>2, <1>4, <2>1
  <2>2. CASE h \in stored
    <3>1. /\ IF Block[h].previous = Zero
             THEN accounts[owner(h)].open_block = h
             ELSE blocks[Block[h].previous].successor = h
          /\ IF blocks[h].successor = Zero
             THEN accounts[owner(h)].head = h
             ELSE blocks[h].successor \in stored /\ Block[blocks[h].successor].previous = h
          /\ owner(h) \in DOMAIN accounts
      BY <1>0, <2>2 DEF NeighboursLinked, BlocksOwned
    <3>2. IF Block[h].previous = Zero
          THEN accounts'[owner(h)].open_block = h
          ELSE blocks'[Block[h].previous].successor = h
      <4>1. CASE Block[h].previous = Zero
        BY <1>1, <1>4, <3>1, <4>1
      <4>2. CASE Block[h].previous # Zero
        BY <1>3, <1>4, <2>2, <3>1, <4>2
      <4> QED BY <4>1, <4>2
    <3>3. CASE h = previous
      BY <1>1, <1>4, <2>2, <3>2, <3>3
    <3>4. CASE h # previous
      <4>1. blocks'[h].successor = blocks[h].successor
        BY <1>4, <2>2, <3>4
      <4>2. blocks[h].successor = Zero => owner(h) # a
        BY <1>2, <3>1, <3>4
      <4> QED BY <1>1, <3>1, <3>2, <4>1, <4>2
    <3> QED BY <3>3, <3>4
  <2> QED BY <1>1, <2>1, <2>2
<1>6. OpenBlocksStored'
  <2> SUFFICES ASSUME NEW x \in DOMAIN accounts'
               PROVE  /\ accounts'[x].open_block \in stored'
                      /\ owner(accounts'[x].open_block) = x
                      /\ Block[accounts'[x].open_block].previous = Zero
    BY DEF OpenBlocksStored, owner
  <2>1. CASE x \in DOMAIN accounts
    <3> DEFINE o == accounts[x].open_block
    <3>1. o \in stored /\ owner(o) = x /\ Block[o].previous = Zero
      BY <1>0, <2>1 DEF OpenBlocksStored
    <3>2. accounts'[x].open_block = o
      BY <1>1, <1>4, <2>1
    <3> HIDE DEF o
    <3> QED BY <1>1, <3>1, <3>2
  <2>2. CASE x = a /\ a \notin DOMAIN accounts
    BY <1>1, <1>2, <1>4, <2>2
  <2> QED BY <1>1, <2>1, <2>2
<1>7. LegacyHeadsAreFrontiers'
  <2> SUFFICES ASSUME NEW x \in DOMAIN accounts', Block[accounts'[x].head].type # "state"
               PROVE  accounts'[x].head \in DOMAIN frontiers'
    BY DEF LegacyHeadsAreFrontiers
  <2>1. CASE x = a
    BY <1>0, <1>1, <2>1 DEF FrontiersMoved
  <2>2. CASE x # a
    <3>1. x \in DOMAIN accounts /\ accounts'[x] = accounts[x]
      BY <1>1, <2>2
    <3>2. accounts[x].head \in stored /\ owner(accounts[x].head) = x
      BY <1>0, <3>1 DEF HeadsStored
    <3>3. accounts[x].head # previous
      BY <1>2, <2>2, <3>2 DEF AppendedReads
    <3> QED BY <1>0, <3>1, <3>3 DEF FrontiersMoved, LegacyHeadsAreFrontiers
  <2> QED BY <2>1, <2>2
<1> QED BY <1>5, <1>6, <1>7 DEF LinkInv

(* The entries of the pending table after a block is added.                 *)
LEMMA AppendedEntries ==
  ASSUME LedgerInv, NEW b, Appended(b), NEW k \in DOMAIN pending'
  PROVE  \/ k \in DOMAIN pending /\ pending'[k] = pending[k]
         \/ sends(b) /\ k = <<Block[b].link, b>>
<1>1. AppendedPending(b)
  BY DEF Appended
<1> QED BY <1>1 DEF AppendedPending, Put, Del

(* An added block is worth what its contents and its source say.            *)
LEMMA AppendedWorthInv ==
  ASSUME LedgerInv, RepresentativeInForce, NEW b, Appended(b)
  PROVE  WorthInv'
<1> DEFINE a == owner(b)
           previous == Block[b].previous
           type == Block[b].type
           before == balance(previous)
           link == Block[b].link
           new == accounts'[a]
<1> AppendedReads(b) /\ AppendedValues(b)
  BY AppendedFacts, AppendedKeepsValues
<1>0. /\ AppendedBlocks(b) /\ AppendedAccounts(b) /\ AppendedPending(b) /\ AppendedWorth(b)
      /\ TypeOK /\ BlocksOnPrevious /\ HeadsStored /\ ReceiversHaveSends /\ PendingAreSends
      /\ HeadsInForce /\ PendingExact /\ ReceiptsMatch /\ SendsPay /\ OthersKeepBalance
      /\ EpochsRise
  BY DEF Appended, LedgerInv, ChainInv, SendInv, WorthInv
<1>1. /\ stored' = stored \cup {b} /\ b \notin stored /\ b \in Hash /\ b # Zero
      /\ new.head = b /\ DOMAIN accounts' = DOMAIN accounts \cup {a}
      /\ \A x \in DOMAIN accounts : x # a => accounts'[x] = accounts[x]
      /\ \A h \in stored : blocks'[h].balance = blocks[h].balance
  BY <1>0, Contents DEF AppendedBlocks, AppendedAccounts, Kept
<1>2. /\ previous # Zero <=> a \in DOMAIN accounts
      /\ a \in DOMAIN accounts => previous \in stored /\ previous = accounts[a].head
  BY <1>0 DEF AppendedAccounts, AppendedReads, AppendedValues
<1>3. block_version(b)' = new.epoch
  <2>1. block_version(b)' = IF type = "state" THEN blocks'[b].epoch ELSE 0
    BY <1>1 DEF block_version, block_exists, stored
  <2> QED BY <1>0, <2>1 DEF AppendedWorth
<1>4. HeadsInForce'
  <2> SUFFICES ASSUME NEW x \in DOMAIN accounts', NEW h, h = accounts'[x].head
               PROVE  /\ accounts'[x].representative = Block[representative_block[h]].representative
                      /\ accounts'[x].epoch = block_version(h)'
    BY DEF HeadsInForce, block_version, block_exists
  <2>1. CASE x = a
    <3>1. CASE type \in {"send", "receive"}
      <4>1. a \in DOMAIN accounts /\ new.representative = accounts[a].representative
        BY <1>0, <3>1 DEF AppendedWorth
      <4>2. previous \in Hash /\ previous = accounts[a].head
        BY <1>2, <4>1 DEF AppendedReads
      <4>3. representative_block[b] = representative_block[previous]
        BY <1>1, <3>1, <4>2 DEF RepresentativeInForce
      <4>4. accounts[a].representative = Block[representative_block[previous]].representative
        BY <1>0, <4>1, <4>2 DEF HeadsInForce
      <4>5. h = b /\ accounts'[x] = new /\ new.epoch = block_version(b)'
        BY <1>1, <1>3, <2>1
      <4> QED BY <4>1, <4>3, <4>4, <4>5
    <3>2. CASE type \notin {"send", "receive"}
      <4>1. new.representative = Block[b].representative
        BY <1>0, <3>2 DEF AppendedWorth
      <4>2. representative_block[b] = b
        BY <1>1, <3>2 DEF RepresentativeInForce
      <4> QED BY <1>1, <1>3, <2>1, <4>1, <4>2
    <3> QED BY <3>1, <3>2
  <2>2. CASE x # a
    <3>1. x \in DOMAIN accounts /\ accounts'[x] = accounts[x] /\ accounts[x].head \in stored
      BY <1>0, <1>1, <2>2 DEF HeadsStored
    <3> QED BY <1>0, <3>1 DEF HeadsInForce, AppendedValues
  <2> QED BY <2>1, <2>2
<1>5. PendingExact'
  <2> SUFFICES ASSUME NEW k \in DOMAIN pending'
               PROVE  /\ pending'[k].amount = amount(k[2])'
                      /\ pending'[k].epoch = block_version(k[2])'
    BY DEF PendingExact
  <2>1. CASE k \in DOMAIN pending /\ pending'[k] = pending[k]
    <3>1. k[2] \in stored
      BY <1>0, <2>1 DEF PendingAreSends
    <3> QED BY <1>0, <2>1, <3>1 DEF PendingExact, AppendedValues
  <2>2. CASE sends(b) /\ k = <<link, b>>
    <3>1. /\ Block[b].balance <= before /\ pending'[k].amount = before - Block[b].balance
          /\ pending'[k].epoch = new.epoch
      BY <1>0, <2>2 DEF AppendedWorth
    <3>2. before \in Amount
      BY <1>0, <1>2, BalanceType
    <3>3. before \in Int /\ Block[b].balance \in Int
      BY SMTT(60), <1>1, <3>2, Contents DEF Amount
    <3>4. balance(b)' = Block[b].balance
      BY <1>1, <2>2 DEF sends, balance, block_balance_calculated
    <3>5. amount(b)' = IF Block[b].balance > before THEN Block[b].balance - before
                       ELSE before - Block[b].balance
      BY <1>1, <3>4 DEF amount, AppendedValues
    <3>6. amount(b)' = before - Block[b].balance
      BY SMTT(60), <3>1, <3>3, <3>5
    <3>7. k[2] = b
      BY <2>2
    <3> QED BY <1>3, <3>1, <3>6, <3>7
  <2> QED BY <2>1, <2>2, AppendedEntries
<1>6. ReceiptsMatch'
  <2> SUFFICES ASSUME NEW r \in stored', is_receiver(r)'
               PROVE  LET prior == balance(Block[r].previous)'
                          sent == amount(Block[r].link)'
                      IN /\ Block[r].type = "state" => Block[r].balance - prior = sent
                         /\ Block[r].type = "open" => blocks'[r].balance = sent
                         /\ Block[r].type = "receive" => blocks'[r].balance = (prior + sent) % Modulus
                         /\ Block[r].type # "state" => block_version(Block[r].link)' = 0
    BY DEF ReceiptsMatch
  <2>1. is_receiver(r) /\ balance(Block[r].previous)' = balance(Block[r].previous)
    BY <1>1 DEF AppendedReads, AppendedValues
  <2>2. CASE r = b
    <3> DEFINE key == <<a, link>>
    <3>1. key \in DOMAIN pending
      BY <1>0, <2>1, <2>2 DEF AppendedPending, is_receiver
    <3>2. link \in stored /\ pending[key].amount = amount(link) /\ pending[key].epoch = block_version(link)
      BY <1>0, <3>1 DEF PendingAreSends, PendingExact
    <3>3. amount(link)' = pending[key].amount /\ block_version(link)' = pending[key].epoch
      BY <3>2 DEF AppendedValues
    <3>4. /\ type = "state" => Block[b].balance - before = pending[key].amount
          /\ type = "open" => blocks'[b].balance = pending[key].amount
          /\ type = "receive" => blocks'[b].balance = (before + pending[key].amount) % Modulus
          /\ type # "state" => pending[key].epoch = 0
      BY <1>0, <2>1, <2>2 DEF AppendedWorth
    <3> QED BY <2>1, <2>2, <3>3, <3>4
  <2>3. CASE r \in stored
    <3>1. Block[r].link \in stored
      BY <1>0, <2>1, <2>3 DEF ReceiversHaveSends
    <3>2. /\ amount(Block[r].link)' = amount(Block[r].link)
          /\ block_version(Block[r].link)' = block_version(Block[r].link)
          /\ blocks'[r].balance = blocks[r].balance
      BY <1>1, <2>3, <3>1 DEF AppendedValues
    <3> QED BY <1>0, <2>1, <2>3, <3>2 DEF ReceiptsMatch
  <2> QED BY <1>1, <2>2, <2>3
<1>7. SendsPay'
  <2> SUFFICES ASSUME NEW h \in stored', Block[h].type = "send"
               PROVE  Block[h].balance <= balance(Block[h].previous)'
    BY DEF SendsPay
  <2>1. CASE h = b
    BY <1>0, <2>1 DEF AppendedWorth, AppendedValues, sends
  <2>2. CASE h \in stored
    BY <1>0, <2>2 DEF SendsPay, AppendedValues
  <2> QED BY <1>1, <2>1, <2>2
<1>8. OthersKeepBalance'
  <2> SUFFICES ASSUME NEW h \in stored', Block[h].type = "state", ~sends(h)', ~is_receiver(h)'
               PROVE  Block[h].balance = balance(Block[h].previous)'
    BY DEF OthersKeepBalance
  <2>1. /\ ~sends(h) /\ ~is_receiver(h)
        /\ balance(Block[h].previous)' = balance(Block[h].previous)
    BY <1>1 DEF AppendedReads, AppendedValues
  <2>2. CASE h = b
    BY <1>0, <2>1, <2>2 DEF AppendedWorth
  <2>3. CASE h \in stored
    BY <1>0, <2>1, <2>3 DEF OthersKeepBalance
  <2> QED BY <1>1, <2>2, <2>3
<1>9. EpochsRise'
  <2> SUFFICES ASSUME NEW h \in stored'
               PROVE  /\ Block[h].previous # Zero =>
                           block_version(Block[h].previous)' <= block_version(h)'
                      /\ block_version(h)' = 2 => epoch_2_started'
    BY DEF EpochsRise
  <2>1. CASE h = b
    <3>1. /\ a \in DOMAIN accounts => accounts[a].epoch <= new.epoch
          /\ new.epoch = 2 => epoch_2_started'
      BY <1>0 DEF AppendedWorth
    <3>2. a \in DOMAIN accounts => accounts[a].epoch = block_version(previous)'
      BY <1>0, <1>2 DEF HeadsInForce, AppendedValues
    <3> QED BY <1>2, <1>3, <2>1, <3>1, <3>2
  <2>2. CASE h \in stored
    <3>1. Block[h].previous # Zero => Block[h].previous \in stored
      BY <2>2 DEF AppendedReads
    <3>2. epoch_2_started => epoch_2_started'
      BY <1>0 DEF AppendedWorth
    <3> QED BY <1>0, <2>2, <3>1, <3>2 DEF EpochsRise, AppendedValues
  <2> QED BY <1>1, <2>1, <2>2
<1> QED BY <1>4, <1>5, <1>6, <1>7, <1>8, <1>9 DEF WorthInv

(* An added block preserves the invariant, if the counters follow it.       *)
LEMMA AppendedInv ==
  ASSUME LedgerInv, RepresentativeInForce, NEW b, Appended(b), CountsRight'
  PROVE  LedgerInv'
<1>1. stack' = <<>>
  BY DEF Appended
<1>2. StackInv'
  BY <1>1, EmptyStack
<1> QED BY <1>2, AppendedType, AppendedChain, AppendedLink, AppendedSend, AppendedWorthInv, AppendedCement DEF LedgerInv

(* The counters follow an added block.                                      *)
LEMMA AppendedCounts ==
  ASSUME CountLaws, LedgerInv, NEW b, Appended(b)
  PROVE  CountsRight'
<1>1. IsFiniteSet(stored) /\ IsFiniteSet(DOMAIN accounts)
      /\ block_count = Cardinality(stored) /\ account_count = Cardinality(DOMAIN accounts)
  BY DEF LedgerInv, CountsRight
<1>2. /\ stored' = stored \cup {b} /\ b \notin stored /\ block_count' = block_count + 1
  BY DEF Appended, AppendedBlocks
<1>3. IsFiniteSet(stored') /\ block_count' = Cardinality(stored')
  <2>1. IsFiniteSet(stored \cup {b}) /\ Cardinality(stored \cup {b}) = Cardinality(stored) + 1
    BY <1>1, <1>2 DEF CountLaws
  <2> QED BY <1>1, <1>2, <2>1
<1>4. IsFiniteSet(DOMAIN accounts') /\ account_count' = Cardinality(DOMAIN accounts')
  <2>1. CASE owner(b) \in DOMAIN accounts
    <3>1. DOMAIN accounts' = DOMAIN accounts /\ account_count' = account_count
      BY <2>1 DEF Appended, AppendedAccounts
    <3> QED BY <1>1, <3>1
  <2>2. CASE owner(b) \notin DOMAIN accounts
    <3>1. /\ DOMAIN accounts' = DOMAIN accounts \cup {owner(b)}
          /\ account_count' = account_count + 1
      BY <2>2 DEF Appended, AppendedAccounts
    <3>2. /\ IsFiniteSet(DOMAIN accounts \cup {owner(b)})
          /\ Cardinality(DOMAIN accounts \cup {owner(b)}) = Cardinality(DOMAIN accounts) + 1
      BY <1>1, <2>2 DEF CountLaws
    <3> QED BY <1>1, <3>1, <3>2
  <2> QED BY <2>1, <2>2
<1>5. ASSUME NEW a \in DOMAIN accounts'
      PROVE  accounts'[a].block_count = Cardinality({h \in stored' : owner(h) = a})
  <2> DEFINE old == {h \in stored : owner(h) = a}
             new == {h \in stored' : owner(h) = a}
  <2>1. IsFiniteSet(old)
    BY <1>1 DEF CountLaws
  <2>2. CASE a = owner(b)
    <3>1. new = old \cup {b} /\ b \notin old
      BY <1>2, <2>2
    <3> HIDE DEF old, new
    <3>2. Cardinality(new) = Cardinality(old) + 1
      BY <2>1, <3>1 DEF CountLaws
    <3>3. accounts'[a].block_count = Cardinality(old) + 1
      <4>1. CASE a \in DOMAIN accounts
        BY <2>2, <4>1 DEF LedgerInv, CountsRight, Appended, AppendedAccounts, old
      <4>2. CASE a \notin DOMAIN accounts
        <5>1. old = {}
          BY <4>2 DEF LedgerInv, ChainInv, BlocksOwned, old
        <5>2. Cardinality(old) = 0
          BY <5>1 DEF CountLaws
        <5> QED BY SMTT(60), <2>2, <4>2, <5>2 DEF Appended, AppendedAccounts
      <4> QED BY <4>1, <4>2
    <3> QED BY <3>2, <3>3 DEF new
  <2>3. CASE a # owner(b)
    <3>1. new = old
      BY <1>2, <2>3
    <3>2. a \in DOMAIN accounts /\ accounts'[a] = accounts[a]
      BY <2>3, <1>5 DEF Appended, AppendedAccounts
    <3> QED BY <3>1, <3>2 DEF LedgerInv, CountsRight
  <2> QED BY <2>2, <2>3
<1>6. \A a \in DOMAIN accounts' :
        accounts'[a].block_count = Cardinality({h \in stored' : owner(h) = a})
  BY <1>5
<1> QED BY <1>3, <1>4, <1>6 DEF CountsRight, owner

-----------------------------------------------------------------------------
(* The sideband and the account_info with which b joins its chain.          *)
Placing(b, sb, new) ==
  LET a == owner(b)
      B == Block[b]
  IN /\ sb \in Sideband /\ new \in AccountInfo
     /\ sb.account = a /\ sb.height = account_get(a).block_count + 1 /\ sb.successor = Zero
     /\ new.head = b /\ new.block_count = sb.height
     /\ new.open_block = IF a \in DOMAIN accounts THEN accounts[a].open_block ELSE b
     /\ new.balance = IF B.type \in {"send", "state"} THEN B.balance ELSE sb.balance
     /\ a \in DOMAIN accounts =>
          /\ B.previous = accounts[a].head
          /\ B.type # "state" => Block[B.previous].type # "state"
     /\ a \notin DOMAIN accounts => B.previous = Zero /\ B.type \in {"open", "state"}
     /\ B.type = "change" => B.previous # Zero /\ sb.balance = balance(B.previous)

(* block_put and change_latest together place a block on its chain.         *)
LEMMA Placed ==
  ASSUME LedgerInv, NEW b \in Hash, b \notin stored, NEW sb, NEW new, Placing(b, sb, new),
         block_put(b, sb), change_latest(owner(b), account_get(owner(b)), new)
  PROVE  /\ AppendedBlocks(b) /\ AppendedAccounts(b) /\ SuccessorsPut(b)
         /\ accounts'[owner(b)] = new /\ blocks'[b] = sb
<1> DEFINE a == owner(b)
<1>0. TypeOK /\ HeightsKnown /\ HeadsStored
  BY DEF LedgerInv, ChainInv, CementInv
<1> USE DEF Placing
<1>1. a \in Account /\ b # Zero
  BY BlockAssumption, ConstantsAssumption DEF owner, BlockContents
<1>2. /\ stored' = stored \cup {b}
      /\ blocks' \in [stored' -> Sideband]
      /\ \A h \in stored : Kept(h)
      /\ blocks'[b] = sb
      /\ \A h \in stored :
           blocks'[h].successor = IF h = Block[b].previous THEN b ELSE blocks[h].successor
  BY <1>0, BlockPut
<1>3. /\ DOMAIN accounts' = DOMAIN accounts \cup {a}
      /\ accounts' \in [DOMAIN accounts' -> AccountInfo]
      /\ accounts'[a] = new
      /\ \A x \in DOMAIN accounts : x # a => accounts'[x] = accounts[x]
      /\ DOMAIN confirmation_height' = DOMAIN accounts'
      /\ confirmation_height' \in [DOMAIN confirmation_height' -> HeightInfo]
      /\ a \in DOMAIN accounts => account_count' = account_count
      /\ a \notin DOMAIN accounts => /\ confirmation_height'[a] = [height |-> 0, frontier |-> Zero]
                                     /\ account_count' = account_count + 1
      /\ \A x \in DOMAIN accounts : confirmation_height'[x] = confirmation_height[x]
  <2>1. /\ new \in AccountInfo /\ new.head # Zero
        /\ new.open_block = new.head \/ a \in DOMAIN accounts
        /\ change_latest(a, account_get(a), new)
    BY <1>1
  <2> HIDE DEF a, Placing
  <2> QED BY <1>0, <1>1, <2>1, ChangeLatestHead
<1>4. AppendedBlocks(b)
  BY <1>2 DEF AppendedBlocks
<1>5. accounts'[a].balance = block_balance_calculated(b)'
  BY <1>2, <1>3 DEF block_balance_calculated
<1>6. a \in DOMAIN accounts => blocks'[b].height = accounts[a].block_count + 1
  BY <1>2 DEF account_get
<1>7. a \notin DOMAIN accounts => blocks'[b].height = 1
  <2>1. NoInfo.block_count + 1 = 1
    BY SMTT(60), NoInfoFields
  <2> QED BY <1>2, <2>1 DEF account_get
<1>8. AppendedAccounts(b)
  BY <1>1, <1>2, <1>3, <1>4, <1>5, <1>6, <1>7 DEF AppendedAccounts
<1>9. SuccessorsPut(b)
  BY <1>2, <1>3 DEF SuccessorsPut
<1> QED BY <1>2, <1>3, <1>4, <1>8, <1>9

(* What the frontier table says of the block that a legacy block follows.   *)
LEMMA LegacyPrevious ==
  ASSUME LedgerInv, NEW b \in Hash, Block[b].type \in {"send", "receive", "change"},
         Block[b].previous \in DOMAIN frontiers
  PROVE  /\ frontiers[Block[b].previous] = owner(b)
         /\ owner(b) \in DOMAIN accounts
         /\ accounts[owner(b)].head = Block[b].previous
         /\ Block[b].previous \in stored
         /\ Block[b].previous # Zero
         /\ Block[Block[b].previous].type # "state"
         /\ account_get(owner(b)) = accounts[owner(b)]
         /\ accounts[owner(b)] \in AccountInfo
         /\ accounts[owner(b)].balance = balance(Block[b].previous)
         /\ accounts[owner(b)].epoch = 0
<1> DEFINE a == frontiers[Block[b].previous]
           p == Block[b].previous
<1>1. TypeOK /\ HeadsStored /\ FrontiersAreHeads
  BY DEF LedgerInv, ChainInv
<1>2. a \in DOMAIN accounts /\ accounts[a].head = p /\ Block[p].type # "state"
  BY <1>1 DEF FrontiersAreHeads
<1>3. p \in stored /\ owner(p) = a /\ p # Zero /\ accounts[a].balance = balance(p)
  BY <1>1, <1>2, ConstantsAssumption DEF HeadsStored, TypeOK, stored
<1>4. owner(b) = owner(p)
  BY <1>3, BlockAssumption DEF owner
<1>5. accounts[a].epoch = 0
  BY <1>2 DEF LedgerInv, WorthInv, HeadsInForce, block_version
<1> QED BY <1>1, <1>2, <1>3, <1>4, <1>5 DEF account_get, TypeOK

(* A legacy block takes the place of its previous block in the frontiers,   *)
(* a state block removes it.                                                *)
LEMMA FrontierMoved ==
  ASSUME LedgerInv, NEW b \in Hash,
         \/ /\ Block[b].type # "state"
            /\ frontiers' = Put(Del(frontiers, Block[b].previous), b, owner(b))
         \/ /\ Block[b].type = "state"
            /\ frontiers' = Del(frontiers, Block[b].previous)
  PROVE  AppendedFrontiers(b) /\ FrontiersMoved(b)
<1>1. DOMAIN frontiers \subseteq Hash /\ frontiers \in [DOMAIN frontiers -> Account]
  BY DEF LedgerInv, TypeOK
<1>2. owner(b) \in Account
  BY BlockAssumption DEF owner, BlockContents
<1>3. AppendedFrontiers(b)
  BY <1>1, <1>2 DEF AppendedFrontiers, Put, Del
<1>4. FrontiersMoved(b)
  BY <1>1 DEF FrontiersMoved, Put, Del
<1> QED BY <1>3, <1>4

(* What a legacy block leaves its account, its sends and its receipts with. *)
LegacyWorth(b) ==
  LET a == owner(b)
      B == Block[b]
      before == balance(B.previous)
      sent == pending'[<<B.link, b>>]
      entry == pending[<<a, B.link>>]
  IN /\ accounts'[a].epoch = 0 /\ epoch_2_started' = epoch_2_started
     /\ a \in DOMAIN accounts => accounts[a].epoch = 0
     /\ IF B.type \in {"send", "receive"}
        THEN a \in DOMAIN accounts /\ accounts'[a].representative = accounts[a].representative
        ELSE accounts'[a].representative = B.representative
     /\ sends(b) => B.balance <= before /\ sent.amount = before - B.balance /\ sent.epoch = 0
     /\ is_receiver(b) =>
          /\ entry.epoch = 0
          /\ B.type = "open" => blocks'[b].balance = entry.amount
          /\ B.type = "receive" => blocks'[b].balance = (before + entry.amount) % Modulus
LEMMA LegacyWorthEnough ==
  ASSUME NEW b, Block[b].type # "state", LegacyWorth(b)
  PROVE  AppendedWorth(b)
<1>1. \A x : x = 0 => x <= 0 /\ x # 2
  BY SMTT(60)
<1>2. owner(b) \in DOMAIN accounts => accounts[owner(b)].epoch <= accounts'[owner(b)].epoch
  BY <1>1 DEF LegacyWorth
<1> QED BY <1>1, <1>2 DEF LegacyWorth, AppendedWorth

(* ledger_processor::send_block.                                            *)
LEMMA SendAppends ==
  ASSUME LedgerInv, NEW b \in Hash, send_block(b)
  PROVE  Appended(b)
<1> DEFINE a == owner(b)
           B == Block[b]
           info == accounts[a]
           sent == info.balance - B.balance
           sb == block_sideband(a, B.balance, info.block_count + 1, 0)
           new == account_info(b, info.representative, info.open_block, B.balance,
                               info.block_count + 1, 0)
<1>1. B.type = "send" /\ result(b) = "progress"
  BY DEF send_block, process
<1>2. /\ b \notin stored /\ B.previous \in DOMAIN frontiers
      /\ ~(account_get(frontiers[B.previous]).balance < B.balance)
  BY <1>1 DEF result, send_block_result, block_exists, stored
<1>3. /\ frontiers[B.previous] = a /\ a \in DOMAIN accounts /\ info.head = B.previous
      /\ Block[B.previous].type # "state"
      /\ account_get(a) = info /\ info \in AccountInfo
      /\ info.balance = balance(B.previous) /\ info.epoch = 0
  BY <1>1, <1>2, LegacyPrevious
<1>4. /\ info.balance \in Amount /\ B.balance \in Amount /\ sent \in Amount
      /\ B.balance <= info.balance
  <2>1. info.balance \in Amount /\ B.balance \in Amount /\ ~(info.balance < B.balance)
    BY <1>2, <1>3, Contents DEF AccountInfo
  <2> QED BY <2>1, Amounts
<1>5. /\ block_put(b, sb) /\ change_latest(a, info, new)
      /\ pending' = Put(pending, <<B.link, b>>, pending_info(a, sent, 0))
      /\ frontiers' = Put(Del(frontiers, B.previous), b, a)
      /\ rep_weights' = representation_add(rep_weights, info.representative, 0 - sent)
      /\ epoch_2_started' = epoch_2_started
  BY <1>3 DEF send_block
<1>6. /\ sb \in Sideband /\ new \in AccountInfo
      /\ sb.account = a /\ sb.height = info.block_count + 1 /\ sb.balance = B.balance
      /\ sb.successor = Zero
      /\ new.head = b /\ new.block_count = sb.height /\ new.balance = B.balance
      /\ new.open_block = info.open_block
      /\ new.representative = info.representative /\ new.epoch = 0
  <2>1. /\ a \in Account /\ b \in Hash /\ B.balance \in Amount /\ 0 \in Epoch
        /\ info.block_count + 1 \in Nat /\ info.representative \in Account
        /\ info.open_block \in Hash \cup {Zero}
    BY <1>3, <1>4, Contents, Literals, InfoFields
  <2> QED BY <2>1 DEF block_sideband, account_info, Sideband, AccountInfo
<1> HIDE DEF sb, new
<1>7. /\ AppendedBlocks(b) /\ AppendedAccounts(b) /\ SuccessorsPut(b)
      /\ accounts'[a] = new /\ blocks'[b] = sb
  <2>1. Placing(b, sb, new)
    BY <1>1, <1>3, <1>6 DEF Placing
  <2>2. change_latest(a, account_get(a), new)
    BY <1>3, <1>5
  <2> QED BY <1>2, <1>5, <2>1, <2>2, Placed
<1>8. AppendedFrontiers(b) /\ FrontiersMoved(b)
  BY <1>1, <1>5, FrontierMoved
<1>9. AppendedPending(b)
  <2>1. pending_info(a, sent, 0) \in PendingInfo /\ pending_info(a, sent, 0).source = a
    BY SMTT(60), <1>4, Contents DEF pending_info, PendingInfo, Epoch
  <2>2. sends(b)
    BY <1>1 DEF sends
  <2> QED BY <1>5, <2>1, <2>2 DEF AppendedPending
<1>10. AppendedWorth(b)
  <2>1. pending'[<<B.link, b>>].amount = sent /\ pending'[<<B.link, b>>].epoch = 0
    BY <1>5 DEF Put, pending_info
  <2>2. /\ accounts'[a].representative = info.representative /\ accounts'[a].epoch = 0
        /\ ~is_receiver(b) /\ epoch_2_started' = epoch_2_started
    BY <1>1, <1>5, <1>6, <1>7 DEF is_receiver
  <2>3. LegacyWorth(b)
    BY <1>1, <1>3, <1>4, <2>1, <2>2 DEF LegacyWorth
  <2> QED BY <1>1, <2>3, LegacyWorthEnough
<1>11. rep_weights' \in [Account -> Amount] /\ AppendedWeights(b)
  <2>1. 0 - sent \in Int /\ rep_weights \in [Account -> Amount] /\ info.representative \in Account
    BY <1>3, <1>4, InfoFields, Amounts DEF LedgerInv, TypeOK
  <2>2. /\ info.balance \in Int /\ new.balance \in Int
        /\ new.balance % Modulus = (info.balance + (0 - sent)) % Modulus
    BY SMTT(60), <1>4, <1>6 DEF Amount
  <2>3. rep_weights' \in [Account -> Amount] /\ Moved(rep_weights, rep_weights', info, new)
    BY <1>5, <1>6, <2>1, <2>2, MovedOnce
  <2> QED BY <1>3, <1>7, <2>3 DEF AppendedWeights
<1> QED BY <1>5, <1>7, <1>8, <1>9, <1>10, <1>11
           DEF Appended, send_block, process, LedgerInv, TypeOK

(* ledger_processor::receive_block.                                         *)
LEMMA ReceiveAppends ==
  ASSUME LedgerInv, NEW b \in Hash, receive_block(b)
  PROVE  Appended(b)
<1> DEFINE a == owner(b)
           B == Block[b]
           info == accounts[a]
           key == <<a, B.link>>
           received == pending[key].amount
           bal == (info.balance + received) % Modulus
           sb == block_sideband(a, bal, info.block_count + 1, 0)
           new == account_info(b, info.representative, info.open_block, bal,
                               info.block_count + 1, 0)
<1>1. B.type = "receive" /\ result(b) = "progress"
  BY DEF receive_block, process
<1>2. /\ b \notin stored /\ B.previous \in DOMAIN frontiers
      /\ <<frontiers[B.previous], B.link>> \in DOMAIN pending
      /\ pending[<<frontiers[B.previous], B.link>>].epoch = 0
  BY <1>1 DEF result, receive_block_result, block_exists, stored
<1>3. /\ frontiers[B.previous] = a /\ a \in DOMAIN accounts /\ info.head = B.previous
      /\ Block[B.previous].type # "state"
      /\ account_get(a) = info /\ info \in AccountInfo
      /\ info.balance = balance(B.previous) /\ info.epoch = 0
  BY <1>1, <1>2, LegacyPrevious
<1>4. info.balance \in Amount /\ received \in Amount /\ bal \in Amount
  <2>1. info.balance \in Amount /\ received \in Amount
    BY <1>2, <1>3, InfoFields DEF LedgerInv, TypeOK, PendingInfo
  <2> DEFINE total == info.balance + received
  <2>2. total \in Nat
    BY SMTT(60), <2>1 DEF Amount
  <2>3. Modulus \in Nat /\ Modulus > 0
    BY SMTT(60), ConstantsAssumption
  <2> HIDE DEF total
  <2>4. total % Modulus \in 0 .. Modulus - 1
    BY SMTT(60), <2>2, <2>3
  <2> QED BY <2>1, <2>4 DEF Amount, total
<1>5. /\ block_put(b, sb) /\ change_latest(a, account_get(a), new)
      /\ pending' = Del(pending, key)
      /\ frontiers' = Put(Del(frontiers, B.previous), b, a)
      /\ rep_weights' = representation_add(rep_weights, info.representative, received)
      /\ epoch_2_started' = epoch_2_started
  BY <1>3 DEF receive_block
<1> HIDE DEF bal
<1>6. /\ sb \in Sideband /\ new \in AccountInfo
      /\ sb.account = a /\ sb.height = info.block_count + 1 /\ sb.balance = bal
      /\ sb.successor = Zero
      /\ new.head = b /\ new.block_count = sb.height /\ new.balance = bal
      /\ new.open_block = info.open_block
      /\ new.representative = info.representative /\ new.epoch = 0
  <2>1. /\ a \in Account /\ b \in Hash /\ bal \in Amount /\ 0 \in Epoch
        /\ info.block_count + 1 \in Nat /\ info.representative \in Account
        /\ info.open_block \in Hash \cup {Zero}
    BY <1>3, <1>4, Contents, Literals, InfoFields
  <2> QED BY <2>1 DEF block_sideband, account_info, Sideband, AccountInfo
<1> HIDE DEF sb, new
<1>7. /\ AppendedBlocks(b) /\ AppendedAccounts(b) /\ SuccessorsPut(b)
      /\ accounts'[a] = new /\ blocks'[b] = sb
  <2>1. Placing(b, sb, new)
    BY <1>1, <1>3, <1>6 DEF Placing
  <2> QED BY <1>2, <1>5, <2>1, Placed
<1>8. AppendedFrontiers(b) /\ FrontiersMoved(b)
  BY <1>1, <1>5, FrontierMoved
<1>9. is_receiver(b) /\ ~sends(b)
  BY <1>1, GenesisAssumption DEF is_receiver, sends
<1>10. AppendedPending(b)
  BY <1>2, <1>3, <1>5, <1>9 DEF AppendedPending
<1>11. AppendedWorth(b)
  <2>1. blocks'[b].balance = (balance(B.previous) + received) % Modulus
    BY <1>3, <1>6, <1>7 DEF bal
  <2>2. accounts'[a].representative = info.representative /\ accounts'[a].epoch = 0
    BY <1>6, <1>7
  <2>3. LegacyWorth(b)
    BY <1>1, <1>2, <1>3, <1>5, <1>9, <2>1, <2>2 DEF LegacyWorth
  <2> QED BY <1>1, <2>3, LegacyWorthEnough
<1>12. rep_weights' \in [Account -> Amount] /\ AppendedWeights(b)
  <2>1. received \in Int /\ rep_weights \in [Account -> Amount] /\ info.representative \in Account
    BY <1>3, <1>4, InfoFields, Amounts DEF LedgerInv, TypeOK
  <2>2. info.balance \in Int /\ new.balance \in Int
    BY <1>4, <1>6, Amounts
  <2>3. new.balance % Modulus = (info.balance + received) % Modulus
    <3>1. bal \in 0 .. Modulus - 1 /\ Modulus \in Nat
      BY <1>4, ConstantsAssumption DEF Amount
    <3>2. bal % Modulus = bal
      BY SMTT(60), <3>1
    <3> QED BY <1>6, <3>2 DEF bal
  <2>4. rep_weights' \in [Account -> Amount] /\ Moved(rep_weights, rep_weights', info, new)
    BY <1>5, <1>6, <2>1, <2>2, <2>3, MovedOnce
  <2> QED BY <1>3, <1>7, <2>4 DEF AppendedWeights
<1> QED BY <1>5, <1>7, <1>8, <1>10, <1>11, <1>12
           DEF Appended, receive_block, process, LedgerInv, TypeOK

(* ledger_processor::change_block.                                          *)
LEMMA ChangeAppends ==
  ASSUME LedgerInv, NEW b \in Hash, change_block(b)
  PROVE  Appended(b)
<1> DEFINE a == owner(b)
           B == Block[b]
           info == accounts[a]
           sb == block_sideband(a, info.balance, info.block_count + 1, 0)
           new == account_info(b, B.representative, info.open_block, info.balance,
                               info.block_count + 1, 0)
<1>1. B.type = "change" /\ result(b) = "progress"
  BY DEF change_block, process
<1>2. b \notin stored /\ B.previous \in DOMAIN frontiers
  BY <1>1 DEF result, change_block_result, block_exists, stored
<1>3. /\ frontiers[B.previous] = a /\ a \in DOMAIN accounts /\ info.head = B.previous
      /\ Block[B.previous].type # "state" /\ B.previous # Zero
      /\ account_get(a) = info /\ info \in AccountInfo /\ info.balance = balance(B.previous)
      /\ info.epoch = 0
  BY <1>1, <1>2, LegacyPrevious
<1>4. /\ block_put(b, sb) /\ change_latest(a, account_get(a), new)
      /\ pending' = pending
      /\ frontiers' = Put(Del(frontiers, B.previous), b, a)
      /\ rep_weights' =
           representation_add(representation_add(rep_weights, B.representative, info.balance),
                              info.representative, 0 - info.balance)
      /\ epoch_2_started' = epoch_2_started
  BY <1>3 DEF change_block
<1>5. /\ sb \in Sideband /\ new \in AccountInfo
      /\ sb.account = a /\ sb.height = info.block_count + 1 /\ sb.balance = info.balance
      /\ sb.successor = Zero
      /\ new.head = b /\ new.block_count = sb.height /\ new.balance = info.balance
      /\ new.open_block = info.open_block
      /\ new.representative = B.representative /\ new.epoch = 0
  <2>1. /\ a \in Account /\ b \in Hash /\ info.balance \in Amount /\ 0 \in Epoch
        /\ info.block_count + 1 \in Nat /\ B.representative \in Account
        /\ info.open_block \in Hash \cup {Zero}
    BY <1>3, Contents, Literals, InfoFields
  <2> QED BY <2>1 DEF block_sideband, account_info, Sideband, AccountInfo
<1> HIDE DEF sb, new
<1>6. /\ AppendedBlocks(b) /\ AppendedAccounts(b) /\ SuccessorsPut(b)
      /\ accounts'[a] = new /\ blocks'[b] = sb
  <2>1. Placing(b, sb, new)
    BY <1>1, <1>3, <1>5 DEF Placing
  <2> QED BY <1>2, <1>4, <2>1, Placed
<1>7. AppendedFrontiers(b) /\ FrontiersMoved(b)
  BY <1>1, <1>4, FrontierMoved
<1>8. ~sends(b) /\ ~is_receiver(b)
  BY <1>1 DEF sends, is_receiver
<1>9. AppendedPending(b)
  BY <1>4, <1>8 DEF AppendedPending
<1>10. AppendedWorth(b)
  <2>1. accounts'[a].representative = B.representative /\ accounts'[a].epoch = 0
    BY <1>5, <1>6
  <2>2. LegacyWorth(b)
    BY <1>1, <1>3, <1>4, <1>8, <2>1 DEF LegacyWorth
  <2> QED BY <1>1, <2>2, LegacyWorthEnough
<1>11. rep_weights' \in [Account -> Amount] /\ AppendedWeights(b)
  <2>1. /\ info.balance \in Int /\ rep_weights \in [Account -> Amount]
        /\ info.representative \in Account /\ new.representative \in Account
    <3>1. info \in AccountInfo /\ new \in AccountInfo /\ rep_weights \in [Account -> Amount]
      BY <1>3, <1>5 DEF LedgerInv, TypeOK
    <3> QED BY SMTT(60), <3>1, InfoFields DEF Amount
  <2>2. rep_weights' = representation_add(
                         representation_add(rep_weights, new.representative, new.balance),
                         info.representative, 0 - info.balance)
    BY <1>4, <1>5
  <2>3. rep_weights' \in [Account -> Amount] /\ Moved(rep_weights, rep_weights', info, new)
    BY <1>5, <2>1, <2>2, MovedTwice
  <2> QED BY <1>3, <1>6, <2>3 DEF AppendedWeights
<1> QED BY <1>4, <1>6, <1>7, <1>9, <1>10, <1>11
           DEF Appended, change_block, process, LedgerInv, TypeOK

(* ledger_processor::open_block.                                            *)
LEMMA OpenAppends ==
  ASSUME LedgerInv, NEW b \in Hash, open_block(b)
  PROVE  Appended(b)
<1> DEFINE a == owner(b)
           B == Block[b]
           key == <<a, B.link>>
           received == pending[key].amount
           sb == block_sideband(a, received, 1, 0)
           new == account_info(b, B.representative, b, received, 1, 0)
<1>1. B.type = "open" /\ result(b) = "progress" /\ B.previous = Zero
  BY BlockAssumption DEF open_block, process
<1>2. /\ b \notin stored /\ a \notin DOMAIN accounts /\ key \in DOMAIN pending
      /\ pending[key].epoch = 0
  BY <1>1 DEF result, open_block_result, block_exists, stored, owner
<1>3. account_get(a) = NoInfo
  BY <1>2 DEF account_get
<1>4. received \in Amount
  BY <1>2 DEF LedgerInv, TypeOK, PendingInfo
<1>5. /\ block_put(b, sb) /\ change_latest(a, account_get(a), new)
      /\ pending' = Del(pending, key)
      /\ frontiers' = Put(frontiers, b, a)
      /\ rep_weights' = representation_add(rep_weights, B.representative, received)
      /\ epoch_2_started' = epoch_2_started
  BY <1>3 DEF open_block, owner
<1> HIDE DEF received
<1>6. /\ sb \in Sideband /\ new \in AccountInfo
      /\ sb.account = a /\ sb.height = 1 /\ sb.balance = received /\ sb.successor = Zero
      /\ new.head = b /\ new.block_count = sb.height /\ new.balance = received
      /\ new.open_block = b /\ new.representative = B.representative /\ new.epoch = 0
  <2>1. /\ a \in Account /\ b \in Hash \cup {Zero} /\ received \in Amount /\ 0 \in Epoch
        /\ 1 \in Nat /\ B.representative \in Account
    BY <1>4, Contents, Literals
  <2> QED BY <2>1 DEF block_sideband, account_info, Sideband, AccountInfo
<1> HIDE DEF sb, new
<1>7. /\ AppendedBlocks(b) /\ AppendedAccounts(b) /\ SuccessorsPut(b)
      /\ accounts'[a] = new /\ blocks'[b] = sb
  <2>1. Placing(b, sb, new)
    BY SMTT(60), <1>1, <1>2, <1>3, <1>6, NoInfoFields DEF Placing
  <2> QED BY <1>2, <1>5, <2>1, Placed
<1>8. AppendedFrontiers(b) /\ FrontiersMoved(b)
  <2>1. DOMAIN frontiers \subseteq Hash /\ frontiers \in [DOMAIN frontiers -> Account]
    BY DEF LedgerInv, TypeOK
  <2>2. AppendedFrontiers(b)
    BY <1>1, <1>5, <2>1, Contents, ConstantsAssumption DEF AppendedFrontiers, Put
  <2>3. FrontiersMoved(b)
    BY <1>5 DEF FrontiersMoved, Put
  <2> QED BY <2>2, <2>3
<1>9. is_receiver(b) /\ ~sends(b)
  BY <1>1, <1>2 DEF is_receiver, sends, LedgerInv, CementInv, GenesisCemented
<1>10. AppendedPending(b)
  BY <1>2, <1>5, <1>9 DEF AppendedPending
<1>11. AppendedWorth(b)
  <2>1. /\ accounts'[a].representative = B.representative /\ accounts'[a].epoch = 0
        /\ blocks'[b].balance = pending[key].amount
    BY <1>6, <1>7 DEF received
  <2>2. LegacyWorth(b)
    BY <1>1, <1>2, <1>5, <1>9, <2>1 DEF LegacyWorth
  <2> QED BY <1>1, <2>2, LegacyWorthEnough
<1>12. rep_weights' \in [Account -> Amount] /\ AppendedWeights(b)
  <2>1. received \in Int /\ rep_weights \in [Account -> Amount] /\ B.representative \in Account
    BY SMTT(60), <1>4, Contents DEF Amount, LedgerInv, TypeOK
  <2>2. /\ NoInfo.balance \in Int /\ new.balance \in Int /\ NoInfo.balance = 0
        /\ new.balance % Modulus = (NoInfo.balance + received) % Modulus
    BY SMTT(60), <1>6, <2>1, NoInfoFields
  <2>3. rep_weights' \in [Account -> Amount] /\ Moved(rep_weights, rep_weights', NoInfo, new)
    BY <1>5, <1>6, <2>1, <2>2, MovedOnce
  <2> QED BY <1>3, <1>7, <2>3 DEF AppendedWeights
<1> QED BY <1>5, <1>7, <1>8, <1>10, <1>11, <1>12
           DEF Appended, open_block, process, LedgerInv, TypeOK

(* What account_get returns for the account of a state block.               *)
LEMMA StateAccount ==
  ASSUME LedgerInv, NEW b \in Hash,
         owner(b) \in DOMAIN accounts => Block[b].previous = accounts[owner(b)].head,
         owner(b) \notin DOMAIN accounts => Block[b].previous = Zero
  PROVE  /\ account_get(owner(b)) \in AccountInfo
         /\ account_get(owner(b)).head = Block[b].previous
         /\ account_get(owner(b)).balance = balance(Block[b].previous)
         /\ account_get(owner(b)).epoch = 2 => epoch_2_started
         /\ open_block_or(account_get(owner(b)), b) =
              IF owner(b) \in DOMAIN accounts THEN accounts[owner(b)].open_block ELSE b
         /\ owner(b) \in DOMAIN accounts => Block[b].previous # Zero
<1> DEFINE a == owner(b)
<1>1. CASE a \in DOMAIN accounts
  <2>1. /\ accounts[a] \in AccountInfo /\ accounts[a].head \in stored
        /\ accounts[a].balance = balance(accounts[a].head)
        /\ accounts[a].epoch = block_version(accounts[a].head)
        /\ accounts[a].open_block \in stored
    BY <1>1 DEF LedgerInv, TypeOK, ChainInv, HeadsStored, WorthInv, HeadsInForce, LinkInv,
                OpenBlocksStored
  <2>2. accounts[a].open_block # Zero /\ accounts[a].head # Zero
    BY <2>1, ConstantsAssumption DEF LedgerInv, TypeOK, stored
  <2>3. accounts[a].epoch = 2 => epoch_2_started
    BY <2>1 DEF LedgerInv, WorthInv, EpochsRise
  <2> QED BY <1>1, <2>1, <2>2, <2>3 DEF account_get, open_block_or
<1>2. CASE a \notin DOMAIN accounts
  <2>1. NoInfo \in AccountInfo
    BY SMTT(60), ConstantsAssumption DEF NoInfo, AccountInfo, Amount, Epoch
  <2>2. balance(Zero) = 0
    BY DEF balance
  <2> QED BY SMTT(60), <1>2, <2>1, <2>2, NoInfoFields DEF account_get, open_block_or
<1> QED BY <1>1, <1>2

(* The records state_block_impl and epoch_block_impl write for a state      *)
(* block on the head of its account, or opening it.                         *)
Recording(b, info, opened, epoch, sb, new) ==
  LET a == owner(b)
      B == Block[b]
  IN /\ B.type = "state" /\ info = account_get(a) /\ info \in AccountInfo /\ epoch \in Epoch
     /\ a \in DOMAIN accounts => B.previous = accounts[a].head
     /\ a \notin DOMAIN accounts => B.previous = Zero
     /\ opened = IF a \in DOMAIN accounts THEN accounts[a].open_block ELSE b
     /\ sb = block_sideband(a, 0, info.block_count + 1, epoch)
     /\ new = account_info(b, B.representative, opened, B.balance, info.block_count + 1, epoch)

(* The records a state block is placed with.                                *)
LEMMA StateRecords ==
  ASSUME NEW b \in Hash, NEW info, NEW opened, NEW epoch, NEW sb, NEW new,
         Recording(b, info, opened, epoch, sb, new)
  PROVE  /\ Placing(b, sb, new)
         /\ sb.epoch = epoch /\ new.epoch = epoch /\ new.balance = Block[b].balance
         /\ new.representative = Block[b].representative
<1> USE DEF Recording
<1> DEFINE a == owner(b)
           B == Block[b]
           n == info.block_count + 1
<1>1. opened \in Hash \cup {Zero}
  <2>1. CASE a \in DOMAIN accounts
    <3>1. info = accounts[a]
      BY <2>1 DEF account_get
    <3> QED BY <2>1, <3>1, InfoFields
  <2>2. CASE a \notin DOMAIN accounts
    BY <2>2
  <2> QED BY <2>1, <2>2
<1>2. /\ a \in Account /\ b \in Hash \cup {Zero} /\ B.balance \in Amount /\ 0 \in Amount
      /\ n \in Nat /\ B.representative \in Account
  BY Contents, Literals, InfoFields
<1> HIDE DEF n
<1>3. /\ sb \in Sideband /\ new \in AccountInfo
      /\ sb.account = a /\ sb.height = n /\ sb.successor = Zero /\ sb.epoch = epoch
      /\ new.head = b /\ new.block_count = n /\ new.balance = B.balance
      /\ new.open_block = opened /\ new.representative = B.representative /\ new.epoch = epoch
  BY <1>1, <1>2 DEF block_sideband, account_info, Sideband, AccountInfo, n
<1> QED BY <1>3 DEF Placing, n

(* ledger_processor::state_block_impl.                                      *)
LEMMA StateAppends ==
  ASSUME LedgerInv, NEW b \in Hash, state_block_impl(b)
  PROVE  Appended(b)
<1> DEFINE a == owner(b)
           B == Block[b]
           info == account_get(a)
           key == <<a, B.link>>
           epoch == state_block_epoch(b)
           opened == open_block_or(info, b)
           sb == block_sideband(a, 0, info.block_count + 1, epoch)
           new == account_info(b, B.representative, opened, B.balance,
                               info.block_count + 1, epoch)
<1>1. B.type = "state" /\ result(b) = "progress" /\ ~is_epoch_block(b)
  BY DEF state_block_impl, process
<1>2. state_block_impl_result(b) = "progress"
  BY <1>1 DEF result, state_block_result
<1>3. /\ b \notin stored
      /\ a \in DOMAIN accounts => B.previous = accounts[a].head
      /\ a \notin DOMAIN accounts => B.previous = Zero
      /\ is_receive(b) => /\ source_exists(B.link) /\ key \in DOMAIN pending
                          /\ B.balance - info.balance = pending[key].amount
      /\ ~is_send(b) /\ B.link = Zero => B.balance = info.balance
  BY <1>2
     DEF state_block_impl_result, block_exists, stored, owner, account_get, pending_key
<1>4. /\ info \in AccountInfo /\ info.head = B.previous /\ info.balance = balance(B.previous)
      /\ info.epoch = 2 => epoch_2_started
      /\ opened = IF a \in DOMAIN accounts THEN accounts[a].open_block ELSE b
      /\ a \in DOMAIN accounts => info.head # Zero
  BY <1>3, StateAccount
<1>5. /\ epoch \in Epoch /\ info.epoch <= epoch
      /\ epoch = 2 => epoch_2_started
  <2>1. info.epoch \in Epoch
    BY <1>4 DEF AccountInfo
  <2>2. is_receive(b) => /\ pending[key].epoch \in Epoch
                         /\ pending[key].epoch = 2 => epoch_2_started
    <3> SUFFICES ASSUME is_receive(b)
                 PROVE  /\ pending[key].epoch \in Epoch
                        /\ pending[key].epoch = 2 => epoch_2_started
      OBVIOUS
    <3>1. key \in DOMAIN pending /\ B.link \in stored /\ key[2] = B.link
      BY <1>3 DEF source_exists, stored
    <3>2. pending[key].epoch \in Epoch
      BY <3>1 DEF LedgerInv, TypeOK, PendingInfo
    <3>3. pending[key].epoch = block_version(B.link)
      BY <3>1 DEF LedgerInv, WorthInv, PendingExact
    <3>4. block_version(B.link) = 2 => epoch_2_started
      BY <3>1 DEF LedgerInv, WorthInv, EpochsRise
    <3> QED BY <3>2, <3>3, <3>4
  <2>3. \/ epoch = info.epoch /\ (is_receive(b) => ~(pending[key].epoch > info.epoch))
        \/ is_receive(b) /\ pending[key].epoch > info.epoch /\ epoch = pending[key].epoch
    BY DEF state_block_epoch, pending_key, owner
  <2>4. CASE epoch = info.epoch
    BY SMTT(60), <1>4, <2>1, <2>4 DEF Epoch
  <2>5. CASE is_receive(b) /\ pending[key].epoch > info.epoch /\ epoch = pending[key].epoch
    <3> HIDE DEF epoch, info, key
    <3> QED BY SMTT(60), <2>1, <2>2, <2>5 DEF Epoch
  <2> QED BY <2>3, <2>4, <2>5
<1>6. is_send(b) <=> sends(b)
  <2>1. CASE a \in DOMAIN accounts
    BY <1>1, <1>4, <2>1 DEF is_send, sends, owner, account_get
  <2>2. CASE a \notin DOMAIN accounts
    <3>1. balance(B.previous) = 0 /\ ~(B.balance < 0)
      <4>1. B.previous = Zero
        BY <1>3, <2>2
      <4>2. balance(Zero) = 0
        BY ConstantsAssumption DEF balance
      <4>3. B.balance \in Amount
        BY Contents
      <4>4. ~(B.balance < 0)
        BY SMTT(60), <4>3 DEF Amount
      <4> QED BY <4>1, <4>2, <4>4
    <3> QED BY <1>1, <2>2, <3>1 DEF is_send, sends, owner
  <2> QED BY <2>1, <2>2
<1>7. /\ block_put(b, sb) /\ change_latest(a, info, new)
      /\ pending' = IF is_send(b)
                    THEN Put(pending, <<B.link, b>>, pending_info(a, info.balance - B.balance, epoch))
                    ELSE Del(pending, key)
      /\ frontiers' = Del(frontiers, info.head)
      /\ epoch_2_started' = epoch_2_started
      /\ rep_weights' =
           representation_add(IF info.head # Zero
                              THEN representation_add(rep_weights, info.representative,
                                                      0 - info.balance)
                              ELSE rep_weights,
                              B.representative, B.balance)
  BY DEF state_block_impl, owner, pending_key
<1>8. is_send(b) => B.balance < info.balance
  BY DEF is_send, account_get, owner
<1>9. info.balance \in Amount /\ B.balance \in Amount /\ info.representative \in Account
      /\ B.representative \in Account /\ rep_weights \in [Account -> Amount]
  BY <1>4, Contents, InfoFields DEF LedgerInv, TypeOK
<1>10. /\ a \in DOMAIN accounts => info = accounts[a]
       /\ a \notin DOMAIN accounts => info = NoInfo /\ info.head = Zero
  BY NoInfoFields DEF account_get
<1>11. Placing(b, sb, new) /\ sb.epoch = epoch /\ new.epoch = epoch
       /\ new.balance = B.balance /\ new.representative = B.representative
  <2>1. /\ info = account_get(a)
        /\ sb = block_sideband(a, 0, info.block_count + 1, epoch)
        /\ new = account_info(b, B.representative, opened, B.balance,
                              info.block_count + 1, epoch)
    OBVIOUS
  <2> HIDE DEF info, epoch, opened, sb, new
  <2>2. Recording(b, info, opened, epoch, sb, new)
    BY <1>1, <1>3, <1>4, <1>5, <2>1 DEF Recording
  <2>3. /\ Placing(b, sb, new) /\ sb.epoch = epoch /\ new.epoch = epoch
        /\ new.balance = Block[b].balance /\ new.representative = Block[b].representative
    BY SMTT(60), <2>2, StateRecords
  <2> QED BY <2>3
<1>12. /\ AppendedBlocks(b) /\ AppendedAccounts(b) /\ SuccessorsPut(b)
       /\ accounts'[a] = new /\ blocks'[b] = sb
  <2>1. change_latest(a, account_get(a), new)
    BY <1>7
  <2> HIDE DEF sb, new
  <2> QED BY <1>3, <1>7, <1>11, <2>1, Placed
<1> HIDE DEF info, epoch, opened, sb, new
<1>13. AppendedFrontiers(b) /\ FrontiersMoved(b)
  BY <1>1, <1>4, <1>7, FrontierMoved
<1>14. is_send(b) => pending_info(a, info.balance - B.balance, epoch) \in PendingInfo
                     /\ pending_info(a, info.balance - B.balance, epoch).source = a
  <2>1. is_send(b) => info.balance - B.balance \in Amount
    BY <1>8, <1>9, Amounts
  <2> QED BY <1>5, <2>1, Contents DEF pending_info, PendingInfo
<1>15. is_receive(b) => B.link \notin EpochLink /\ is_receiver(b)
  <2>1. is_receive(b) => B.link \notin EpochLink
    BY <1>3, ConstantsAssumption DEF source_exists, LedgerInv, TypeOK, Destination
  <2> QED BY <1>1, <1>6, <2>1, GenesisAssumption DEF is_receiver, is_receive
<1>16. ~is_send(b) /\ ~is_receive(b) => B.link = Zero /\ ~sends(b) /\ ~is_receiver(b)
  BY <1>1, <1>6 DEF is_receive, is_receiver
<1>17. AppendedPending(b)
  <2>1. CASE is_send(b)
    BY <1>6, <1>7, <1>14, <2>1 DEF AppendedPending
  <2>2. CASE is_receive(b)
    BY <1>3, <1>7, <1>15, <2>2 DEF AppendedPending, is_receive
  <2>3. CASE ~is_send(b) /\ ~is_receive(b)
    <3>1. pending' = pending
      BY SMTT(60), <1>7, <1>16, <2>3, ConstantsAssumption DEF Del, LedgerInv, TypeOK
    <3> QED BY <1>16, <2>3, <3>1 DEF AppendedPending
  <2> QED BY <2>1, <2>2, <2>3
<1>18. AppendedWorth(b)
  <2>1. /\ accounts'[a].representative = B.representative /\ accounts'[a].epoch = epoch
        /\ blocks'[b].epoch = epoch
    BY <1>11, <1>12
  <2>2. is_send(b) => /\ pending'[<<B.link, b>>].amount = info.balance - B.balance
                      /\ pending'[<<B.link, b>>].epoch = epoch
    BY <1>7 DEF Put, pending_info
  <2>3. is_send(b) => B.balance <= info.balance
    BY <1>8, <1>9, Amounts
  <2>4. is_receiver(b) => is_receive(b)
    BY <1>1, <1>6 DEF is_receive, is_receiver
  <2>5. ~sends(b) /\ ~is_receiver(b) => B.balance = info.balance
    BY <1>3, <1>6, <1>15, <1>16
  <2>6. is_receiver(b) => B.balance - info.balance = pending[key].amount
    BY <1>3, <2>4
  <2>7. a \in DOMAIN accounts => accounts[a].epoch <= epoch
    BY <1>5, <1>10
  <2> QED BY <1>1, <1>4, <1>5, <1>6, <1>7, <2>1, <2>2, <2>3, <2>5, <2>6, <2>7
             DEF AppendedWorth
<1>19. rep_weights' \in [Account -> Amount] /\ AppendedWeights(b)
  <2>1. info.balance \in Int /\ new.balance \in Int /\ B.balance \in Int
    BY SMTT(60), <1>9, <1>11 DEF Amount
  <2>2. CASE info.head # Zero
    <3>1. rep_weights' = representation_add(
                           representation_add(rep_weights, info.representative, 0 - info.balance),
                           new.representative, new.balance)
      BY <1>7, <1>11, <2>2
    <3>2. rep_weights' \in [Account -> Amount] /\ Moved(rep_weights, rep_weights', info, new)
      BY <1>9, <1>11, <2>1, <3>1, MovedTwice
    <3> QED BY <1>12, <3>2 DEF AppendedWeights, info
  <2>3. CASE info.head = Zero
    <3>1. rep_weights' = representation_add(rep_weights, B.representative, B.balance)
      BY <1>7, <2>3
    <3>2. info.balance = 0
      BY <1>4, <1>10, <2>3, NoInfoFields
    <3>3. new.balance % Modulus = (info.balance + B.balance) % Modulus
      BY SMTT(60), <1>11, <2>1, <3>2
    <3>4. rep_weights' \in [Account -> Amount] /\ Moved(rep_weights, rep_weights', info, new)
      BY <1>9, <1>11, <2>1, <3>1, <3>2, <3>3, MovedOnce
    <3> QED BY <1>12, <3>4 DEF AppendedWeights, info
  <2> QED BY <2>2, <2>3
<1> QED BY <1>7, <1>12, <1>13, <1>17, <1>18, <1>19
       DEF Appended, state_block_impl, process, LedgerInv, TypeOK

(* ledger_processor::epoch_block_impl.                                      *)
LEMMA EpochAppends ==
  ASSUME LedgerInv, NEW b \in Hash, epoch_block_impl(b)
  PROVE  Appended(b)
<1> DEFINE a == owner(b)
           B == Block[b]
           info == account_get(a)
           epoch == EpochOf[B.link]
           opened == open_block_or(info, b)
           sb == block_sideband(a, 0, info.block_count + 1, epoch)
           new == account_info(b, B.representative, opened, B.balance,
                               info.block_count + 1, epoch)
<1>1. /\ B.type = "state" /\ result(b) = "progress" /\ B.link \in EpochLink
      /\ B.balance = balance(B.previous) /\ is_epoch_block(b)
      /\ B.previous = Zero \/ B.previous \in stored
  BY DEF epoch_block_impl, process, is_epoch_block, epoch_previous_missing, block_exists, stored
<1>2. epoch_block_impl_result(b) = "progress"
  BY <1>1 DEF result, state_block_result, is_epoch_block
<1>3. /\ b \notin stored /\ B.signer = EpochSigner[B.link]
      /\ a \in DOMAIN accounts => B.previous = accounts[a].head
      /\ B.balance = info.balance /\ B.representative = info.representative
      /\ a \in DOMAIN accounts => epoch = info.epoch + 1
  BY <1>2 DEF epoch_block_impl_result, block_exists, stored, owner, account_get
<1>4. a \notin DOMAIN accounts => B.previous = Zero
  <2>1. B.previous \in stored => owner(B.previous) \in DOMAIN accounts
    BY DEF LedgerInv, ChainInv, BlocksOwned
  <2>2. B.previous # Zero => owner(b) = owner(B.previous)
    BY <1>1, <1>3, BlockAssumption DEF owner
  <2> QED BY <1>1, <2>1, <2>2
<1>5. /\ info \in AccountInfo /\ info.head = B.previous
      /\ opened = IF a \in DOMAIN accounts THEN accounts[a].open_block ELSE b
  BY <1>3, <1>4, StateAccount
<1>6. epoch \in Epoch
  BY SMTT(60), <1>1, ConstantsAssumption DEF Epoch
<1>7. /\ block_put(b, sb) /\ change_latest(a, info, new)
      /\ pending' = pending /\ rep_weights' = rep_weights
      /\ frontiers' = Del(frontiers, info.head)
      /\ epoch_2_started' = (epoch_2_started \/ epoch = 2)
  BY <1>3 DEF epoch_block_impl, owner
<1>8. Placing(b, sb, new) /\ sb.epoch = epoch /\ new.epoch = epoch
      /\ new.balance = B.balance /\ new.representative = B.representative
  <2>1. /\ info = account_get(a)
        /\ sb = block_sideband(a, 0, info.block_count + 1, epoch)
        /\ new = account_info(b, B.representative, opened, B.balance,
                              info.block_count + 1, epoch)
    OBVIOUS
  <2> HIDE DEF info, epoch, opened, sb, new
  <2>2. Recording(b, info, opened, epoch, sb, new)
    BY <1>1, <1>3, <1>4, <1>5, <1>6, <2>1 DEF Recording
  <2>3. /\ Placing(b, sb, new) /\ sb.epoch = epoch /\ new.epoch = epoch
        /\ new.balance = Block[b].balance /\ new.representative = Block[b].representative
    BY SMTT(60), <2>2, StateRecords
  <2> QED BY <2>3
<1>9. /\ AppendedBlocks(b) /\ AppendedAccounts(b) /\ SuccessorsPut(b)
      /\ accounts'[a] = new /\ blocks'[b] = sb
  <2>1. change_latest(a, account_get(a), new)
    BY <1>7
  <2> HIDE DEF sb, new
  <2> QED BY <1>3, <1>7, <1>8, <2>1, Placed
<1>10. a \in DOMAIN accounts => info = accounts[a]
  BY DEF account_get
<1> HIDE DEF info, epoch, opened, sb, new
<1>11. AppendedFrontiers(b) /\ FrontiersMoved(b)
  BY <1>1, <1>5, <1>7, FrontierMoved
<1>12. ~sends(b) /\ ~is_receiver(b)
  <2>0. B.balance \in Amount
    BY Contents
  <2>1. ~(B.balance < balance(B.previous))
    BY SMTT(60), <1>1, <2>0 DEF Amount
  <2> QED BY <1>1, <2>1 DEF sends, is_receiver
<1>13. AppendedPending(b)
  BY <1>7, <1>12 DEF AppendedPending
<1>14. AppendedWorth(b)
  <2>1. /\ accounts'[a].representative = B.representative /\ accounts'[a].epoch = epoch
        /\ blocks'[b].epoch = epoch
    BY <1>8, <1>9
  <2>2. a \in DOMAIN accounts => accounts[a].epoch <= epoch
    BY SMTT(60), <1>3, <1>5, <1>10 DEF AccountInfo, Epoch
  <2> QED BY <1>1, <1>7, <1>12, <2>1, <2>2 DEF AppendedWorth
<1>15. rep_weights' \in [Account -> Amount] /\ AppendedWeights(b)
  <2>1. rep_weights \in [Account -> Amount] /\ info.balance \in Int
    BY SMTT(60), <1>5 DEF LedgerInv, TypeOK, AccountInfo, Amount
  <2>2. Moved(rep_weights, rep_weights, info, new)
    BY <1>3, <1>8, <2>1, MovedNone
  <2> QED BY <1>7, <1>9, <2>1, <2>2 DEF AppendedWeights, info
<1>16. epoch_2_started' \in BOOLEAN
  BY <1>7
<1> QED BY <1>7, <1>9, <1>11, <1>13, <1>14, <1>15, <1>16
       DEF Appended, epoch_block_impl, process

-----------------------------------------------------------------------------

(* A stored block that is not a head has a successor, an open account an    *)
(* open block: the rivals of a fork, and where forked_block finds them.     *)
LEMMA RivalFound ==
  ASSUME LedgerInv, NEW b \in Hash, b \notin stored, owner(b) \in DOMAIN accounts,
         Block[b].previous # Zero =>
           Block[b].previous \in stored /\ accounts[owner(b)].head # Block[b].previous
  PROVE  LET ours == forked_block(b)
         IN \/ /\ ours \in stored \ {b}
               /\ Block[ours].previous = Block[b].previous
               /\ foreign(b) \/ block_account(ours) = owner(b)
            \/ /\ foreign(b) /\ ours = Zero
               /\ account_get(owner(Block[b].previous)).head = Block[b].previous
<1> DEFINE previous == Block[b].previous
           a == owner(b)
           next == blocks[previous].successor
<1>0. TypeOK /\ BlocksOwned /\ BlocksOnPrevious /\ NeighboursLinked /\ OpenBlocksStored
  BY DEF LedgerInv, ChainInv, LinkInv
<1>1. DOMAIN accounts \cap stored = {} /\ Zero \notin stored
  BY <1>0, ConstantsAssumption DEF TypeOK, stored, Destination
<1>2. CASE previous = Zero
  <2>1. root(b) = a /\ block_successor(a) = Zero
    BY <1>1, <1>2 DEF root, owner, block_successor, block_exists, stored
  <2>2. forked_block(b) = accounts[a].open_block
    BY <2>1 DEF forked_block, account_get
  <2>3. /\ accounts[a].open_block \in stored /\ owner(accounts[a].open_block) = a
        /\ Block[accounts[a].open_block].previous = Zero
    BY <1>0 DEF OpenBlocksStored
  <2>4. block_account(accounts[a].open_block) = a
    BY <1>0, <2>3, Confirmed
  <2> QED BY <1>2, <2>2, <2>3, <2>4
<1>3. CASE previous # Zero
  <2>1. root(b) = previous /\ block_successor(previous) = next
    BY <1>3 DEF root, block_successor, block_exists, stored
  <2>2. CASE next # Zero
    <3>1. forked_block(b) = next
      BY <2>1, <2>2 DEF forked_block
    <3>2. next \in stored /\ Block[next].previous = previous
      BY <1>0, <1>3, <2>2 DEF NeighboursLinked
    <3>3. owner(next) = owner(previous) /\ block_account(next) = owner(next)
      BY <1>0, <1>3, <3>2, Confirmed DEF BlocksOnPrevious
    <3>4. foreign(b) \/ owner(previous) = a
      BY <1>3 DEF foreign, owner
    <3> HIDE DEF next, previous, a
    <3>5. next # b
      BY <3>2
    <3> QED BY <3>1, <3>2, <3>3, <3>4, <3>5 DEF previous, a
  <2>3. CASE next = Zero
    <3>1. accounts[owner(previous)].head = previous /\ owner(previous) \in DOMAIN accounts
      BY <1>0, <1>3, <2>3 DEF NeighboursLinked, BlocksOwned
    <3>2. foreign(b)
      BY <1>3, <3>1 DEF foreign, owner
    <3>3. previous \notin DOMAIN accounts
      BY <1>1, <1>3
    <3>4. account_get(previous).open_block = Zero
      BY <3>3 DEF account_get, NoInfo
    <3>5. forked_block(b) = Zero
      BY <2>1, <2>3, <3>4 DEF forked_block
    <3> QED BY <3>1, <3>2, <3>5 DEF account_get
  <2> QED BY <2>2, <2>3
<1> QED BY <1>2, <1>3

(* A fork has a stored rival, unless it is on another account's head.       *)
LEMMA ForksFollow ==
  ASSUME LedgerInv
  PROVE  ForkHasRival
<1>0. TypeOK /\ HeadsStored /\ LegacyHeadsAreFrontiers /\ BlocksOwned
  BY DEF LedgerInv, ChainInv, LinkInv
<1>1. SUFFICES ASSUME NEW b \in Hash, result(b) = "fork"
               PROVE  LET ours == forked_block(b)
                      IN \/ /\ ours \in stored \ {b}
                            /\ Block[ours].previous = Block[b].previous
                            /\ foreign(b) \/ block_account(ours) = owner(b)
                         \/ /\ foreign(b) /\ ours = Zero
                            /\ account_get(owner(Block[b].previous)).head = Block[b].previous
  BY DEF ForkHasRival, stored, owner
<1> DEFINE previous == Block[b].previous
<1>2. Block[b].type \in BlockType
  BY Contents
<1>3. SUFFICES /\ owner(b) \in DOMAIN accounts
               /\ previous # Zero => previous \in stored /\ accounts[owner(b)].head # previous
  <2>1. b \notin stored
    BY <1>1, <1>2 DEF result, send_block_result, receive_block_result, open_block_result,
         change_block_result, state_block_result, epoch_block_impl_result,
         state_block_impl_result, epoch_previous_missing, block_exists, stored, BlockType
  <2> QED BY <1>3, <2>1, RivalFound
<1>4. CASE Block[b].type \in {"send", "receive", "change"}
  <2>1. previous \in stored /\ Block[previous].type # "state" /\ previous \notin DOMAIN frontiers
    BY <1>1, <1>4 DEF result, send_block_result, receive_block_result, change_block_result,
                      block_exists, stored, valid_predecessor
  <2>2. previous # Zero
    BY <1>0, <2>1, ConstantsAssumption DEF TypeOK, stored
  <2>3. owner(previous) = owner(b)
    BY <1>4, <2>2, BlockAssumption DEF owner
  <2>4. owner(b) \in DOMAIN accounts
    BY <1>0, <2>1, <2>3 DEF BlocksOwned
  <2> QED BY <1>0, <2>1, <2>4 DEF LegacyHeadsAreFrontiers
<1>5. CASE Block[b].type = "open"
  <2>1. owner(b) \in DOMAIN accounts
    BY <1>1, <1>5 DEF result, open_block_result, owner
  <2> QED BY <1>5, <2>1, BlockAssumption
<1>6. CASE Block[b].type = "state"
  <2>1. owner(b) \in DOMAIN accounts
    BY <1>1, <1>6 DEF result, state_block_result, state_block_impl_result,
                      epoch_block_impl_result, owner
  <2>2. previous # Zero => previous \in stored /\ previous # account_get(owner(b)).head
    BY <1>1, <1>6 DEF result, state_block_result, state_block_impl_result,
                      epoch_block_impl_result, owner, is_epoch_block, epoch_previous_missing,
                      block_exists, stored
  <2> QED BY <2>1, <2>2 DEF account_get
<1> QED BY <1>2, <1>4, <1>5, <1>6 DEF BlockType

(* A block on another account's block, or without a source it must have, is *)
(* never taken.                                                             *)
LEMMA NeverTaken ==
  ASSUME LedgerInv, NEW b \in Hash, foreign(b) \/ sourceless(b)
  PROVE  result(b) # "progress"
<1> DEFINE previous == Block[b].previous
<1>0. TypeOK /\ HeadsStored
  BY DEF LedgerInv, ChainInv
<1>1. ~source_exists(Zero) /\ Zero \notin EpochLink
  BY <1>0, ConstantsAssumption DEF source_exists, TypeOK
<1>2. CASE foreign(b)
  <2>1. previous # Zero /\ owner(previous) # owner(b)
    BY <1>2 DEF foreign, owner
  <2>2. /\ Block[b].type = "state"
        /\ Block[b].link \in EpochLink => Block[b].signer # EpochSigner[Block[b].link]
    BY <2>1, BlockAssumption DEF owner
  <2>3. owner(b) \in DOMAIN accounts => previous # account_get(owner(b)).head
    BY <1>0, <2>1 DEF HeadsStored, account_get
  <2>4. result(b) = state_block_result(b)
    BY <2>2 DEF result
  <2>5. epoch_block_impl_result(b) # "progress" \/ Block[b].link \notin EpochLink
    BY <2>2 DEF epoch_block_impl_result
  <2>6. state_block_impl_result(b) # "progress"
    BY <2>1, <2>3 DEF state_block_impl_result, owner
  <2> QED BY <2>4, <2>5, <2>6 DEF state_block_result, is_epoch_block
<1>3. CASE sourceless(b) /\ Block[b].type = "receive"
  BY <1>1, <1>3 DEF sourceless, result, receive_block_result
<1>4. CASE sourceless(b) /\ Block[b].type = "open"
  BY <1>1, <1>4 DEF sourceless, result, open_block_result
<1>5. CASE sourceless(b) /\ Block[b].type = "state"
  <2>1. previous = Zero /\ Block[b].link = Zero
    BY <1>5 DEF sourceless
  <2>2. result(b) = state_block_impl_result(b)
    BY <1>1, <1>5, <2>1 DEF result, state_block_result, is_epoch_block, epoch_previous_missing
  <2> QED BY <2>1, <2>2 DEF state_block_impl_result
<1> QED BY <1>2, <1>3, <1>4, <1>5 DEF sourceless

(* A gap misses a dependency, or is of a block that is never taken.         *)
LEMMA GapsFollow ==
  ASSUME LedgerInv
  PROVE  GapMissesDependency
<1>0. TypeOK /\ FrontiersAreHeads /\ BlocksOwned
  BY DEF LedgerInv, ChainInv
<1>1. SUFFICES ASSUME NEW b \in Hash
               PROVE  /\ result(b) = "gap_previous" =>
                           \/ Block[b].previous \notin stored
                           \/ foreign(b) /\ owner(b) \notin DOMAIN accounts
                      /\ result(b) = "gap_source" =>
                           /\ ~source_exists(Block[b].link)
                           /\ Block[b].link = Zero => sourceless(b)
  BY NeverTaken DEF GapMissesDependency, block_exists, stored, owner
<1> DEFINE previous == Block[b].previous
<1>2. Block[b].type \in BlockType
  BY Contents
<1>3. ~source_exists(Zero)
  BY <1>0, ConstantsAssumption DEF source_exists, TypeOK
<1>4. CASE Block[b].type \in {"send", "change", "open"}
  BY <1>4 DEF result, send_block_result, change_block_result, open_block_result,
              block_exists, stored, sourceless
<1>5. CASE Block[b].type = "receive"
  <2>1. previous \in DOMAIN frontiers => account_get(frontiers[previous]).head = previous
    BY <1>0 DEF FrontiersAreHeads, account_get
  <2> QED BY <1>5, <2>1 DEF result, receive_block_result, block_exists, stored, sourceless
<1>6. CASE Block[b].type = "state"
  <2>1. ASSUME result(b) = "gap_previous", previous \in stored
        PROVE  foreign(b) /\ owner(b) \notin DOMAIN accounts
    <3>1. owner(b) \notin DOMAIN accounts
      BY <1>6, <2>1 DEF result, state_block_result, state_block_impl_result,
           epoch_block_impl_result, epoch_previous_missing, block_exists, stored, owner
    <3>2. owner(previous) \in DOMAIN accounts /\ previous # Zero
      BY <1>0, <2>1, ConstantsAssumption DEF BlocksOwned, TypeOK, stored
    <3> QED BY <3>1, <3>2 DEF foreign, owner
  <2>2. ASSUME result(b) = "gap_source"
        PROVE  /\ ~source_exists(Block[b].link)
               /\ Block[b].link = Zero => sourceless(b)
    <3>1. result(b) = state_block_impl_result(b)
      BY <1>6, <2>2 DEF result, state_block_result, epoch_block_impl_result
    <3>2. ~source_exists(Block[b].link)
      BY <1>3, <2>2, <3>1 DEF state_block_impl_result
    <3>3. Block[b].link = Zero => previous = Zero
      BY <2>2, <3>1 DEF state_block_impl_result, is_receive
    <3> QED BY <1>6, <3>2, <3>3 DEF sourceless
  <2> QED BY <2>1, <2>2
<1> QED BY <1>2, <1>4, <1>5, <1>6 DEF BlockType

=============================================================================
