-------------------------- MODULE LedgerUndoProofs --------------------------
(***************************************************************************)
(* Undoing the head of an account preserves LedgerInv.  Each of the six    *)
(* block visitors of ledger::rollback that undoes a block is an instance   *)
(* of Removed; the other steps of rollback move between activations and    *)
(* preserve LedgerInv too.  At the end: the weights while state sends      *)
(* wait, and the blocks a rollback reaches.                                *)
(***************************************************************************)
EXTENDS LedgerRollback, LedgerFacts

(* Enough time for a step on a busy machine.                                *)
USE ZenonT(60)

(* An undone block leaves every table in its type.                          *)
LEMMA RemovedType ==
  ASSUME LedgerInv, NEW h, Removed(h), block_count' \in Nat, account_count' \in Nat
  PROVE  TypeOK'
<1> USE DEF Removed
<1>0. TypeOK /\ h \in stored
  BY DEF LedgerInv, RemovedBlocks
<1>1. DOMAIN blocks' \subseteq Hash /\ blocks' \in [DOMAIN blocks' -> Sideband]
  BY <1>0 DEF RemovedBlocks, TypeOK, stored
<1>2. /\ DOMAIN accounts' \subseteq Account /\ accounts' \in [DOMAIN accounts' -> AccountInfo]
      /\ DOMAIN confirmation_height' \subseteq Account
      /\ confirmation_height' \in [DOMAIN confirmation_height' -> HeightInfo]
  BY <1>0 DEF RemovedAccounts, TypeOK
<1>3. /\ DOMAIN pending' \subseteq (Destination \cup Hash) \X Hash
      /\ pending' \in [DOMAIN pending' -> PendingInfo]
  <2>1. /\ DOMAIN pending \subseteq (Destination \cup Hash) \X Hash
        /\ pending \in [DOMAIN pending -> PendingInfo]
    BY <1>0 DEF TypeOK
  <2>2. is_receiver(h) => owner(h) \in Destination /\ Block[h].link \in Hash
    BY <1>0, Contents DEF LedgerInv, SendInv, ReceiversHaveSends, TypeOK, stored, Destination
  <2>3. CASE pending' = Del(pending, <<Block[h].link, h>>)
    BY <2>1, <2>3 DEF Del
  <2>4. CASE is_receiver(h) /\ \E info \in PendingInfo :
               pending' = Put(pending, <<owner(h), Block[h].link>>, info)
    BY SMTT(60), <2>1, <2>2, <2>4 DEF Put
  <2>5. CASE pending' = pending
    BY <2>1, <2>5
  <2> QED BY <2>3, <2>4, <2>5 DEF RemovedPending
<1>4. DOMAIN frontiers' \subseteq Hash /\ frontiers' \in [DOMAIN frontiers' -> Account]
  BY DEF RemovedFrontiers
<1>5. stack' \in Seq(Frame)
  BY DEF RemovedStack
<1> QED BY <1>0, <1>1, <1>2, <1>3, <1>4, <1>5 DEF TypeOK

(* The chain of its account ends one block lower.                           *)
LEMMA RemovedChain ==
  ASSUME LedgerInv, NEW h, Removed(h)
  PROVE  ChainInv'
<1> DEFINE a == owner(h)
           previous == Block[h].previous
<1> RemovedReads(h)
  BY RemovedFacts
<1> USE DEF RemovedReads
<1>0. /\ RemovedBlocks(h) /\ RemovedAccounts(h) /\ RemovedFrontiers(h)
      /\ TypeOK /\ BlocksOwned /\ BlocksOnPrevious /\ HeightsOrdered /\ HeadsStored
      /\ ChangesKeepBalance /\ FrontiersAreHeads
  BY DEF Removed, LedgerInv, ChainInv
<1>1. a \in DOMAIN accounts /\ accounts[a].head = h /\ accounts[a].block_count \in Nat
  BY <1>0 DEF RemovedAccounts, TypeOK, AccountInfo
<1>2. \A k \in stored' : owner(k) = a =>
        previous # Zero /\ blocks[k].height <= accounts[a].block_count - 1
  <2> SUFFICES ASSUME NEW k \in stored', owner(k) = a
               PROVE  previous # Zero /\ blocks[k].height <= accounts[a].block_count - 1
    OBVIOUS
  <2>1. blocks[k].height # blocks[h].height
    BY <1>0 DEF HeightsOrdered
  <2>2. 1 <= blocks[k].height /\ blocks[k].height <= accounts[a].block_count
    BY <1>0 DEF BlocksOwned
  <2>3. previous = Zero => blocks[h].height = 1
    BY <1>0 DEF BlocksOnPrevious
  <2>4. blocks[k].height \in Nat /\ blocks[h].height = accounts[a].block_count
    OBVIOUS
  <2> HIDE DEF RemovedReads
  <2> QED BY SMTT(60), <1>1, <2>1, <2>2, <2>3, <2>4
<1>3. BlocksOwned'
  <2> SUFFICES ASSUME NEW k \in stored'
               PROVE  /\ blocks'[k].account = owner(k)
                      /\ owner(k) \in DOMAIN accounts'
                      /\ 1 <= blocks'[k].height
                      /\ blocks'[k].height <= accounts'[owner(k)].block_count
    BY DEF BlocksOwned, owner
  <2>1. /\ blocks'[k].account = owner(k) /\ owner(k) \in DOMAIN accounts
        /\ 1 <= blocks[k].height /\ blocks[k].height <= accounts[owner(k)].block_count
    BY <1>0 DEF RemovedBlocks, Kept, BlocksOwned
  <2>2. CASE owner(k) = a
    BY <1>0, <1>2, <2>1, <2>2 DEF RemovedAccounts
  <2>3. CASE owner(k) # a
    BY <1>0, <2>1, <2>3 DEF RemovedAccounts
  <2> QED BY <2>2, <2>3
<1>4. BlocksOnPrevious'
  <2> SUFFICES ASSUME NEW k \in stored'
               PROVE  IF Block[k].previous = Zero
                      THEN blocks'[k].height = 1 /\ Block[k].type \in {"open", "state"}
                      ELSE /\ Block[k].previous \in stored'
                           /\ owner(Block[k].previous) = owner(k)
                           /\ Block[k].type # "state" => Block[Block[k].previous].type # "state"
                           /\ blocks'[k].height = blocks'[Block[k].previous].height + 1
    BY DEF BlocksOnPrevious, owner
  <2> QED BY <1>0 DEF BlocksOnPrevious
<1>5. HeightsOrdered'
  <2> SUFFICES ASSUME NEW k \in stored', NEW j \in stored', owner(k) = owner(j)
               PROVE  /\ blocks'[k].height = blocks'[j].height => k = j
                      /\ blocks'[k].height <= blocks'[j].height => Rank[k] <= Rank[j]
    BY DEF HeightsOrdered, owner
  <2> QED BY SMTT(60), <1>0 DEF HeightsOrdered
<1>6. HeadsStored'
  <2> SUFFICES ASSUME NEW x \in DOMAIN accounts'
               PROVE  /\ accounts'[x].head \in stored'
                      /\ owner(accounts'[x].head) = x
                      /\ blocks'[accounts'[x].head].height = accounts'[x].block_count
                      /\ accounts'[x].balance = worth(blocks', accounts'[x].head)
    BY DEF HeadsStored, owner, worth, balance, block_balance_calculated
  <2>1. \A k \in stored' : worth(blocks', k) = balance(k)
    BY DEF worth, balance, block_balance_calculated
  <2>2. CASE x = a
    <3>1. previous # Zero
      BY <1>0, <2>2 DEF RemovedAccounts
    <3>2. /\ previous \in stored' /\ owner(previous) = a
          /\ blocks[h].height = blocks[previous].height + 1
      BY <1>0, <3>1 DEF BlocksOnPrevious
    <3>3. /\ accounts'[a].head = previous /\ accounts'[a].balance = balance(previous)
          /\ accounts'[a].block_count = accounts[a].block_count - 1
      BY <1>0, <3>1 DEF RemovedAccounts
    <3>4. blocks'[previous].height = accounts[a].block_count - 1
      <4>1. blocks'[previous].height = blocks[previous].height /\ blocks[previous].height \in Nat
            /\ blocks[h].height = accounts[a].block_count
        BY <3>2
      <4> HIDE DEF RemovedReads
      <4> QED BY SMTT(60), <1>1, <3>2, <4>1
    <3> HIDE DEF RemovedReads
    <3> QED BY <2>1, <2>2, <3>2, <3>3, <3>4
  <2>3. CASE x # a
    <3>1. x \in DOMAIN accounts /\ accounts'[x] = accounts[x]
      BY <1>0, <2>3 DEF RemovedAccounts
    <3>2. /\ accounts[x].head \in stored' /\ owner(accounts[x].head) = x
          /\ blocks[accounts[x].head].height = accounts[x].block_count
          /\ accounts[x].balance = balance(accounts[x].head)
      BY <1>0, <2>3, <3>1 DEF HeadsStored
    <3> QED BY <2>1, <3>1, <3>2
  <2> QED BY <2>2, <2>3
<1>7. ChangesKeepBalance'
  <2> SUFFICES ASSUME NEW k \in stored', Block[k].type = "change"
               PROVE  Block[k].previous # Zero /\ blocks'[k].balance = balance(Block[k].previous)'
    BY DEF ChangesKeepBalance
  <2> QED BY <1>0 DEF ChangesKeepBalance
<1>8. FrontiersAreHeads'
  <2> SUFFICES ASSUME NEW k \in DOMAIN frontiers'
               PROVE  /\ frontiers'[k] \in DOMAIN accounts'
                      /\ accounts'[frontiers'[k]].head = k
                      /\ Block[k].type # "state"
    BY DEF FrontiersAreHeads
  <2>1. CASE k = previous /\ k # Zero /\ frontiers'[k] = a /\ Block[k].type # "state"
    BY <1>0, <1>1, <2>1 DEF RemovedAccounts
  <2>2. CASE k \in DOMAIN frontiers /\ k # h /\ frontiers'[k] = frontiers[k]
    <3>1. /\ frontiers[k] \in DOMAIN accounts /\ accounts[frontiers[k]].head = k
          /\ Block[k].type # "state"
      BY <1>0, <2>2 DEF FrontiersAreHeads
    <3>2. frontiers[k] # a
      BY <1>1, <2>2, <3>1
    <3> QED BY <1>0, <2>2, <3>1, <3>2 DEF RemovedAccounts
  <2> QED BY <1>0, <2>1, <2>2 DEF RemovedFrontiers
<1> QED BY <1>3, <1>4, <1>5, <1>6, <1>7, <1>8 DEF ChainInv

(* The entries of the pending table after a block is undone.                *)
LEMMA RemovedEntries ==
  ASSUME LedgerInv, NEW h, Removed(h), NEW k \in DOMAIN pending'
  PROVE  \/ is_receiver(h) /\ k = <<owner(h), Block[h].link>>
         \/ k \in DOMAIN pending /\ pending'[k] = pending[k] /\ k[2] # h
<1> DEFINE link == Block[h].link
           key == <<owner(h), link>>
<1>0. RemovedPending(h) /\ PendingAreSends
  BY DEF Removed, LedgerInv, SendInv
<1>1. CASE sends(h) /\ pending' = Del(pending, <<link, h>>)
  BY <1>0, <1>1 DEF Del, PendingAreSends
<1>2. CASE ~sends(h) /\ is_receiver(h)
           /\ \E info \in PendingInfo : pending' = Put(pending, key, info)
  BY <1>0, <1>2 DEF Put, PendingAreSends
<1>3. CASE ~sends(h) /\ pending' = pending
  BY <1>0, <1>3 DEF PendingAreSends
<1> QED BY <1>0, <1>1, <1>2, <1>3 DEF RemovedPending, is_receiver

(* An undone receive makes its send pending again, an undone send is no     *)
(* longer pending.                                                          *)
LEMMA RemovedSend ==
  ASSUME LedgerInv, NEW h, Removed(h)
  PROVE  SendInv'
<1> DEFINE link == Block[h].link
           key == <<owner(h), link>>
<1> RemovedReads(h)
  BY RemovedFacts
<1> USE DEF RemovedReads
<1>0. /\ RemovedPending(h)
      /\ ReceiversHaveSends /\ PendingAreSends /\ PendingNotReceived /\ ReceivedOnce
      /\ SendsAccounted
  BY DEF Removed, LedgerInv, SendInv
<1>1. is_receiver(h) => /\ link \in stored' /\ sends(link) /\ Block[link].link = owner(h)
                        /\ key \in DOMAIN pending' /\ pending'[key].source = owner(link)
  <2> SUFFICES ASSUME is_receiver(h)
               PROVE  /\ link \in stored' /\ sends(link) /\ Block[link].link = owner(h)
                      /\ key \in DOMAIN pending' /\ pending'[key].source = owner(link)
    OBVIOUS
  <2>1. link \in stored /\ sends(link) /\ Block[link].link = owner(h) /\ ~sends(h)
    BY <1>0 DEF ReceiversHaveSends, is_receiver
  <2>2. \E info \in PendingInfo : info.source = owner(link) /\ pending' = Put(pending, key, info)
    BY <1>0, <2>1 DEF RemovedPending
  <2> QED BY <2>1, <2>2 DEF Put
<1>2. \A k \in DOMAIN pending' :
        \/ is_receiver(h) /\ k = key
        \/ k \in DOMAIN pending /\ pending'[k] = pending[k] /\ k[2] # h
  BY RemovedEntries
<1>3. \A k \in DOMAIN pending : k[2] # h => k \in DOMAIN pending'
  BY SMTT(60), <1>0 DEF RemovedPending, Put, Del
<1>4. ReceiversHaveSends'
  <2> SUFFICES ASSUME NEW r \in stored', is_receiver(r)'
               PROVE  /\ Block[r].link \in stored'
                      /\ sends(Block[r].link)'
                      /\ Block[Block[r].link].link = owner(r)
    BY DEF ReceiversHaveSends, owner
  <2> QED BY <1>0 DEF ReceiversHaveSends
<1>5. PendingAreSends'
  <2> SUFFICES ASSUME NEW k \in DOMAIN pending'
               PROVE  /\ k[2] \in stored' /\ sends(k[2])'
                      /\ k = <<Block[k[2]].link, k[2]>>
                      /\ pending'[k].source = owner(k[2])
    BY DEF PendingAreSends, owner
  <2>1. CASE is_receiver(h) /\ k = key
    BY <1>1, <2>1
  <2>2. CASE k \in DOMAIN pending /\ pending'[k] = pending[k] /\ k[2] # h
    BY <1>0, <2>2 DEF PendingAreSends
  <2> QED BY <1>2, <2>1, <2>2
<1>6. PendingNotReceived'
  <2> SUFFICES ASSUME NEW k \in DOMAIN pending', NEW r \in stored', is_receiver(r)'
               PROVE  Block[r].link # k[2]
    BY DEF PendingNotReceived
  <2>1. CASE is_receiver(h) /\ k = key
    BY <1>0, <2>1 DEF ReceivedOnce
  <2>2. CASE k \in DOMAIN pending
    BY <1>0, <2>2 DEF PendingNotReceived
  <2> QED BY <1>2, <2>1, <2>2
<1>7. ReceivedOnce'
  <2> SUFFICES ASSUME NEW r \in stored', NEW q \in stored', is_receiver(r)', is_receiver(q)',
                      Block[r].link = Block[q].link
               PROVE  r = q
    BY DEF ReceivedOnce
  <2> QED BY <1>0 DEF ReceivedOnce
<1>8. SendsAccounted'
  <2> SUFFICES ASSUME NEW k \in stored', sends(k)'
               PROVE  \/ <<Block[k].link, k>> \in DOMAIN pending'
                      \/ \E r \in stored' : is_receiver(r)' /\ Block[r].link = k
    BY DEF SendsAccounted
  <2>1. CASE <<Block[k].link, k>> \in DOMAIN pending
    BY <1>3, <2>1
  <2>2. CASE \E r \in stored : is_receiver(r) /\ Block[r].link = k
    <3>1. PICK r \in stored : is_receiver(r) /\ Block[r].link = k
      BY <2>2
    <3>2. CASE r = h
      BY <1>1, <3>1, <3>2
    <3>3. CASE r # h
      BY <3>1, <3>3
    <3> QED BY <3>2, <3>3
  <2> QED BY <1>0, <2>1, <2>2 DEF SendsAccounted
<1> QED BY <1>4, <1>5, <1>6, <1>7, <1>8 DEF SendInv

(* The block below the undone one has no successor again.                   *)
LEMMA RemovedLink ==
  ASSUME LedgerInv, NEW h, Removed(h)
  PROVE  LinkInv'
<1> DEFINE a == owner(h)
           previous == Block[h].previous
<1> RemovedReads(h)
  BY RemovedFacts
<1>0. /\ RemovedAccounts(h) /\ SuccessorCleared(h) /\ FrontiersRestored(h)
      /\ BlocksOwned /\ BlocksOnPrevious /\ HeightsOrdered /\ HeadsStored
      /\ NeighboursLinked /\ OpenBlocksStored /\ LegacyHeadsAreFrontiers
  BY DEF Removed, LedgerInv, ChainInv, LinkInv
<1>1. /\ stored' = stored \ {h} /\ h \in stored /\ Zero \notin stored
      /\ a \in DOMAIN accounts /\ accounts[a].head = h
      /\ \A x \in DOMAIN accounts' : x # a => accounts'[x] = accounts[x]
      /\ \A x \in DOMAIN accounts' : x \in DOMAIN accounts
      /\ a \in DOMAIN accounts' <=> previous # Zero
  BY <1>0 DEF RemovedAccounts, RemovedReads
<1>2. BlocksOwned'
  BY RemovedChain DEF ChainInv
<1>3. \A k \in stored' : owner(k) \in DOMAIN accounts'
  BY <1>2 DEF BlocksOwned, owner
<1>4. previous # Zero => /\ previous \in stored /\ owner(previous) = a
                         /\ accounts'[a].head = previous
                         /\ accounts'[a].open_block = accounts[a].open_block
  BY <1>0, <1>1 DEF BlocksOnPrevious, RemovedAccounts, SuccessorCleared
<1>5. \A k \in stored' : blocks'[k].successor = IF k = previous THEN Zero ELSE blocks[k].successor
  BY <1>0 DEF SuccessorCleared
<1>6. previous # Zero => blocks[previous].successor = h
  BY <1>0, <1>1 DEF NeighboursLinked
<1>7. NeighboursLinked'
  <2> SUFFICES ASSUME NEW k \in stored'
               PROVE  /\ IF Block[k].previous = Zero
                         THEN accounts'[owner(k)].open_block = k
                         ELSE blocks'[Block[k].previous].successor = k
                      /\ IF blocks'[k].successor = Zero
                         THEN accounts'[owner(k)].head = k
                         ELSE /\ blocks'[k].successor \in stored'
                              /\ Block[blocks'[k].successor].previous = k
    BY DEF NeighboursLinked, owner
  <2>1. /\ IF Block[k].previous = Zero
           THEN accounts[owner(k)].open_block = k
           ELSE blocks[Block[k].previous].successor = k
        /\ IF blocks[k].successor = Zero
           THEN accounts[owner(k)].head = k
           ELSE blocks[k].successor \in stored /\ Block[blocks[k].successor].previous = k
        /\ k \in stored /\ k # h
    BY <1>0, <1>1 DEF NeighboursLinked
  <2>2. IF Block[k].previous = Zero
        THEN accounts'[owner(k)].open_block = k
        ELSE blocks'[Block[k].previous].successor = k
    <3>1. CASE Block[k].previous = Zero
      BY <1>1, <1>3, <1>4, <2>1, <3>1
    <3>2. CASE Block[k].previous # Zero
      <4>1. Block[k].previous \in stored' /\ Block[k].previous # previous
        BY <1>1, <1>6, <2>1, <3>2 DEF RemovedReads
      <4> QED BY <1>5, <2>1, <3>2, <4>1
    <3> QED BY <3>1, <3>2
  <2>3. CASE k = previous
    BY <1>1, <1>4, <1>5, <2>1, <2>2, <2>3
  <2>4. CASE k # previous
    <3>1. blocks'[k].successor = blocks[k].successor
      BY <1>5, <2>4
    <3>2. CASE blocks[k].successor = Zero
      BY <1>1, <1>3, <2>1, <2>2, <3>1, <3>2
    <3>3. CASE blocks[k].successor # Zero
      BY <1>1, <2>1, <2>2, <2>4, <3>1, <3>3
    <3> QED BY <3>2, <3>3
  <2> QED BY <2>3, <2>4
<1>8. OpenBlocksStored'
  <2> SUFFICES ASSUME NEW x \in DOMAIN accounts'
               PROVE  /\ accounts'[x].open_block \in stored'
                      /\ owner(accounts'[x].open_block) = x
                      /\ Block[accounts'[x].open_block].previous = Zero
    BY DEF OpenBlocksStored, owner
  <2>1. /\ accounts[x].open_block \in stored /\ owner(accounts[x].open_block) = x
        /\ Block[accounts[x].open_block].previous = Zero
        /\ accounts'[x].open_block = accounts[x].open_block
        /\ x = a => previous # Zero
    BY <1>0, <1>1, <1>4 DEF OpenBlocksStored
  <2> QED BY <1>1, <2>1
<1>9. LegacyHeadsAreFrontiers'
  <2> SUFFICES ASSUME NEW x \in DOMAIN accounts', Block[accounts'[x].head].type # "state"
               PROVE  accounts'[x].head \in DOMAIN frontiers'
    BY DEF LegacyHeadsAreFrontiers
  <2>1. CASE x = a
    BY <1>0, <1>1, <1>4, <2>1 DEF FrontiersRestored
  <2>2. CASE x # a
    <3>1. /\ accounts'[x] = accounts[x] /\ x \in DOMAIN accounts
          /\ owner(accounts[x].head) = x
      BY <1>0, <1>1, <2>2 DEF HeadsStored
    <3> QED BY <1>0, <2>2, <3>1 DEF FrontiersRestored, LegacyHeadsAreFrontiers
  <2> QED BY <2>1, <2>2
<1> QED BY <1>7, <1>8, <1>9 DEF LinkInv

(* What is undone is given back exactly.                                    *)
LEMMA RemovedWorthInv ==
  ASSUME LedgerInv, NEW h, Removed(h)
  PROVE  WorthInv'
<1> DEFINE a == owner(h)
           previous == Block[h].previous
           link == Block[h].link
           key == <<a, link>>
<1> RemovedReads(h) /\ RemovedValues(h)
  BY RemovedFacts, RemovedKeepsValues
<1>0. /\ RemovedAccounts(h) /\ RemovedPending(h) /\ RemovedWorth(h)
      /\ epoch_2_started' = epoch_2_started
      /\ BlocksOnPrevious /\ HeadsStored /\ ReceiversHaveSends /\ PendingAreSends
      /\ HeadsInForce /\ PendingExact /\ ReceiptsMatch /\ SendsPay /\ OthersKeepBalance
      /\ EpochsRise
  BY DEF Removed, LedgerInv, ChainInv, SendInv, WorthInv
<1>1. stored' = stored \ {h} /\ h \in stored /\ Zero \notin stored
  BY DEF RemovedReads
<1>2. HeadsInForce'
  <2> SUFFICES ASSUME NEW x \in DOMAIN accounts', NEW k, k = accounts'[x].head
               PROVE  /\ accounts'[x].representative = Block[representative_block[k]].representative
                      /\ accounts'[x].epoch = block_version(k)'
    BY DEF HeadsInForce, block_version, block_exists
  <2>1. CASE x = a
    <3>1. previous # Zero
      BY <1>0, <2>1 DEF RemovedAccounts
    <3>2. k = previous /\ previous \in stored'
      BY <1>0, <1>1, <2>1, <3>1 DEF RemovedAccounts, RemovedReads
    <3> QED BY <1>0, <2>1, <3>1, <3>2 DEF RemovedWorth, RemovedValues
  <2>2. CASE x # a
    <3>1. x \in DOMAIN accounts /\ accounts'[x] = accounts[x]
      BY <1>0, <2>2 DEF RemovedAccounts
    <3>2. k \in stored'
      BY <1>0, <1>1, <2>2, <3>1 DEF HeadsStored
    <3> QED BY <1>0, <3>1, <3>2 DEF HeadsInForce, RemovedValues
  <2> QED BY <2>1, <2>2
<1>3. PendingExact'
  <2> SUFFICES ASSUME NEW k \in DOMAIN pending'
               PROVE  /\ pending'[k].amount = amount(k[2])'
                      /\ pending'[k].epoch = block_version(k[2])'
    BY DEF PendingExact
  <2>1. CASE is_receiver(h) /\ k = key
    <3>1. link \in stored' /\ k[2] = link
      BY <1>0, <1>1, <2>1 DEF ReceiversHaveSends, RemovedReads
    <3>2. pending'[key].amount = amount(link) /\ pending'[key].epoch = block_version(link)
      BY <1>0, <2>1 DEF RemovedWorth
    <3> QED BY <2>1, <3>1, <3>2 DEF RemovedValues
  <2>2. CASE k \in DOMAIN pending /\ pending'[k] = pending[k] /\ k[2] # h
    <3>1. k[2] \in stored'
      BY <1>0, <1>1, <2>2 DEF PendingAreSends
    <3> QED BY <1>0, <2>2, <3>1 DEF PendingExact, RemovedValues
  <2> QED BY <2>1, <2>2, RemovedEntries
<1>4. ReceiptsMatch'
  <2> SUFFICES ASSUME NEW r \in stored', is_receiver(r)'
               PROVE  LET prior == balance(Block[r].previous)'
                          sent == amount(Block[r].link)'
                      IN /\ Block[r].type = "state" => Block[r].balance - prior = sent
                         /\ Block[r].type = "open" => blocks'[r].balance = sent
                         /\ Block[r].type = "receive" => blocks'[r].balance = (prior + sent) % Modulus
                         /\ Block[r].type # "state" => block_version(Block[r].link)' = 0
    BY DEF ReceiptsMatch
  <2>1. is_receiver(r) /\ r \in stored /\ blocks'[r].balance = blocks[r].balance
    BY <1>1 DEF RemovedReads
  <2>2. Block[r].link \in stored'
    BY <1>0, <1>1, <2>1 DEF ReceiversHaveSends, RemovedReads
  <2>3. /\ amount(Block[r].link)' = amount(Block[r].link)
        /\ block_version(Block[r].link)' = block_version(Block[r].link)
        /\ balance(Block[r].previous)' = balance(Block[r].previous)
    BY <2>2 DEF RemovedValues
  <2> QED BY <1>0, <2>1, <2>3 DEF ReceiptsMatch
<1>5. SendsPay'
  <2> SUFFICES ASSUME NEW k \in stored', Block[k].type = "send"
               PROVE  Block[k].balance <= balance(Block[k].previous)'
    BY DEF SendsPay
  <2> QED BY <1>0, <1>1 DEF SendsPay, RemovedValues
<1>6. OthersKeepBalance'
  <2> SUFFICES ASSUME NEW k \in stored', Block[k].type = "state", ~sends(k)', ~is_receiver(k)'
               PROVE  Block[k].balance = balance(Block[k].previous)'
    BY DEF OthersKeepBalance
  <2>1. ~sends(k) /\ ~is_receiver(k) /\ k \in stored
    BY <1>1 DEF RemovedReads
  <2> QED BY <1>0, <2>1 DEF OthersKeepBalance, RemovedValues
<1>7. EpochsRise'
  <2> SUFFICES ASSUME NEW k \in stored'
               PROVE  /\ Block[k].previous # Zero =>
                           block_version(Block[k].previous)' <= block_version(k)'
                      /\ block_version(k)' = 2 => epoch_2_started'
    BY DEF EpochsRise
  <2>1. k \in stored /\ (Block[k].previous # Zero => Block[k].previous \in stored')
    BY <1>1 DEF RemovedReads
  <2> QED BY <1>0, <2>1 DEF EpochsRise, RemovedValues
<1> QED BY <1>2, <1>3, <1>4, <1>5, <1>6, <1>7 DEF WorthInv

(* No cemented block is undone, and none loses a block it stands on.        *)
LEMMA RemovedCement ==
  ASSUME LedgerInv, NEW h, Removed(h)
  PROVE  /\ CementInv'
         /\ ~block_confirmed(h)
         /\ \A k \in stored' : block_confirmed(k)' <=> block_confirmed(k)
<1> DEFINE a == owner(h)
<1> RemovedReads(h)
  BY RemovedFacts
<1> USE DEF RemovedReads
<1>0. /\ RemovedBlocks(h) /\ RemovedAccounts(h) /\ TypeOK /\ BlocksOwned
      /\ HeightsKnown /\ GenesisCemented /\ CementedOnCemented /\ CementedFrontiers
  BY DEF Removed, LedgerInv, ChainInv, CementInv
<1>1. BlocksOwned'
  BY RemovedChain DEF ChainInv
<1>2. \A x \in DOMAIN accounts : /\ accounts[x].block_count \in Nat
                                 /\ confirmation_height[x].height \in Nat
                                 /\ confirmation_height[x].height <= accounts[x].block_count
  BY <1>0 DEF TypeOK, AccountInfo, HeightInfo, HeightsKnown
<1>3. ~block_confirmed(h)
  BY SMTT(60), <1>0, <1>2, Confirmed DEF RemovedAccounts
<1>4. ASSUME NEW k \in stored'
      PROVE  block_confirmed(k)' <=> block_confirmed(k)
  <2>1. /\ block_confirmed(k)' <=> blocks'[k].height <= confirmation_height'[owner(k)].height
        /\ owner(k) \in DOMAIN accounts'
    BY <1>1, <1>4 DEF owner, block_confirmed, BlocksOwned, block_exists, block_account, stored
  <2> QED BY <1>0, <1>4, <2>1, Confirmed DEF RemovedAccounts
<1>5. HeightsKnown'
  <2> SUFFICES ASSUME NEW x \in DOMAIN accounts'
               PROVE  confirmation_height'[x].height <= accounts'[x].block_count
    BY <1>0 DEF HeightsKnown, RemovedAccounts
  <2>1. CASE x = a
    BY SMTT(60), <1>0, <1>2, <2>1 DEF RemovedAccounts
  <2>2. CASE x # a
    BY <1>0, <1>2, <2>2 DEF RemovedAccounts
  <2> QED BY <2>1, <2>2
<1>6. GenesisCemented'
  BY <1>0, <1>3, <1>4 DEF GenesisCemented
<1>7. CementedOnCemented'
  <2> SUFFICES ASSUME NEW k \in stored', block_confirmed(k)', NEW d \in dependent_blocks(k)'
               PROVE  block_confirmed(d)'
    BY DEF CementedOnCemented, can_vote
  <2>1. block_confirmed(k) /\ d \in dependent_blocks(k)
    BY <1>4
  <2>2. block_confirmed(d)
    BY <1>0, <2>1 DEF CementedOnCemented, can_vote
  <2> QED BY <1>3, <1>4, <2>2 DEF block_confirmed, block_exists, stored
<1>8. CementedFrontiers'
  <2> SUFFICES ASSUME NEW x \in DOMAIN confirmation_height'
               PROVE  LET info == confirmation_height'[x]
                      IN IF info.height = 0 THEN info.frontier = Zero
                         ELSE info.frontier \in stored' /\ owner(info.frontier) = x
                              /\ blocks'[info.frontier].height = info.height
    BY DEF CementedFrontiers, owner
  <2>1. x \in DOMAIN accounts /\ confirmation_height'[x] = confirmation_height[x]
    BY <1>0 DEF RemovedAccounts
  <2>2. confirmation_height[x].height # 0 => confirmation_height[x].frontier # h
    BY SMTT(60), <1>0, <1>2, <2>1 DEF RemovedAccounts, CementedFrontiers, HeightsKnown
  <2>3. LET info == confirmation_height[x]
        IN IF info.height = 0 THEN info.frontier = Zero
           ELSE info.frontier \in stored /\ owner(info.frontier) = x
                /\ blocks[info.frontier].height = info.height
    BY <1>0, <2>1 DEF CementedFrontiers, HeightsKnown
  <2>4. \A k \in stored : k # h => k \in stored' /\ blocks'[k].height = blocks[k].height
    OBVIOUS
  <2> HIDE DEF RemovedReads
  <2> QED BY <2>1, <2>2, <2>3, <2>4
<1> QED BY <1>3, <1>4, <1>5, <1>6, <1>7, <1>8 DEF CementInv

(* The waiting activations find their accounts as they left them.           *)
LEMMA RemovedActivations ==
  ASSUME LedgerInv, NEW h, Removed(h)
  PROVE  StackInv'
<1> DEFINE a == owner(h)
           n == Len(stack)
<1>r. RemovedReads(h)
  BY RemovedFacts
<1>0. /\ RemovedBlocks(h) /\ RemovedAccounts(h) /\ RemovedStack(h) /\ stack \in Seq(Frame)
      /\ ActivationsMatch /\ OnlyTopUnvisited /\ VisitedAreHeads /\ NestedAtHead /\ NestedLater
  BY DEF Removed, LedgerInv, StackInv, TypeOK
<1>1. /\ n \in Nat /\ n > 0 /\ Len(stack') = n
      /\ \A i \in 1 .. n : i # n => stack'[i] = stack[i]
      /\ stack'[n].visit = Zero
      /\ \A i \in 1 .. n : /\ stack'[i].block = stack[i].block
                           /\ stack'[i].account = stack[i].account
                           /\ stack'[i].height = stack[i].height
  BY SMTT(60), <1>0 DEF RemovedStack, top
<1>2. ASSUME NEW i \in 1 .. n, i # n
      PROVE  stack[i].visit # Zero /\ stack[i].account # a /\ top.block = h
  <2>1. stack # <<>> /\ top.block \in stored /\ top.account = a /\ accounts[a].head = h
    BY SMTT(60), <1>0, <1>1 DEF RemovedStack, RemovedAccounts
  <2> QED BY <1>2, <2>1, OthersApart
<1>3. \A x \in DOMAIN accounts : x # a =>
        /\ x \in DOMAIN accounts' /\ accounts'[x] = accounts[x]
        /\ confirmation_height'[x] = confirmation_height[x]
  BY <1>0 DEF RemovedAccounts
<1>4. ActivationsMatch'
  <2> SUFFICES ASSUME NEW i \in 1 .. n, stack'[i].block \in stored'
               PROVE  /\ stack'[i].account = owner(stack'[i].block)
                      /\ stack'[i].height = blocks'[stack'[i].block].height
    BY <1>1 DEF ActivationsMatch, owner
  <2> DEFINE k == stack[i].block
  <2>1. stack'[i].block = k /\ stack'[i].account = stack[i].account
        /\ stack'[i].height = stack[i].height
    BY <1>1
  <2>2. k \in stored' /\ k \in stored /\ blocks'[k].height = blocks[k].height
    BY <1>r, <2>1 DEF RemovedReads
  <2>3. stack[i].account = owner(k) /\ stack[i].height = blocks[k].height
    BY <1>0, <2>2 DEF ActivationsMatch
  <2> HIDE DEF k
  <2> QED BY <2>1, <2>2, <2>3
<1>5. OnlyTopUnvisited'
  BY SMTT(60), <1>0, <1>1 DEF OnlyTopUnvisited
<1>6. VisitedAreHeads'
  <2> SUFFICES ASSUME NEW i \in 1 .. n, stack'[i].visit # Zero
               PROVE  LET frame == stack'[i]
                      IN /\ frame.block \in stored'
                         /\ frame.visit \in stored'
                         /\ sends(stack[i].visit)'
                         /\ frame.account \in DOMAIN accounts'
                         /\ accounts'[frame.account].head = frame.visit
                         /\ Block[frame.visit].type \in {"send", "state"}
                         /\ Block[frame.visit].type = "state" => frame.info = accounts'[frame.account]
                         /\ blocks'[frame.visit].height > confirmation_height'[frame.account].height
                         /\ stack'[i].visit = stack[i].visit
    BY <1>1 DEF VisitedAreHeads, sends, balance, block_balance_calculated
  <2>1. i # n /\ stack'[i] = stack[i] /\ stack[i].account # a
    BY <1>1, <1>2
  <2>2. /\ stack[i].block \in stored /\ stack[i].visit \in stored /\ sends(stack[i].visit)
        /\ stack[i].account \in DOMAIN accounts
        /\ accounts[stack[i].account].head = stack[i].visit
        /\ Block[stack[i].visit].type \in {"send", "state"}
        /\ Block[stack[i].visit].type = "state" => stack[i].info = accounts[stack[i].account]
        /\ blocks[stack[i].visit].height > confirmation_height[stack[i].account].height
    BY <1>0, <1>2, <2>1 DEF VisitedAreHeads
  <2>3. stack[i].block # h /\ stack[i].visit # h
    <3>1. owner(stack[i].block) = stack[i].account
      BY <1>0, <2>2 DEF ActivationsMatch
    <3>2. owner(stack[i].visit) = stack[i].account
      BY <2>2 DEF LedgerInv, ChainInv, HeadsStored
    <3> QED BY <2>1, <3>1, <3>2
  <2>4. /\ stack[i].block \in stored' /\ stack[i].visit \in stored'
        /\ sends(stack[i].visit)' /\ blocks'[stack[i].visit].height = blocks[stack[i].visit].height
    BY <1>r, <2>1, <2>2, <2>3 DEF RemovedReads
  <2>5. /\ stack[i].account \in DOMAIN accounts'
        /\ accounts'[stack[i].account] = accounts[stack[i].account]
        /\ confirmation_height'[stack[i].account] = confirmation_height[stack[i].account]
    BY <1>3, <2>1, <2>2
  <2> QED BY <2>1, <2>2, <2>4, <2>5
<1>7. NestedAtHead'
  <2> SUFFICES ASSUME NEW i \in 2 .. n, stack'[i].block \in stored'
               PROVE  /\ accounts'[stack'[i].account].head = stack'[i].block
                      /\ stack'[i].height > confirmation_height'[stack'[i].account].height
    BY <1>1 DEF NestedAtHead
  <2>1. i \in 1 .. n /\ 1 \in 1 .. n /\ (i = n => 1 # n)
    BY SMTT(60), <1>1
  <2>2. i # n
    <3>1. ASSUME i = n PROVE top.block = h
      BY <1>2, <2>1, <3>1
    <3>2. h \notin stored'
      BY <1>r DEF RemovedReads
    <3> QED BY <1>1, <2>1, <3>1, <3>2 DEF top
  <2>3. stack[i].block \in stored /\ stack[i].account # a
        /\ stack[i].account \in DOMAIN accounts
    BY <1>0, <1>1, <1>2, <2>1, <2>2 DEF VisitedAreHeads
  <2>4. /\ accounts[stack[i].account].head = stack[i].block
        /\ stack[i].height > confirmation_height[stack[i].account].height
    BY <1>0, <2>3 DEF NestedAtHead
  <2> QED BY <1>1, <1>3, <2>1, <2>2, <2>3, <2>4
<1>8. NestedLater'
  <2> SUFFICES ASSUME NEW i \in 1 .. n, NEW j \in 1 .. n, i < j, stack'[j].block \in stored'
               PROVE  Rank[stack'[i].visit] < Rank[stack'[j].block]
    BY <1>1 DEF NestedLater
  <2>1. i # n /\ stack'[i] = stack[i] /\ stack'[j].block = stack[j].block
    BY SMTT(60), <1>1
  <2>2. stack[j].block \in stored
    BY <1>r, <2>1 DEF RemovedReads
  <2> QED BY <1>0, <2>1, <2>2 DEF NestedLater
<1> QED BY <1>4, <1>5, <1>6, <1>7, <1>8 DEF StackInv

(* An undone block preserves the invariant, if the counters follow it.      *)
LEMMA RemovedInv ==
  ASSUME LedgerInv, NEW h, Removed(h),
         CountsRight', block_count' \in Nat, account_count' \in Nat
  PROVE  LedgerInv'
BY RemovedType, RemovedChain, RemovedLink, RemovedSend, RemovedWorthInv, RemovedCement,
   RemovedActivations DEF LedgerInv

(* The counters follow an undone block, and do not wrap around.             *)
LEMMA RemovedCounts ==
  ASSUME CountLaws, LedgerInv, NEW h, Removed(h)
  PROVE  CountsRight' /\ block_count' \in Nat /\ account_count' \in Nat
<1>1. IsFiniteSet(stored) /\ IsFiniteSet(DOMAIN accounts)
      /\ block_count = Cardinality(stored) /\ account_count = Cardinality(DOMAIN accounts)
      /\ account_count \in Nat
  BY DEF LedgerInv, CountsRight, TypeOK
<1>2. /\ stored' = stored \ {h} /\ h \in stored /\ block_count' = block_count - 1
  BY DEF Removed, RemovedBlocks
<1>3. IsFiniteSet(stored') /\ block_count' = Cardinality(stored') /\ block_count' \in Nat
  <2>1. /\ IsFiniteSet(stored \ {h})
        /\ Cardinality(stored \ {h}) = Cardinality(stored) - 1
        /\ Cardinality(stored \ {h}) \in Nat
    BY <1>1, <1>2 DEF CountLaws
  <2> QED BY <1>1, <1>2, <2>1
<1>4. /\ IsFiniteSet(DOMAIN accounts') /\ account_count' = Cardinality(DOMAIN accounts')
      /\ account_count' \in Nat
  <2>1. CASE Block[h].previous = Zero
    <3>1. /\ owner(h) \in DOMAIN accounts /\ DOMAIN accounts' = DOMAIN accounts \ {owner(h)}
          /\ account_count' = account_count - 1
      BY <2>1 DEF Removed, RemovedAccounts
    <3>2. /\ IsFiniteSet(DOMAIN accounts \ {owner(h)})
          /\ Cardinality(DOMAIN accounts \ {owner(h)}) = Cardinality(DOMAIN accounts) - 1
          /\ Cardinality(DOMAIN accounts \ {owner(h)}) \in Nat
      BY <1>1, <3>1 DEF CountLaws
    <3> QED BY <1>1, <3>1, <3>2
  <2>2. CASE Block[h].previous # Zero
    <3>1. DOMAIN accounts' = DOMAIN accounts /\ account_count' = account_count
      BY <2>2 DEF Removed, RemovedAccounts
    <3> QED BY <1>1, <3>1
  <2> QED BY <2>1, <2>2
<1>5. ASSUME NEW a \in DOMAIN accounts'
      PROVE  accounts'[a].block_count = Cardinality({k \in stored' : owner(k) = a})
  <2> DEFINE old == {k \in stored : owner(k) = a}
             new == {k \in stored' : owner(k) = a}
  <2>0. a \in DOMAIN accounts
    BY <1>5 DEF Removed, RemovedAccounts
  <2>1. IsFiniteSet(old) /\ accounts[a].block_count = Cardinality(old)
    BY <1>1, <2>0 DEF CountLaws, LedgerInv, CountsRight
  <2>2. CASE a = owner(h)
    <3>1. new = old \ {h} /\ h \in old
      BY <1>2, <2>2
    <3> HIDE DEF old, new
    <3>2. Cardinality(new) = Cardinality(old) - 1
      BY <2>1, <3>1 DEF CountLaws
    <3>3. accounts'[a].block_count = accounts[a].block_count - 1
      BY <1>5, <2>2 DEF Removed, RemovedAccounts
    <3> QED BY <2>1, <3>2, <3>3 DEF new
  <2>3. CASE a # owner(h)
    <3>1. new = old
      BY <1>2, <2>3
    <3>2. accounts'[a] = accounts[a]
      BY <1>5, <2>3 DEF Removed, RemovedAccounts
    <3> QED BY <2>1, <3>1, <3>2
  <2> QED BY <2>2, <2>3
<1>6. \A a \in DOMAIN accounts' :
        accounts'[a].block_count = Cardinality({k \in stored' : owner(k) = a})
  BY <1>5
<1> QED BY <1>3, <1>4, <1>6 DEF CountsRight, owner

-----------------------------------------------------------------------------
(* The loop of rollback visits such a block.                                *)
LEMMA VisitsUndoable ==
  ASSUME LedgerInv, NEW h, NEW type, visits(h, type)
  PROVE  Undoable(h) /\ Block[h].type = type /\ top.visit = Zero
<1>0. /\ TypeOK /\ BlocksOwned /\ HeadsStored /\ HeightsKnown /\ GenesisCemented
      /\ ActivationsMatch
  BY DEF LedgerInv, ChainInv, CementInv, StackInv
<1>1. /\ stack # <<>> /\ top.block \in stored /\ top.visit = Zero
      /\ top.height > confirmation_height[top.account].height
      /\ accounts[top.account].head = h /\ Block[h].type = type
  BY DEF visits, unfinished, block_exists, stored, above_confirmation_height
<1>2. top.account = owner(top.block) /\ top.height = blocks[top.block].height
  BY SMTT(60), <1>0, <1>1 DEF ActivationsMatch, TypeOK, top
<1>3. top.account \in DOMAIN accounts /\ top.height <= accounts[top.account].block_count
  BY <1>0, <1>1, <1>2 DEF BlocksOwned
<1>4. h \in stored /\ owner(h) = top.account /\ blocks[h].height = accounts[top.account].block_count
  BY <1>0, <1>1, <1>3 DEF HeadsStored
<1>5. /\ confirmation_height[top.account].height \in Nat /\ top.height \in Nat
      /\ blocks[h].height \in Nat /\ h \in Hash
  BY <1>0, <1>1, <1>2, <1>3, <1>4 DEF TypeOK, HeightsKnown, HeightInfo, stored, Sideband
<1>6. blocks[h].height > confirmation_height[owner(h)].height
  BY SMTT(60), <1>1, <1>3, <1>4, <1>5
<1>7. h # GenesisHash
  BY SMTT(60), <1>0, <1>4, <1>5, <1>6, Confirmed DEF GenesisCemented
<1> QED BY <1>1, <1>3, <1>4, <1>5, <1>6, <1>7 DEF Undoable

(* So does a visitor that waits for the receiver of its send.               *)
LEMMA VisitedUndoable ==
  ASSUME LedgerInv, stack # <<>>, visited # Zero
  PROVE  /\ Undoable(visited) /\ sends(visited) /\ Block[visited].type \in {"send", "state"}
         /\ Block[visited].type = "state" => top.info = accounts[owner(visited)]
<1>0. /\ TypeOK /\ BlocksOwned /\ HeadsStored /\ HeightsKnown /\ GenesisCemented
      /\ VisitedAreHeads
  BY DEF LedgerInv, ChainInv, CementInv, StackInv
<1>1. Len(stack) \in 1 .. Len(stack)
  BY SMTT(60), <1>0 DEF TypeOK
<1>2. /\ top.block \in stored /\ visited \in stored /\ sends(visited)
      /\ top.account \in DOMAIN accounts /\ accounts[top.account].head = visited
      /\ Block[visited].type \in {"send", "state"}
      /\ Block[visited].type = "state" => top.info = accounts[top.account]
      /\ blocks[visited].height > confirmation_height[top.account].height
  BY <1>0, <1>1 DEF VisitedAreHeads, visited, top
<1>3. owner(visited) = top.account /\ visited \in Hash
  BY <1>0, <1>2 DEF HeadsStored, TypeOK, stored
<1>4. confirmation_height[top.account].height \in Nat /\ blocks[visited].height \in Nat
  BY <1>0, <1>2 DEF TypeOK, HeightsKnown, HeightInfo, stored, Sideband
<1>5. visited # GenesisHash
  BY SMTT(60), <1>0, <1>2, <1>3, <1>4, Confirmed DEF GenesisCemented
<1> QED BY <1>2, <1>3, <1>5 DEF Undoable

(* The weights the state block visitor leaves are amounts.                  *)
LEMMA UndoRepresentationType ==
  ASSUME LedgerInv, RepresentativeInForce, NEW h, Undoable(h), undo_representation(h)
  PROVE  rep_weights' \in [Account -> Amount]
<1> DEFINE without == representation_add(rep_weights, Block[h].representative,
                                         0 - Block[h].balance)
<1>1. 0 - Block[h].balance \in Int /\ balance(Block[h].previous) \in Int
      /\ rep_weights \in [Account -> Amount]
  <2>1. h \in Hash
    BY DEF Undoable
  <2>2. Block[h].balance \in Amount
    BY <2>1, Contents
  <2>3. balance(Block[h].previous) \in Amount
    BY UndoableFacts
  <2>4. rep_weights \in [Account -> Amount]
    BY DEF LedgerInv, TypeOK
  <2> QED BY SMTT(60), <2>2, <2>3, <2>4 DEF Amount
<1>2. without \in [Account -> Amount]
  BY <1>1, RepresentationType
<1>3. rep_weights' = without \/ rep_weights' = representation_add(without, representative_before(h),
                                                  balance(Block[h].previous))
  BY DEF undo_representation
<1> HIDE DEF without
<1> QED BY SMTT(60), <1>1, <1>2, <1>3, RepresentationType

(* block_del and change_latest together take a head off its chain.          *)
LEMMA Unplaced ==
  ASSUME LedgerInv, NEW h, Undoable(h), block_del(h), NEW new,
         new.head = Block[h].previous, change_latest(owner(h), accounts[owner(h)], new)
           \/ (new.head = Zero /\ change_latest(owner(h), NoInfo, new)),
         Block[h].previous # Zero => /\ new \in AccountInfo
                                     /\ new.block_count = accounts[owner(h)].block_count - 1
                                     /\ new.balance = balance(Block[h].previous)
                                     /\ new.open_block = accounts[owner(h)].open_block
  PROVE  /\ RemovedBlocks(h) /\ RemovedAccounts(h) /\ SuccessorCleared(h)
         /\ Block[h].previous # Zero => accounts'[owner(h)] = new
<1> DEFINE a == owner(h)
           previous == Block[h].previous
<1>0. TypeOK /\ HeightsKnown /\ HeadsStored
  BY DEF LedgerInv, ChainInv, CementInv
<1>1. /\ h \in stored /\ a \in DOMAIN accounts /\ accounts[a].head = h /\ a \in Account
      /\ blocks[h].height > confirmation_height[a].height
  BY <1>0 DEF Undoable, TypeOK
<1>2. /\ RemovedBlocks(h)
      /\ \A k \in stored' :
           blocks'[k].successor = IF k = previous THEN Zero ELSE blocks[k].successor
  BY <1>0, <1>1, BlockDel DEF RemovedBlocks
<1>3. CASE previous = Zero
  <2>1. new.head = Zero
    BY <1>3
  <2>2. /\ DOMAIN accounts' = DOMAIN accounts \ {a}
        /\ accounts' \in [DOMAIN accounts' -> AccountInfo]
        /\ \A x \in DOMAIN accounts' : accounts'[x] = accounts[x]
        /\ DOMAIN confirmation_height' = DOMAIN accounts'
        /\ confirmation_height' \in [DOMAIN confirmation_height' -> HeightInfo]
        /\ \A x \in DOMAIN accounts' : confirmation_height'[x] = confirmation_height[x]
        /\ account_count' = account_count - 1
    BY <1>0, <1>1, <2>1, ChangeLatestNone
  <2>3. SuccessorCleared(h)
    BY <1>2, <1>3 DEF SuccessorCleared
  <2> QED BY <1>1, <1>2, <1>3, <2>2, <2>3 DEF RemovedAccounts
<1>4. CASE previous # Zero
  <2>1. new.head # Zero /\ account_get(a) = accounts[a] /\ change_latest(a, accounts[a], new)
    BY <1>1, <1>4 DEF account_get
  <2> HIDE DEF a
  <2>2. /\ DOMAIN accounts' = DOMAIN accounts \cup {a}
        /\ accounts' \in [DOMAIN accounts' -> AccountInfo]
        /\ accounts'[a] = new
        /\ \A x \in DOMAIN accounts : x # a => accounts'[x] = accounts[x]
        /\ DOMAIN confirmation_height' = DOMAIN accounts'
        /\ confirmation_height' \in [DOMAIN confirmation_height' -> HeightInfo]
        /\ account_count' = account_count
        /\ \A x \in DOMAIN accounts : confirmation_height'[x] = confirmation_height[x]
    BY <1>0, <1>1, <1>4, <2>1, ChangeLatestHead
  <2>3. DOMAIN accounts' = DOMAIN accounts
    BY <1>1, <2>2
  <2>4. RemovedAccounts(h)
    BY <1>1, <1>4, <2>2, <2>3 DEF RemovedAccounts, a
  <2>5. SuccessorCleared(h)
    BY <1>2, <1>4, <2>2 DEF SuccessorCleared, a
  <2> QED BY <1>2, <2>2, <2>4, <2>5 DEF a
<1> QED BY <1>3, <1>4

(* What account_info says of the head to be undone and of the one before.   *)
LEMMA InForce ==
  ASSUME LedgerInv, RepresentativeInForce, NEW h, Undoable(h)
  PROVE  LET previous == Block[h].previous
             info == accounts[owner(h)]
             before == Block[representative_block[previous]].representative
         IN /\ info.balance = balance(h)
            /\ Block[h].type \in {"send", "receive"} => info.representative = before
            /\ Block[h].type \notin {"send", "receive"} =>
                 info.representative = Block[h].representative
            /\ previous # Zero => representative_before(h) = before /\ before \in Account
            /\ Block[h].type # "state" => block_version(previous) = 0
<1> DEFINE previous == Block[h].previous
           info == accounts[owner(h)]
           before == Block[representative_block[previous]].representative
<1>1. h \in Hash /\ owner(h) \in DOMAIN accounts /\ info.head = h
  BY DEF Undoable
<1>2. /\ info.balance = balance(h)
      /\ info.representative = Block[representative_block[h]].representative
  BY <1>1 DEF LedgerInv, ChainInv, HeadsStored, WorthInv, HeadsInForce
<1>3. /\ previous \in Hash \cup {Zero}
      /\ Block[h].type \notin {"open", "state"} => previous # Zero
      /\ previous # Zero /\ Block[h].type # "state" => Block[previous].type # "state"
  BY UndoableFacts
<1>4. representative_block[h] =
        IF Block[h].type \in {"send", "receive"} /\ previous \in Hash
        THEN representative_block[previous] ELSE h
  BY <1>1 DEF RepresentativeInForce
<1>5. Block[h].type \in {"send", "receive"} => info.representative = before
  BY <1>2, <1>3, <1>4
<1>6. Block[h].type \notin {"send", "receive"} => info.representative = Block[h].representative
  BY <1>2, <1>4
<1>7. previous # Zero => representative_before(h) = before /\ before \in Account
  <2>1. previous # Zero => representative_block[previous] \in Hash
    BY <1>3 DEF RepresentativeInForce
  <2> QED BY <2>1, Contents DEF representative_before
<1>8. Block[h].type # "state" => block_version(previous) = 0
  <2>1. block_version(Zero) = 0
    BY ConstantsAssumption DEF block_version, block_exists, LedgerInv, TypeOK
  <2> QED BY <1>3, <2>1 DEF block_version
<1> QED BY <1>2, <1>5, <1>6, <1>7, <1>8

(* What undoing h leaves of its account, h not being its first block.       *)
Rewound(h, info) ==
  LET previous == Block[h].previous
  IN /\ accounts'[owner(h)] = info
     /\ info.representative = Block[representative_block[previous]].representative
     /\ info.representative \in Account
     /\ info.balance = balance(previous)
     /\ info.epoch = block_version(previous)

(* What undo_legacy removes.                                                *)
LEMMA LegacyUndone ==
  ASSUME LedgerInv, RepresentativeInForce, NEW h, Undoable(h),
         Block[h].type \notin {"open", "state"},
         NEW representative \in Account, NEW bal, bal = balance(Block[h].previous),
         representative = Block[representative_block[Block[h].previous]].representative,
         undo_legacy(h, owner(h), representative, bal)
  PROVE  /\ RemovedBlocks(h) /\ RemovedAccounts(h) /\ RemovedFrontiers(h)
         /\ SuccessorCleared(h) /\ FrontiersRestored(h)
         /\ Rewound(h, accounts'[owner(h)])
         /\ block_count' = block_count - 1
         /\ cemented_count' = cemented_count /\ epoch_2_started' = epoch_2_started
<1> DEFINE a == owner(h)
           previous == Block[h].previous
           info == accounts[a]
           new == account_info(previous, representative, info.open_block, bal,
                               info.block_count - 1, 0)
<1>1. /\ change_latest(a, info, new) /\ block_del(h)
      /\ frontiers' = Put(Del(frontiers, h), previous, a)
      /\ block_count' = block_count - 1
      /\ cemented_count' = cemented_count /\ epoch_2_started' = epoch_2_started
  BY DEF undo_legacy
<1>2. /\ previous # Zero /\ previous \in Hash /\ Block[previous].type # "state"
      /\ info \in AccountInfo /\ info.block_count - 1 \in Nat /\ bal \in Amount
  BY UndoableFacts
<1>3. new \in AccountInfo /\ new.head = previous /\ new.block_count = info.block_count - 1
      /\ new.balance = bal /\ new.open_block = info.open_block
      /\ new.representative = representative /\ new.epoch = 0
  <2> DEFINE o == info.open_block
             n == info.block_count - 1
  <2>1. /\ previous \in Hash \cup {Zero} /\ o \in Hash \cup {Zero}
        /\ bal \in Amount /\ n \in Nat /\ 0 \in Epoch
    BY <1>2, InfoFields, Literals
  <2> QED BY <2>1 DEF account_info, AccountInfo
<1> HIDE DEF new
<1>4. RemovedBlocks(h) /\ RemovedAccounts(h) /\ SuccessorCleared(h) /\ accounts'[a] = new
  BY <1>1, <1>2, <1>3, Unplaced
<1>5. RemovedFrontiers(h) /\ FrontiersRestored(h)
  <2>1. DOMAIN frontiers \subseteq Hash /\ frontiers \in [DOMAIN frontiers -> Account]
        /\ a \in Account
    BY DEF LedgerInv, TypeOK, Undoable
  <2>2. RemovedFrontiers(h)
    BY <1>1, <1>2, <2>1 DEF RemovedFrontiers, Put, Del
  <2>3. FrontiersRestored(h)
    BY <1>1 DEF FrontiersRestored, Put, Del
  <2> QED BY <2>2, <2>3
<1>6. block_version(previous) = 0
  BY InForce
<1>7. Rewound(h, accounts'[a])
  BY <1>3, <1>4, <1>6 DEF Rewound
<1> QED BY <1>1, <1>4, <1>5, <1>7

(* What undo_state removes.                                                 *)
LEMMA StateUndone ==
  ASSUME LedgerInv, RepresentativeInForce, NEW h, Undoable(h), Block[h].type = "state",
         undo_state(h, accounts[owner(h)])
  PROVE  /\ RemovedBlocks(h) /\ RemovedAccounts(h) /\ RemovedFrontiers(h)
         /\ SuccessorCleared(h) /\ FrontiersRestored(h)
         /\ Block[h].previous # Zero => Rewound(h, accounts'[owner(h)])
         /\ block_count' = block_count - 1
         /\ cemented_count' = cemented_count /\ epoch_2_started' = epoch_2_started
<1> DEFINE a == owner(h)
           previous == Block[h].previous
           info == accounts[a]
           new == account_info(previous, representative_before(h), info.open_block,
                               balance(previous), info.block_count - 1, block_version(previous))
<1>1. /\ change_latest(a, info, new) /\ block_del(h)
      /\ frontiers' = IF previous # Zero /\ Block[previous].type # "state"
                      THEN Put(frontiers, previous, a) ELSE frontiers
      /\ block_count' = block_count - 1
      /\ cemented_count' = cemented_count /\ epoch_2_started' = epoch_2_started
  BY DEF undo_state, frontier_restored, owner
<1>2. /\ previous \in Hash \cup {Zero} /\ balance(previous) \in Amount
      /\ info \in AccountInfo /\ info.block_count - 1 \in Nat
      /\ representative_before(h) \in Account /\ block_version(previous) \in Epoch
  BY UndoableFacts
<1>3. new \in AccountInfo /\ new.head = previous /\ new.block_count = info.block_count - 1
      /\ new.balance = balance(previous) /\ new.open_block = info.open_block
      /\ new.representative = representative_before(h) /\ new.epoch = block_version(previous)
  <2> DEFINE o == info.open_block
             n == info.block_count - 1
  <2>1. o \in Hash \cup {Zero} /\ n \in Nat
    BY <1>2, InfoFields
  <2> QED BY <1>2, <2>1 DEF account_info, AccountInfo
<1> HIDE DEF new
<1>4. /\ RemovedBlocks(h) /\ RemovedAccounts(h) /\ SuccessorCleared(h)
      /\ previous # Zero => accounts'[a] = new
  BY <1>1, <1>3, Unplaced
<1>5. RemovedFrontiers(h) /\ FrontiersRestored(h)
  <2>1. DOMAIN frontiers \subseteq Hash /\ frontiers \in [DOMAIN frontiers -> Account]
        /\ a \in Account /\ h \notin DOMAIN frontiers
    BY DEF LedgerInv, TypeOK, Undoable, ChainInv, FrontiersAreHeads
  <2>2. RemovedFrontiers(h)
    BY <1>1, <1>2, <2>1 DEF RemovedFrontiers, Put
  <2>3. FrontiersRestored(h)
    BY <1>1 DEF FrontiersRestored, Put
  <2> QED BY <2>2, <2>3
<1>6. previous # Zero => Rewound(h, accounts'[a])
  <2>1. previous # Zero => /\ representative_before(h)
                                = Block[representative_block[previous]].representative
                           /\ representative_before(h) \in Account
    BY <1>2, InForce
  <2> QED BY <1>3, <1>4, <2>1 DEF Rewound
<1> QED BY <1>1, <1>4, <1>5, <1>6

(* What an undone receive puts back.                                        *)
LEMMA PendingBack ==
  ASSUME LedgerInv, NEW h \in stored, is_receiver(h), NEW amt \in Amount, NEW epoch \in Epoch,
         pending' = Put(pending, <<owner(h), Block[h].link>>,
                        pending_info(block_account(Block[h].link), amt, epoch))
  PROVE  /\ RemovedPending(h)
         /\ pending'[<<owner(h), Block[h].link>>].amount = amt
         /\ pending'[<<owner(h), Block[h].link>>].epoch = epoch
<1>1. Block[h].link \in stored
  BY DEF LedgerInv, SendInv, ReceiversHaveSends
<1>2. block_account(Block[h].link) = owner(Block[h].link) /\ owner(Block[h].link) \in Account
  BY <1>1, Confirmed DEF LedgerInv, ChainInv, BlocksOwned, TypeOK
<1>3. /\ pending_info(owner(Block[h].link), amt, epoch) \in PendingInfo
      /\ pending_info(owner(Block[h].link), amt, epoch).source = owner(Block[h].link)
      /\ pending_info(owner(Block[h].link), amt, epoch).amount = amt
      /\ pending_info(owner(Block[h].link), amt, epoch).epoch = epoch
  BY <1>2 DEF pending_info, PendingInfo
<1>4. pending'[<<owner(h), Block[h].link>>] = pending_info(owner(Block[h].link), amt, epoch)
  BY <1>2 DEF Put
<1> QED BY <1>2, <1>3, <1>4 DEF RemovedPending

(* The account and the pending entry as the visitors leave them.            *)
LEMMA RemovedWorthOf ==
  ASSUME NEW h,
         Block[h].previous # Zero => Rewound(h, accounts'[owner(h)]),
         is_receiver(h) =>
           /\ pending'[<<owner(h), Block[h].link>>].amount = amount(Block[h].link)
           /\ pending'[<<owner(h), Block[h].link>>].epoch = block_version(Block[h].link)
  PROVE  RemovedWorth(h)
BY DEF RemovedWorth, Rewound

(* The amount of a stored block is in range.                                *)
LEMMA AmountType ==
  ASSUME LedgerInv, NEW h \in stored
  PROVE  amount(h) \in Amount
<1>1. balance(h) \in Amount /\ balance(Block[h].previous) \in Amount
  BY BalanceType DEF LedgerInv, ChainInv, BlocksOnPrevious
<1> QED BY SMTT(60), <1>1, ConstantsAssumption DEF amount, Amount

(* An activation whose loop goes on.                                        *)
LEMMA StackSame ==
  ASSUME LedgerInv, NEW h, Undoable(h), top.visit = Zero, stack' = stack
  PROVE  RemovedStack(h)
BY SMTT(60) DEF RemovedStack, Undoable, LedgerInv, TypeOK, top

(* An activation whose visited send is undone.                              *)
LEMMA StackUnvisited ==
  ASSUME LedgerInv, NEW h, Undoable(h), stack' = unvisited
  PROVE  RemovedStack(h)
<1> DEFINE n == Len(stack)
<1>1. stack \in Seq(Frame) /\ stack # <<>>
  BY DEF LedgerInv, TypeOK, Undoable
<1>2. n \in 1 .. n /\ n > 0 /\ top \in Frame
  BY SMTT(60), <1>1 DEF top
<1>3. NoInfo \in AccountInfo
  BY SMTT(60), ConstantsAssumption DEF NoInfo, AccountInfo, Amount, Epoch
<1> DEFINE t == [top EXCEPT !.visit = Zero, !.info = NoInfo]
<1>4. t \in Frame /\ t.visit = Zero /\ t.block = top.block /\ t.account = top.account
      /\ t.height = top.height
  BY <1>2, <1>3 DEF Frame
<1>5. stack' = [stack EXCEPT ![n] = t]
  BY <1>1, <1>2 DEF unvisited, top
<1> HIDE DEF t
<1>6. stack' \in Seq(Frame) /\ Len(stack') = n /\ stack'[n] = t
      /\ \A i \in 1 .. n : i # n => stack'[i] = stack[i]
  BY SMTT(60), <1>1, <1>2, <1>4, <1>5
<1> QED BY <1>2, <1>4, <1>6 DEF RemovedStack, Undoable

(* The weights that an undone receive or open takes away.                   *)
LEMMA ReceiptUndone ==
  ASSUME LedgerInv, RepresentativeInForce, NEW h, Undoable(h),
         Block[h].type \in {"receive", "open"}, NEW representative,
         representative = accounts[owner(h)].representative,
         Block[h].previous # Zero => Rewound(h, accounts'[owner(h)]),
         rep_weights' = representation_add(rep_weights, representative,
                                           0 - amount(Block[h].link))
  PROVE  /\ rep_weights' \in [Account -> Amount] /\ RemovedWeights(h)
         /\ block_version(Block[h].link) = 0 /\ amount(Block[h].link) \in Amount
         /\ is_receiver(h)
<1> DEFINE a == owner(h)
           previous == Block[h].previous
           info == accounts[a]
           sent == amount(Block[h].link)
           now == IF previous = Zero THEN NoInfo ELSE accounts'[a]
           before == balance(previous)
<1>1. h \in stored /\ h \in Hash /\ is_receiver(h) /\ ~sends(h) /\ h # Zero
  BY Contents DEF Undoable, is_receiver, sends
<1>2. /\ Block[h].link \in stored
      /\ Block[h].type = "open" => blocks[h].balance = sent
      /\ Block[h].type = "receive" => blocks[h].balance = (before + sent) % Modulus
      /\ block_version(Block[h].link) = 0
  BY <1>1 DEF LedgerInv, SendInv, ReceiversHaveSends, WorthInv, ReceiptsMatch
<1>3. sent \in Amount /\ before \in Amount
  BY <1>2, AmountType, UndoableFacts
<1>4. /\ info.balance = blocks[h].balance
      /\ Block[h].type = "receive" => info.representative
                                       = Block[representative_block[previous]].representative
      /\ info.representative \in Account /\ info.balance \in Amount
  <2>1. balance(h) = blocks[h].balance
    BY <1>1 DEF balance, block_balance_calculated
  <2>2. info \in AccountInfo
    BY UndoableFacts
  <2> QED BY <2>1, <2>2, InForce, InfoFields
<1>5. /\ now.balance = before
      /\ now.representative = info.representative \/ now.balance = 0
  <2>1. CASE previous = Zero
    <3>1. before = 0 /\ now = NoInfo
      BY <2>1 DEF balance
    <3> QED BY <3>1, NoInfoFields
  <2>2. CASE previous # Zero
    <3>1. Block[h].type = "receive"
      BY <1>1, <2>2, BlockAssumption
    <3> QED BY <1>4, <2>2, <3>1 DEF Rewound
  <2> QED BY <2>1, <2>2
<1>6. now.balance % Modulus = (info.balance + (0 - sent)) % Modulus
  <2>0. Modulus \in Nat \ {0} /\ before + sent \in Int /\ 0 - sent \in Int
    BY SMTT(60), <1>3, ConstantsAssumption DEF Amount
  <2>1. CASE Block[h].type = "receive"
    <3>1. (((before + sent) % Modulus) + (0 - sent)) % Modulus
            = ((before + sent) + (0 - sent)) % Modulus
      BY <2>0, RemainderEarly
    <3>2. (before + sent) + (0 - sent) = before
      BY SMTT(60), <1>3 DEF Amount
    <3> QED BY <1>2, <1>4, <1>5, <2>1, <3>1, <3>2
  <2>2. CASE Block[h].type = "open"
    <3>1. previous = Zero
      BY <1>1, <2>2, BlockAssumption
    <3>2. before = 0
      BY <3>1 DEF balance
    <3>3. sent + (0 - sent) = 0
      BY SMTT(60), <1>3 DEF Amount
    <3> QED BY <1>2, <1>4, <1>5, <2>2, <3>2, <3>3
  <2> QED BY <2>1, <2>2
<1>7. /\ rep_weights \in [Account -> Amount] /\ 0 - sent \in Int
      /\ info.balance \in Int /\ now.balance \in Int
  BY SMTT(60), <1>3, <1>4, <1>5 DEF Amount, LedgerInv, TypeOK
<1> HIDE DEF now, sent
<1>8. rep_weights' = representation_add(rep_weights, info.representative, 0 - sent)
  BY DEF sent
<1>9. rep_weights' \in [Account -> Amount] /\ Moved(rep_weights, rep_weights', info, now)
  BY <1>4, <1>5, <1>6, <1>7, <1>8, MovedOnce
<1>10. RemovedWeights(h)
  BY <1>1, <1>9 DEF RemovedWeights, now
<1> QED BY <1>1, <1>2, <1>3, <1>9, <1>10 DEF sent

(* rollback_visitor::receive_block.                                         *)
LEMMA ReceiveRemoves ==
  ASSUME LedgerInv, RepresentativeInForce, NEW h \in Hash, rollback_receive(h)
  PROVE  Removed(h)
<1> DEFINE a == owner(h)
           source == Block[h].link
           representative == accounts[a].representative
<1>1. Undoable(h) /\ Block[h].type = "receive" /\ top.visit = Zero
  BY VisitsUndoable DEF rollback_receive, pending_restored
<1>2. h \in stored /\ block_account(h) = a
  BY <1>1, Confirmed DEF Undoable, LedgerInv, ChainInv
<1>3. /\ representative \in Account
      /\ representative = Block[representative_block[Block[h].previous]].representative
  BY <1>1, UndoableFacts, InForce, InfoFields
<1>4. /\ undo_legacy(h, a, representative, balance(Block[h].previous))
      /\ pending' = Put(pending, <<a, source>>,
                        pending_info(block_account(source), amount(source), 0))
      /\ rep_weights' = representation_add(rep_weights, representative, 0 - amount(source))
      /\ stack' = stack
  BY <1>2 DEF rollback_receive, pending_restored
<1>5. /\ RemovedBlocks(h) /\ RemovedAccounts(h) /\ RemovedFrontiers(h)
      /\ SuccessorCleared(h) /\ FrontiersRestored(h) /\ Rewound(h, accounts'[a])
      /\ block_count' = block_count - 1
      /\ cemented_count' = cemented_count /\ epoch_2_started' = epoch_2_started
  BY <1>1, <1>3, <1>4, LegacyUndone
<1>6. /\ rep_weights' \in [Account -> Amount] /\ RemovedWeights(h) /\ is_receiver(h)
      /\ block_version(source) = 0 /\ amount(source) \in Amount
  BY <1>1, <1>4, <1>5, ReceiptUndone
<1>7. /\ RemovedPending(h) /\ pending'[<<a, source>>].amount = amount(source)
      /\ pending'[<<a, source>>].epoch = 0
  BY <1>2, <1>4, <1>6, PendingBack, Literals
<1>8. RemovedWorth(h)
  BY <1>5, <1>6, <1>7, RemovedWorthOf
<1> QED BY <1>1, <1>4, <1>5, <1>6, <1>7, <1>8, StackSame DEF Removed

(* rollback_visitor::open_block.                                            *)
LEMMA OpenRemoves ==
  ASSUME LedgerInv, RepresentativeInForce, NEW h \in Hash, rollback_open(h)
  PROVE  Removed(h)
<1> DEFINE a == owner(h)
           source == Block[h].link
<1>1. /\ Undoable(h) /\ Block[h].type = "open" /\ top.visit = Zero /\ h # GenesisHash
      /\ Block[h].previous = Zero
  <2>1. visits(h, "open")
    BY DEF rollback_open
  <2>2. Undoable(h) /\ Block[h].type = "open" /\ top.visit = Zero
    BY <2>1, VisitsUndoable
  <2>3. Block[h].previous = Zero
    BY <2>2, BlockAssumption
  <2> QED BY <2>2, <2>3 DEF Undoable
<1>2. h \in stored /\ block_account(h) = a
  BY <1>1, Confirmed DEF Undoable, LedgerInv, ChainInv
<1>3. accounts[a].representative = Block[h].representative
  BY <1>1, InForce
<1>4. /\ change_latest(a, NoInfo, NoInfo) /\ block_del(h)
      /\ frontiers' = Del(frontiers, h)
      /\ pending' = Put(pending, <<a, source>>,
                        pending_info(block_account(source), amount(source), 0))
      /\ rep_weights' = representation_add(rep_weights, Block[h].representative,
                                           0 - amount(source))
      /\ block_count' = block_count - 1
      /\ cemented_count' = cemented_count /\ epoch_2_started' = epoch_2_started
      /\ stack' = stack
  BY <1>2 DEF rollback_open, pending_restored
<1>5. RemovedBlocks(h) /\ RemovedAccounts(h) /\ SuccessorCleared(h)
  BY <1>1, <1>4, Unplaced, NoInfoFields
<1>6. RemovedFrontiers(h) /\ FrontiersRestored(h)
  <2>1. DOMAIN frontiers \subseteq Hash /\ frontiers \in [DOMAIN frontiers -> Account]
    BY DEF LedgerInv, TypeOK
  <2>2. RemovedFrontiers(h)
    BY <1>4, <2>1 DEF RemovedFrontiers, Del
  <2>3. FrontiersRestored(h)
    BY <1>1, <1>4 DEF FrontiersRestored, Del
  <2> QED BY <2>2, <2>3
<1>7. /\ rep_weights' \in [Account -> Amount] /\ RemovedWeights(h) /\ is_receiver(h)
      /\ block_version(source) = 0 /\ amount(source) \in Amount
  BY <1>1, <1>3, <1>4, ReceiptUndone
<1>8. /\ RemovedPending(h) /\ pending'[<<a, source>>].amount = amount(source)
      /\ pending'[<<a, source>>].epoch = 0
  BY <1>2, <1>4, <1>7, PendingBack, Literals
<1>9. RemovedWorth(h)
  BY <1>1, <1>7, <1>8, RemovedWorthOf
<1> QED BY <1>1, <1>4, <1>5, <1>6, <1>7, <1>8, <1>9, StackSame DEF Removed

(* rollback_visitor::change_block.                                          *)
LEMMA ChangeRemoves ==
  ASSUME LedgerInv, RepresentativeInForce, NEW h \in Hash, rollback_change(h)
  PROVE  Removed(h)
<1> DEFINE a == owner(h)
           previous == Block[h].previous
           bal == balance(previous)
           before == representative_before(h)
<1>1. Undoable(h) /\ Block[h].type = "change" /\ top.visit = Zero
  BY VisitsUndoable DEF rollback_change
<1>2. /\ previous \in stored /\ owner(previous) = a /\ bal \in Amount /\ before \in Account
      /\ previous # Zero
  BY <1>1, UndoableFacts
<1>3. block_account(previous) = a
  BY <1>2, Confirmed DEF LedgerInv, ChainInv
<1>4. /\ accounts[a].balance = bal /\ accounts[a].representative = Block[h].representative
      /\ before = Block[representative_block[previous]].representative
  <2>1. h \in stored /\ h # Zero
    BY <1>1, ConstantsAssumption DEF Undoable
  <2>2. balance(h) = bal
    BY <1>1, <2>1 DEF balance, block_balance_calculated, LedgerInv, ChainInv, ChangesKeepBalance
  <2> QED BY <1>1, <1>2, <2>2, InForce
<1>5. /\ undo_legacy(h, a, before, bal)
      /\ pending' = pending /\ stack' = stack
      /\ rep_weights' =
           representation_add(
             representation_add(rep_weights, Block[h].representative, 0 - bal), before, bal)
  BY <1>3, <1>4 DEF rollback_change
<1>6. /\ RemovedBlocks(h) /\ RemovedAccounts(h) /\ RemovedFrontiers(h)
      /\ SuccessorCleared(h) /\ FrontiersRestored(h) /\ Rewound(h, accounts'[a])
      /\ block_count' = block_count - 1
      /\ cemented_count' = cemented_count /\ epoch_2_started' = epoch_2_started
  BY <1>1, <1>2, <1>4, <1>5, LegacyUndone
<1>7. ~sends(h) /\ ~is_receiver(h)
  BY <1>1 DEF sends, is_receiver
<1>8. RemovedPending(h) /\ RemovedWorth(h)
  BY <1>5, <1>6, <1>7, RemovedWorthOf DEF RemovedPending
<1>9. rep_weights' \in [Account -> Amount] /\ RemovedWeights(h)
  <2> DEFINE old == accounts[a]
             now == accounts'[a]
  <2>1. bal \in Int /\ rep_weights \in [Account -> Amount] /\ Block[h].representative \in Account
    BY SMTT(60), <1>2, Contents DEF Amount, LedgerInv, TypeOK
  <2>2. /\ old.balance = bal /\ now.balance = bal /\ now.representative = before
        /\ old.representative = Block[h].representative
        /\ old.balance \in Int /\ now.balance \in Int
        /\ old.representative \in Account /\ now.representative \in Account
    BY <1>2, <1>4, <1>6, <2>1 DEF Rewound
  <2> HIDE DEF old, now
  <2>3. rep_weights' = representation_add(
                         representation_add(rep_weights, old.representative, 0 - old.balance),
                         now.representative, now.balance)
    BY <1>5, <2>2
  <2>4. rep_weights' \in [Account -> Amount] /\ Moved(rep_weights, rep_weights', old, now)
    <3> DEFINE w == rep_weights
               u == rep_weights'
    <3>1. /\ w \in [Account -> Amount]
          /\ u = representation_add(representation_add(w, old.representative, 0 - old.balance),
                                    now.representative, now.balance)
      BY <2>1, <2>3
    <3> HIDE DEF w, u
    <3>2. u \in [Account -> Amount] /\ Moved(w, u, old, now)
      BY <2>2, <3>1, MovedTwice
    <3> QED BY <3>2 DEF w, u
  <2> QED BY <1>1, <1>2, <2>4 DEF RemovedWeights, old, now
<1> QED BY <1>1, <1>5, <1>6, <1>8, <1>9, StackSame DEF Removed

(* rollback_visitor::send_block, once the pending entry is back.            *)
LEMMA SendRemoves ==
  ASSUME LedgerInv, RepresentativeInForce, rollback_send
  PROVE  Removed(visited)
<1> DEFINE h == visited
           a == owner(h)
           info == accounts[a]
           sent == pending[visited_key].amount
           before == balance(Block[h].previous)
<1>1. stack # <<>> /\ h # Zero /\ Block[h].type = "send" /\ visited_key \in DOMAIN pending
  BY DEF rollback_send
<1>2. Undoable(h) /\ sends(h) /\ h \in stored
  BY <1>1, VisitedUndoable DEF Undoable
<1>3. pending[visited_key].source = a /\ sent = amount(h)
  BY <1>1 DEF LedgerInv, SendInv, PendingAreSends, visited_key, WorthInv, PendingExact
<1>4. /\ undo_legacy(h, a, info.representative, before)
      /\ pending' = Del(pending, visited_key)
      /\ stack' = unvisited
      /\ rep_weights' = representation_add(rep_weights, info.representative, sent)
  BY <1>3 DEF rollback_send
<1> HIDE DEF h
<1>5. /\ info.representative \in Account
      /\ info.representative = Block[representative_block[Block[h].previous]].representative
      /\ info.balance = balance(h) /\ Block[h].previous # Zero /\ before \in Amount
  BY <1>1, <1>2, UndoableFacts, InForce, InfoFields
<1>6. /\ RemovedBlocks(h) /\ RemovedAccounts(h) /\ RemovedFrontiers(h)
      /\ SuccessorCleared(h) /\ FrontiersRestored(h) /\ Rewound(h, accounts'[a])
      /\ block_count' = block_count - 1
      /\ cemented_count' = cemented_count /\ epoch_2_started' = epoch_2_started
  BY <1>1, <1>2, <1>4, <1>5, LegacyUndone
<1>7. RemovedPending(h)
  BY <1>1, <1>2, <1>4 DEF RemovedPending, visited_key, h
<1>8. RemovedWorth(h)
  BY <1>2, <1>6, RemovedWorthOf DEF is_receiver
<1>9. rep_weights' \in [Account -> Amount] /\ RemovedWeights(h)
  <2> DEFINE now == accounts'[a]
  <2>1. balance(h) \in Amount /\ balance(h) <= before
    <3>1. balance(h) = Block[h].balance
      BY <1>1 DEF balance, block_balance_calculated
    <3>2. Block[h].balance <= before
      BY <1>1, <1>2 DEF LedgerInv, WorthInv, SendsPay
    <3> QED BY <1>2, <3>1, <3>2, Contents DEF Undoable
  <2>2. sent = before - balance(h)
    BY SMTT(60), <1>3, <1>5, <2>1 DEF amount, Amount
  <2>3. now.balance = before /\ now.representative = info.representative
    BY <1>5, <1>6 DEF Rewound
  <2>4. /\ sent \in Int /\ now.balance \in Int /\ info.balance \in Int
        /\ now.balance % Modulus = (info.balance + sent) % Modulus
    <3>1. before \in Int /\ balance(h) \in Int
      BY SMTT(60), <1>5, <2>1, ConstantsAssumption DEF Amount
    <3> HIDE DEF now, info, sent, before
    <3>2. sent \in Int /\ info.balance \in Int /\ now.balance = info.balance + sent
      BY SMTT(60), <1>5, <2>2, <2>3, <3>1
    <3> QED BY SMTT(60), <3>2
  <2>5. rep_weights \in [Account -> Amount]
    BY DEF LedgerInv, TypeOK
  <2> HIDE DEF now
  <2>6. rep_weights' \in [Account -> Amount] /\ Moved(rep_weights, rep_weights', info, now)
    BY <1>4, <1>5, <2>3, <2>4, <2>5, MovedOnce
  <2> QED BY <1>1, <1>5, <2>6 DEF RemovedWeights, now
<1>10. RemovedStack(h)
  BY <1>2, <1>4, StackUnvisited
<1> QED BY <1>6, <1>7, <1>8, <1>9, <1>10 DEF Removed, h

(* rollback_visitor::state_block of a send, once the pending entry is back: *)
(* the account_info it read before the nested rollback is still right.      *)
LEMMA StateSendRemoves ==
  ASSUME LedgerInv, RepresentativeInForce, rollback_state_send
  PROVE  Removed(visited)
<1> DEFINE h == visited
<1>1. stack # <<>> /\ h # Zero /\ Block[h].type = "state" /\ visited_key \in DOMAIN pending
  BY DEF rollback_state_send
<1>2. Undoable(h) /\ sends(h) /\ top.info = accounts[owner(h)]
  BY <1>1, VisitedUndoable
<1>3. /\ undo_state(h, accounts[owner(h)])
      /\ pending' = Del(pending, visited_key)
      /\ stack' = unvisited
      /\ rep_weights' = rep_weights
  BY <1>2 DEF rollback_state_send
<1> HIDE DEF h
<1>4. /\ RemovedBlocks(h) /\ RemovedAccounts(h) /\ RemovedFrontiers(h)
      /\ SuccessorCleared(h) /\ FrontiersRestored(h)
      /\ Block[h].previous # Zero => Rewound(h, accounts'[owner(h)])
      /\ block_count' = block_count - 1
      /\ cemented_count' = cemented_count /\ epoch_2_started' = epoch_2_started
  BY <1>1, <1>2, <1>3, StateUndone
<1>5. RemovedPending(h)
  BY <1>1, <1>2, <1>3 DEF RemovedPending, visited_key, h
<1>6. RemovedStack(h)
  BY <1>2, <1>3, StackUnvisited
<1>7. RemovedWorth(h)
  BY <1>2, <1>4, RemovedWorthOf DEF is_receiver
<1>8. RemovedWeights(h)
  BY <1>1, <1>2, <1>3 DEF RemovedWeights, h, visited, top
<1> QED BY <1>3, <1>4, <1>5, <1>6, <1>7, <1>8 DEF Removed, LedgerInv, TypeOK, h

(* rollback_visitor::state_block of a block that sends nothing.             *)
LEMMA StateRemoves ==
  ASSUME LedgerInv, RepresentativeInForce, NEW h \in Hash, rollback_state(h)
  PROVE  Removed(h)
<1> DEFINE B == Block[h]
           a == owner(h)
           amt == B.balance - balance(B.previous)
           receives == B.link # Zero /\ B.link \notin EpochLink
<1>1. Undoable(h) /\ B.type = "state" /\ top.visit = Zero /\ ~sends(h) /\ h \in stored
  BY VisitsUndoable DEF rollback_state, Undoable
<1>2. /\ undo_state(h, accounts[a]) /\ undo_representation(h) /\ stack' = stack
      /\ pending' = IF receives
                    THEN Put(pending, <<a, B.link>>,
                             pending_info(block_account(B.link), amt, block_version(B.link)))
                    ELSE pending
  BY DEF rollback_state, owner
<1>3. /\ RemovedBlocks(h) /\ RemovedAccounts(h) /\ RemovedFrontiers(h)
      /\ SuccessorCleared(h) /\ FrontiersRestored(h)
      /\ B.previous # Zero => Rewound(h, accounts'[a])
      /\ block_count' = block_count - 1
      /\ cemented_count' = cemented_count /\ epoch_2_started' = epoch_2_started
  BY <1>1, <1>2, StateUndone
<1>4. is_receiver(h) <=> receives
  BY <1>1 DEF is_receiver, Undoable
<1>5. amt \in Amount
  <2>1. B.balance \in Amount /\ balance(B.previous) \in Amount /\ ~(B.balance < balance(B.previous))
    BY <1>1, UndoableFacts, Contents DEF sends
  <2> QED BY SMTT(60), <2>1, ConstantsAssumption DEF Amount
<1>6. block_version(B.link) \in Epoch
  BY SMTT(60) DEF block_version, block_exists, LedgerInv, TypeOK, Sideband, Epoch
<1>7. is_receiver(h) => amt = amount(B.link)
  BY <1>1 DEF LedgerInv, WorthInv, ReceiptsMatch
<1> HIDE DEF amt
<1>8. RemovedPending(h) /\ RemovedWorth(h)
  <2>1. CASE receives
    <3> DEFINE epoch == block_version(B.link)
    <3>1. /\ h \in stored /\ is_receiver(h) /\ epoch \in Epoch
          /\ pending' = Put(pending, <<a, B.link>>,
                            pending_info(block_account(B.link), amt, epoch))
      BY <1>1, <1>2, <1>4, <1>6, <2>1
    <3> HIDE DEF epoch
    <3>2. /\ RemovedPending(h) /\ pending'[<<a, B.link>>].amount = amt
          /\ pending'[<<a, B.link>>].epoch = epoch
      BY <1>5, <3>1, PendingBack
    <3> QED BY <1>1, <1>3, <1>7, <3>1, <3>2, RemovedWorthOf DEF epoch
  <2>2. CASE ~receives
    BY <1>1, <1>2, <1>3, <1>4, <2>2, RemovedWorthOf DEF RemovedPending
  <2> QED BY <2>1, <2>2
<1>9. RemovedWeights(h)
  <2> DEFINE old == accounts[a]
             now == IF B.previous = Zero THEN NoInfo ELSE accounts'[a]
  <2>1. /\ B.balance \in Int /\ B.representative \in Account /\ 0 - B.balance \in Int
        /\ rep_weights \in [Account -> Amount]
    BY SMTT(60), Contents DEF LedgerInv, TypeOK
  <2>2. old.balance = B.balance /\ old.representative = B.representative
    <3>1. balance(h) = B.balance
      BY <1>1, Contents DEF balance, block_balance_calculated
    <3> QED BY <1>1, <3>1, InForce
  <2>3. CASE B.previous = Zero
    <3>1. rep_weights' = representation_add(rep_weights, B.representative, 0 - B.balance)
      BY <1>2, <2>3 DEF undo_representation
    <3>2. /\ now.balance = 0 /\ now.balance \in Int
          /\ now.balance % Modulus = (old.balance + (0 - B.balance)) % Modulus
      BY SMTT(60), <2>1, <2>2, <2>3, NoInfoFields
    <3> HIDE DEF old, now
    <3>3. Moved(rep_weights, rep_weights', old, now)
      BY <2>1, <2>2, <3>1, <3>2, MovedOnce
    <3> QED BY <1>1, <3>3 DEF RemovedWeights, old, now
  <2>4. CASE B.previous # Zero
    <3>1. /\ now.balance = balance(B.previous) /\ balance(B.previous) \in Int
          /\ now.representative = representative_before(h) /\ now.representative \in Account
      <4>1. balance(B.previous) \in Amount
        BY <1>1, UndoableFacts
      <4>2. representative_before(h) = Block[representative_block[B.previous]].representative
        BY <1>1, <2>4, InForce
      <4>3. Rewound(h, accounts'[a]) /\ now = accounts'[a]
        BY <1>3, <2>4
      <4>4. balance(B.previous) \in Int
        BY SMTT(60), <4>1 DEF Amount
      <4> QED BY <4>2, <4>3, <4>4 DEF Rewound
    <3> HIDE DEF old, now
    <3>2. rep_weights' = representation_add(
                           representation_add(rep_weights, old.representative, 0 - old.balance),
                           now.representative, now.balance)
      BY <1>2, <2>2, <2>4, <3>1 DEF undo_representation
    <3>3. Moved(rep_weights, rep_weights', old, now)
      BY <2>1, <2>2, <3>1, <3>2, MovedTwice
    <3> QED BY <1>1, <3>3 DEF RemovedWeights, old, now
  <2> QED BY <2>3, <2>4
<1> QED BY <1>1, <1>2, <1>3, <1>8, <1>9, UndoRepresentationType, StackSame DEF Removed

-----------------------------------------------------------------------------
(* The steps of rollback that only move between activations.                *)

(* Such a step preserves the invariant if it keeps the stack in order.      *)
LEMMA StackStep ==
  ASSUME LedgerInv, UNCHANGED <<tables, block_count, account_count, cemented_count,
                                epoch_2_started>>,
         rep_weights' \in [Account -> Amount], stack' \in Seq(Frame), StackInv'
  PROVE  LedgerInv'
BY TablesKept DEF LedgerInv

(* activation(h) of a stored block.                                         *)
LEMMA ActivationType ==
  ASSUME LedgerInv, NEW h \in stored
  PROVE  /\ activation(h) \in Frame
         /\ activation(h).block = h /\ activation(h).account = owner(h)
         /\ activation(h).height = blocks[h].height /\ activation(h).visit = Zero
<1>1. block_account(h) = owner(h) /\ owner(h) \in Account /\ h \in Hash /\ blocks[h].height \in Nat
  BY Confirmed DEF LedgerInv, ChainInv, BlocksOwned, TypeOK, stored, Sideband
<1>2. NoInfo \in AccountInfo
  BY SMTT(60), ConstantsAssumption DEF NoInfo, AccountInfo, Amount, Epoch
<1> QED BY <1>1, <1>2 DEF activation, Frame

(* ledger::rollback is called.                                              *)
LEMMA StartInv ==
  ASSUME LedgerInv, NEW h \in Hash, RollbackStart(h)
  PROVE  LedgerInv'
<1>1. /\ UNCHANGED <<tables, block_count, account_count, cemented_count, epoch_2_started>>
      /\ rep_weights' \in [Account -> Amount] /\ blocks' = blocks
      /\ h \in stored /\ stack' = <<activation(h)>>
  BY DEF RollbackStart, caches, tables, block_exists, stored, LedgerInv, TypeOK
<1>2. /\ activation(h) \in Frame /\ activation(h).block = h
      /\ activation(h).account = owner(h) /\ activation(h).height = blocks[h].height
      /\ activation(h).visit = Zero
  BY <1>1, ActivationType
<1> DEFINE f == activation(h)
<1> HIDE DEF f
<1>3. /\ stack' \in Seq(Frame) /\ Len(stack') = 1 /\ stack'[1] = f
      /\ f.block = h /\ f.account = owner(h) /\ f.height = blocks[h].height /\ f.visit = Zero
  BY SMTT(60), <1>1, <1>2 DEF f
<1>4. 1 .. Len(stack') = {1} /\ 2 .. Len(stack') = {} /\ ~(1 < 1)
  BY SMTT(60), <1>3
<1>5. stored' = stored /\ owner(h)' = owner(h)
  BY <1>1 DEF stored, owner
<1>6. StackInv'
  BY <1>1, <1>3, <1>4, <1>5
     DEF StackInv, ActivationsMatch, OnlyTopUnvisited, VisitedAreHeads, NestedAtHead, NestedLater
<1> QED BY <1>1, <1>3, <1>6, StackStep

(* A send is visited: from now on its activation waits.                     *)
Visiting(h) ==
  LET n == Len(stack)
  IN /\ stack' \in Seq(Frame) /\ Len(stack') = n
     /\ \A i \in 1 .. n : i # n => stack'[i] = stack[i]
     /\ stack'[n].visit = h /\ stack'[n].block = top.block
     /\ stack'[n].account = top.account /\ stack'[n].height = top.height
     /\ Block[h].type = "state" => stack'[n].info = accounts[owner(h)]

(* Writing the visited send into the activation on top.                     *)
LEMMA VisitingWritten ==
  ASSUME LedgerInv, NEW h \in Hash, stack # <<>>, NEW info \in AccountInfo,
         Block[h].type = "state" => info = accounts[owner(h)],
         stack' = [stack EXCEPT ![Len(stack)] = [top EXCEPT !.visit = h, !.info = info]]
  PROVE  Visiting(h)
<1> DEFINE n == Len(stack)
           t == [top EXCEPT !.visit = h, !.info = info]
<1>1. stack \in Seq(Frame)
  BY DEF LedgerInv, TypeOK
<1>2. n \in 1 .. n
  BY SMTT(60), <1>1
<1>3. top \in Frame
  BY SMTT(60), <1>1, <1>2 DEF top
<1>4. /\ t \in Frame /\ t.visit = h /\ t.block = top.block /\ t.account = top.account
      /\ t.height = top.height /\ t.info = info
  BY <1>3 DEF Frame
<1>5. stack' = [stack EXCEPT ![n] = t]
  OBVIOUS
<1> HIDE DEF t, n
<1>6. stack' \in Seq(Frame) /\ Len(stack') = n /\ stack'[n] = t
      /\ \A i \in 1 .. n : i # n => stack'[i] = stack[i]
  BY SMTT(60), <1>1, <1>2, <1>4, <1>5, StackExcept DEF n
<1> QED BY <1>4, <1>6 DEF Visiting, n

(* A waiting activation fits the invariant.                                 *)
LEMMA VisitInv ==
  ASSUME LedgerInv, NEW h \in Hash, Undoable(h), sends(h),
         Block[h].type \in {"send", "state"}, Visiting(h),
         UNCHANGED <<tables, block_count, account_count, cemented_count, epoch_2_started>>,
         rep_weights' \in [Account -> Amount]
  PROVE  LedgerInv'
<1> DEFINE n == Len(stack)
           t == stack'[n]
<1>0. /\ stack \in Seq(Frame) /\ stack # <<>> /\ ActivationsMatch /\ OnlyTopUnvisited
      /\ VisitedAreHeads /\ NestedAtHead /\ NestedLater
  BY DEF LedgerInv, TypeOK, StackInv, Undoable
<1>1. n \in 1 .. n /\ top = stack[n] /\ n \in Nat
  BY SMTT(60), <1>0 DEF top
<1>2. /\ t.visit = h /\ t.block = top.block /\ t.account = top.account
      /\ t.height = top.height /\ (Block[h].type = "state" => t.info = accounts[owner(h)])
  BY DEF Visiting
<1>4. stack' \in Seq(Frame) /\ Len(stack') = n /\ stack'[n] = t
      /\ \A i \in 1 .. n : i # n => stack'[i] = stack[i]
  BY DEF Visiting
<1> HIDE DEF t
<1>5. \A i \in 1 .. n : /\ stack'[i].block = stack[i].block
                        /\ stack'[i].account = stack[i].account
                        /\ stack'[i].height = stack[i].height
  BY <1>1, <1>2, <1>4
<1>6. /\ stored' = stored /\ blocks' = blocks /\ accounts' = accounts
      /\ confirmation_height' = confirmation_height
  BY DEF tables, stored
<1>7. ActivationsMatch'
  BY <1>0, <1>4, <1>5, <1>6 DEF ActivationsMatch, owner
<1>8. OnlyTopUnvisited'
  BY SMTT(60), <1>0, <1>4 DEF OnlyTopUnvisited
<1>9. VisitedAreHeads'
  <2>a. \A k : balance(k)' = balance(k)
    BY <1>4, <1>6 DEF balance, block_balance_calculated
  <2>b. \A k : sends(k)' = sends(k)
    BY <2>a DEF sends
  <2> SUFFICES ASSUME NEW i \in 1 .. n, stack'[i].visit # Zero
               PROVE  LET frame == stack'[i]
                      IN /\ frame.block \in stored
                         /\ frame.visit \in stored
                         /\ sends(frame.visit)
                         /\ frame.account \in DOMAIN accounts
                         /\ accounts[frame.account].head = frame.visit
                         /\ Block[frame.visit].type \in {"send", "state"}
                         /\ Block[frame.visit].type = "state" => frame.info = accounts[frame.account]
                         /\ blocks[frame.visit].height > confirmation_height[frame.account].height
    BY <1>4, <1>6, <2>b DEF VisitedAreHeads
  <2>1. CASE i = n
    BY <1>1, <1>2, <1>4, <2>1 DEF Undoable
  <2>2. CASE i # n
    BY <1>0, <1>4, <2>2 DEF VisitedAreHeads
  <2> QED BY <2>1, <2>2
<1>10. NestedAtHead'
  BY SMTT(60), <1>0, <1>1, <1>4, <1>5, <1>6 DEF NestedAtHead
<1>11. NestedLater'
  BY SMTT(60), <1>0, <1>1, <1>4, <1>5, <1>6 DEF NestedLater
<1> QED BY <1>4, <1>7, <1>8, <1>9, <1>10, <1>11, StackStep DEF StackInv

(* rollback_visitor::send_block and state_block on a send begin to wait.    *)
LEMMA VisitSendWaits ==
  ASSUME LedgerInv, RepresentativeInForce, NEW h \in Hash, visit_send(h) \/ visit_state_send(h)
  PROVE  Visiting(h) /\ Undoable(h) /\ sends(h) /\ Block[h].type \in {"send", "state"}
<1>0. stack \in Seq(Frame)
  BY DEF LedgerInv, TypeOK
<1>1. CASE visit_send(h)
  <2>1. Undoable(h) /\ Block[h].type = "send" /\ sends(h)
    BY <1>1, VisitsUndoable DEF visit_send, sends
  <2>2. top \in Frame /\ top.info \in AccountInfo /\ Len(stack) \in 1 .. Len(stack)
    <3>1. Len(stack) \in 1 .. Len(stack)
      BY SMTT(60), <1>0, <2>1 DEF Undoable
    <3>2. top \in Frame
      BY SMTT(60), <1>0, <3>1 DEF top
    <3> QED BY <3>1, <3>2 DEF Frame
  <2>3. stack' = [stack EXCEPT ![Len(stack)] = [top EXCEPT !.visit = h, !.info = top.info]]
    <3>1. [top EXCEPT !.visit = h] = [top EXCEPT !.visit = h, !.info = top.info]
      BY <2>2 DEF Frame
    <3> QED BY <1>1, <3>1 DEF visit_send, top
  <2>4. Visiting(h)
    BY <2>1, <2>2, <2>3, VisitingWritten DEF Undoable
  <2> QED BY <2>1, <2>4
<1>2. CASE visit_state_send(h)
  <2>1. Undoable(h) /\ Block[h].type = "state" /\ sends(h)
    BY <1>2, VisitsUndoable DEF visit_state_send
  <2>2. accounts[owner(h)] \in AccountInfo
    BY <2>1, UndoableFacts
  <2>3. Len(stack) \in 1 .. Len(stack)
    BY SMTT(60), <1>0, <2>1 DEF Undoable
  <2>4. stack' = [stack EXCEPT ![Len(stack)] = [top EXCEPT !.visit = h, !.info = accounts[owner(h)]]]
    BY <1>0, <1>2, <2>3 DEF visit_state_send, top, owner
  <2>5. Visiting(h)
    BY <2>1, <2>2, <2>4, VisitingWritten DEF Undoable
  <2> QED BY <2>1, <2>5
<1> QED BY <1>1, <1>2

(* They preserve the invariant.                                             *)
LEMMA VisitSendInv ==
  ASSUME LedgerInv, RepresentativeInForce, NEW h \in Hash, visit_send(h) \/ visit_state_send(h)
  PROVE  LedgerInv'
<1>1. Visiting(h) /\ Undoable(h) /\ sends(h) /\ Block[h].type \in {"send", "state"}
  BY VisitSendWaits
<1>2. UNCHANGED <<tables, block_count, account_count, cemented_count, epoch_2_started>>
  BY DEF visit_send, visit_state_send, caches
<1>3. CASE visit_send(h)
  BY <1>1, <1>2, <1>3, VisitInv DEF visit_send, caches, LedgerInv, TypeOK
<1>4. CASE visit_state_send(h)
  BY <1>1, <1>2, <1>4, UndoRepresentationType, VisitInv DEF visit_state_send
<1> QED BY <1>3, <1>4

(* The receiver of a visited send, and the head above it: both were created *)
(* after the send and neither is cemented, since the send is not.           *)
LEMMA ReceiverHead ==
  ASSUME LedgerInv, stack # <<>>, visited # Zero, visited_key \notin DOMAIN pending,
         NEW d, d = Block[visited].link
  PROVE  /\ d \in DOMAIN accounts
         /\ accounts[d].head \in stored /\ owner(accounts[d].head) = d
         /\ Rank[visited] < Rank[accounts[d].head]
         /\ blocks[accounts[d].head].height > confirmation_height[d].height
         /\ \E r \in stored : Block[r].link = visited /\ owner(r) = d
<1> DEFINE s == visited
           head == accounts[d].head
<1>0. /\ TypeOK /\ BlocksOwned /\ HeightsOrdered /\ HeadsStored /\ ReceiversHaveSends
      /\ SendsAccounted /\ HeightsKnown /\ CementedOnCemented
  BY DEF LedgerInv, ChainInv, SendInv, CementInv
<1>1. Undoable(s) /\ sends(s)
  BY VisitedUndoable
<1>2. /\ s \in stored /\ s \in Hash /\ owner(s) \in DOMAIN accounts
      /\ blocks[s].height > confirmation_height[owner(s)].height
  BY <1>1 DEF Undoable
<1>3. PICK r \in stored : is_receiver(r) /\ Block[r].link = s
  BY <1>0, <1>1, <1>2 DEF SendsAccounted, visited_key
<1>4. owner(r) = d /\ d \in DOMAIN accounts /\ r \in Hash
  BY <1>0, <1>3 DEF ReceiversHaveSends, BlocksOwned, TypeOK, stored
<1>5. head \in stored /\ owner(head) = d /\ blocks[head].height = accounts[d].block_count
  BY <1>0, <1>4 DEF HeadsStored
<1>6. /\ blocks[r].height <= blocks[head].height /\ blocks[r].height \in Nat
      /\ blocks[head].height \in Nat /\ confirmation_height[d].height \in Nat
      /\ confirmation_height[owner(s)].height \in Nat /\ blocks[s].height \in Nat
  BY <1>0, <1>2, <1>3, <1>4, <1>5
     DEF BlocksOwned, TypeOK, stored, Sideband, HeightsKnown, HeightInfo
<1>7. Rank[s] < Rank[head]
  <2>1. Rank[s] < Rank[r]
    BY <1>2, <1>3, <1>4, RankAssumption
  <2>2. Rank[r] <= Rank[head]
    BY <1>0, <1>3, <1>4, <1>5, <1>6 DEF HeightsOrdered
  <2>3. Rank[s] \in Nat /\ Rank[r] \in Nat /\ Rank[head] \in Nat
    BY <1>0, <1>2, <1>4, <1>5, RankAssumption DEF TypeOK, stored
  <2> QED BY SMTT(60), <2>1, <2>2, <2>3
<1>8. ~block_confirmed(s)
  <2>1. block_confirmed(s) <=> blocks[s].height <= confirmation_height[owner(s)].height
    BY <1>0, <1>2, Confirmed
  <2>2. /\ blocks[s].height > confirmation_height[owner(s)].height
        /\ blocks[s].height \in Nat /\ confirmation_height[owner(s)].height \in Nat
    BY <1>2, <1>6
  <2> QED BY SMTT(60), <2>1, <2>2
<1>9. s \in dependent_blocks(r)
  BY <1>2, <1>3, GenesisAssumption DEF dependent_blocks, block_source, is_receiver
<1>10. ~block_confirmed(r)
  BY <1>0, <1>3, <1>8, <1>9 DEF CementedOnCemented, can_vote
<1>11. blocks[head].height > confirmation_height[d].height
  BY SMTT(60), <1>0, <1>3, <1>4, <1>6, <1>10, Confirmed
<1> QED BY <1>3, <1>4, <1>5, <1>7, <1>11

(* A nested rollback begins.                                                *)
LEMMA ReceiverInv ==
  ASSUME LedgerInv, rollback_receiver
  PROVE  LedgerInv'
<1> DEFINE n == Len(stack)
           d == Block[visited].link
           head == accounts[d].head
           f == activation(head)
<1>0. /\ stack \in Seq(Frame) /\ stack # <<>> /\ ActivationsMatch /\ OnlyTopUnvisited
      /\ VisitedAreHeads /\ NestedAtHead /\ NestedLater /\ visited # Zero
      /\ visited_key \notin DOMAIN pending
      /\ UNCHANGED <<tables, block_count, account_count, cemented_count, epoch_2_started>>
      /\ rep_weights' \in [Account -> Amount]
      /\ stored' = stored /\ blocks' = blocks /\ accounts' = accounts
      /\ confirmation_height' = confirmation_height
      /\ stack' = Append(stack, f)
  BY DEF LedgerInv, TypeOK, StackInv, rollback_receiver, tables, caches, stored
<1>1. /\ head \in stored /\ owner(head) = d /\ accounts[d].head = head
      /\ Rank[visited] < Rank[head]
      /\ blocks[head].height > confirmation_height[d].height
  BY <1>0, ReceiverHead
<1>2. /\ f \in Frame /\ f.block = head /\ f.account = d /\ f.height = blocks[head].height
      /\ f.visit = Zero
  BY <1>1, ActivationType
<1> HIDE DEF f, head, d
<1>3. /\ n \in Nat /\ n > 0 /\ n \in 1 .. n /\ top = stack[n] /\ visited = stack[n].visit
  BY SMTT(60), <1>0 DEF top, visited
<1>4. /\ stack' \in Seq(Frame) /\ Len(stack') = n + 1 /\ stack'[n + 1] = f
      /\ \A i \in 1 .. n : stack'[i] = stack[i]
  BY SMTT(60), <1>0, <1>2, <1>3
<1>5. \A i \in 1 .. n : stack[i].visit # Zero /\ Rank[stack[i].visit] < Rank[head]
  <2> SUFFICES ASSUME NEW i \in 1 .. n
               PROVE  stack[i].visit # Zero /\ Rank[stack[i].visit] < Rank[head]
    OBVIOUS
  <2>1. CASE i = n
    BY <1>0, <1>1, <1>3, <2>1
  <2>2. CASE i # n
    <3>1. Undoable(visited)
      BY <1>0, VisitedUndoable
    <3>2. top.block = visited /\ stack[i].visit # Zero
      BY <1>0, <1>3, <2>2, <3>1, OthersApart DEF Undoable
    <3>3. Rank[stack[i].visit] < Rank[visited]
      <4>1. i \in 1 .. n /\ n \in 1 .. n /\ i < n
        BY SMTT(60), <1>3, <2>2
      <4>2. stack[n].block = visited /\ visited \in stored
        BY <1>3, <3>1, <3>2 DEF Undoable
      <4> QED BY <1>0, <4>1, <4>2 DEF NestedLater
    <3>4. stack[i].visit \in stored
      BY <1>0, <3>2 DEF VisitedAreHeads
    <3>5. Rank[stack[i].visit] \in Nat /\ Rank[visited] \in Nat /\ Rank[head] \in Nat
      BY <1>1, <3>1, <3>4, RankAssumption DEF Undoable, LedgerInv, TypeOK, stored
    <3> QED BY SMTT(60), <1>1, <3>2, <3>3, <3>5
  <2> QED BY <2>1, <2>2
<1>6. ActivationsMatch'
  <2> SUFFICES ASSUME NEW i \in 1 .. n + 1, stack'[i].block \in stored
               PROVE  /\ stack'[i].account = owner(stack'[i].block)
                      /\ stack'[i].height = blocks[stack'[i].block].height
    BY <1>0, <1>4 DEF ActivationsMatch, owner
  <2>1. CASE i = n + 1
    BY <1>1, <1>2, <1>4, <2>1
  <2>2. CASE i \in 1 .. n
    BY <1>0, <1>4, <2>2 DEF ActivationsMatch
  <2> QED BY SMTT(60), <1>3, <2>1, <2>2
<1>7. OnlyTopUnvisited'
  BY SMTT(60), <1>3, <1>4, <1>5 DEF OnlyTopUnvisited
<1>8. VisitedAreHeads'
  <2>a. \A k : balance(k)' = balance(k)
    BY <1>0 DEF balance, block_balance_calculated
  <2>b. \A k : sends(k)' = sends(k)
    BY <2>a DEF sends
  <2> SUFFICES ASSUME NEW i \in 1 .. n + 1, stack'[i].visit # Zero
               PROVE  LET frame == stack'[i]
                      IN /\ frame.block \in stored
                         /\ frame.visit \in stored
                         /\ sends(frame.visit)
                         /\ frame.account \in DOMAIN accounts
                         /\ accounts[frame.account].head = frame.visit
                         /\ Block[frame.visit].type \in {"send", "state"}
                         /\ Block[frame.visit].type = "state" => frame.info = accounts[frame.account]
                         /\ blocks[frame.visit].height > confirmation_height[frame.account].height
    BY <1>0, <1>4, <2>b DEF VisitedAreHeads
  <2>1. i \in 1 .. n
    BY SMTT(60), <1>2, <1>3, <1>4
  <2> QED BY <1>0, <1>4, <2>1 DEF VisitedAreHeads
<1>9. NestedAtHead'
  <2> SUFFICES ASSUME NEW i \in 2 .. n + 1, stack'[i].block \in stored
               PROVE  /\ accounts[stack'[i].account].head = stack'[i].block
                      /\ stack'[i].height > confirmation_height[stack'[i].account].height
    BY <1>0, <1>4 DEF NestedAtHead
  <2>1. CASE i = n + 1
    BY <1>1, <1>2, <1>4, <2>1
  <2>2. CASE i \in 2 .. n
    BY SMTT(60), <1>0, <1>4, <2>2 DEF NestedAtHead
  <2> QED BY SMTT(60), <1>3, <2>1, <2>2
<1>10. NestedLater'
  <2> SUFFICES ASSUME NEW i \in 1 .. n + 1, NEW j \in 1 .. n + 1, i < j, stack'[j].block \in stored
               PROVE  Rank[stack'[i].visit] < Rank[stack'[j].block]
    BY <1>0, <1>4 DEF NestedLater
  <2>1. CASE j = n + 1
    BY SMTT(60), <1>2, <1>3, <1>4, <1>5, <2>1
  <2>2. CASE j \in 1 .. n
    BY SMTT(60), <1>0, <1>3, <1>4, <2>2 DEF NestedLater
  <2> QED BY SMTT(60), <1>3, <2>1, <2>2
<1> QED BY <1>0, <1>4, <1>6, <1>7, <1>8, <1>9, <1>10, StackStep DEF StackInv

(* The stack without the activation on top.                                 *)
LEMMA StackPopped ==
  ASSUME NEW s \in Seq(Frame), s # <<>>
  PROVE  LET u == SubSeq(s, 1, Len(s) - 1)
         IN /\ u \in Seq(Frame) /\ Len(u) = Len(s) - 1
            /\ \A i \in 1 .. Len(s) - 1 : u[i] = s[i]
<1> DEFINE n == Len(s) - 1
           u == SubSeq(s, 1, n)
<1>1. n \in Nat /\ \A i \in 1 .. n : s[i] \in Frame
  BY SMTT(60)
<1> HIDE DEF n
<1>2. /\ u \in Seq(Frame) /\ Len(u) = n
      /\ \A i \in 1 .. n : u[i] = s[i]
  BY SMTT(60), <1>1
<1> QED BY <1>2 DEF n, u

(* An activation returns, or the whole call gives up.                       *)
LEMMA ReturnInv ==
  ASSUME LedgerInv, rollback_return \/ rollback_refused
  PROVE  LedgerInv'
<1>0. /\ UNCHANGED <<tables, block_count, account_count, cemented_count, epoch_2_started>>
      /\ rep_weights' \in [Account -> Amount] /\ stack \in Seq(Frame) /\ stack # <<>>
      /\ stored' = stored /\ blocks' = blocks /\ accounts' = accounts
      /\ confirmation_height' = confirmation_height
      /\ ActivationsMatch /\ OnlyTopUnvisited /\ VisitedAreHeads /\ NestedAtHead /\ NestedLater
  BY DEF LedgerInv, TypeOK, StackInv, rollback_return, rollback_refused, unfinished, tables,
         caches, stored
<1>1. PICK m \in 0 .. Len(stack) - 1 : /\ stack' \in Seq(Frame) /\ Len(stack') = m
                                       /\ \A i \in 1 .. m : stack'[i] = stack[i]
  <2>1. CASE rollback_return
    <3>1. stack' = SubSeq(stack, 1, Len(stack) - 1) /\ Len(stack) - 1 \in Nat
      BY SMTT(60), <1>0, <2>1 DEF rollback_return
    <3>2. /\ stack' \in Seq(Frame) /\ Len(stack') = Len(stack) - 1
          /\ \A i \in 1 .. Len(stack) - 1 : stack'[i] = stack[i]
      BY <1>0, <3>1, StackPopped
    <3> QED BY SMTT(60), <3>1, <3>2
  <2>2. CASE rollback_refused
    <3>1. stack' = <<>> /\ 0 \in 0 .. Len(stack) - 1
      BY SMTT(60), <1>0, <2>2 DEF rollback_refused
    <3> QED BY SMTT(60), <3>1
  <2> QED BY <2>1, <2>2
<1>2. m \in Nat /\ \A i \in 1 .. m : i \in 1 .. Len(stack) /\ i < Len(stack)
  BY SMTT(60), <1>0, <1>1
<1>3. ActivationsMatch'
  BY <1>0, <1>1, <1>2 DEF ActivationsMatch, owner
<1>4. OnlyTopUnvisited'
  BY <1>0, <1>1, <1>2 DEF OnlyTopUnvisited
<1>5. VisitedAreHeads'
  <2>1. \A h : balance(h)' = balance(h)
    BY <1>0 DEF balance, block_balance_calculated
  <2>2. \A h : sends(h)' = sends(h)
    BY <2>1 DEF sends
  <2>3. \A i \in 1 .. Len(stack') : i \in 1 .. Len(stack) /\ stack'[i] = stack[i]
    BY <1>1, <1>2
  <2> QED BY <1>0, <2>2, <2>3 DEF VisitedAreHeads
<1>6. NestedAtHead'
  BY SMTT(60), <1>0, <1>1, <1>2 DEF NestedAtHead
<1>7. NestedLater'
  BY <1>0, <1>1, <1>2 DEF NestedLater
<1> QED BY <1>0, <1>1, <1>3, <1>4, <1>5, <1>6, <1>7, StackStep DEF StackInv

-----------------------------------------------------------------------------
(* The weights while a rollback moves between activations.                 *)

(* The steps that call, return from or give up an activation, and the visit *)
(* of a legacy send, leave the state sends that wait as they are.           *)
LEMMA WaitsKept ==
  ASSUME LedgerInv, RepresentativeInForce,
         \/ \E h \in Hash : RollbackStart(h) \/ visit_send(h)
         \/ rollback_receiver \/ rollback_return \/ rollback_refused,
         NEW k \in stored
  PROVE  waits(k)' = waits(k)
<1> DEFINE n == Len(stack)
<1>0. stack \in Seq(Frame) /\ k \in Hash /\ k # Zero
  BY ConstantsAssumption DEF LedgerInv, TypeOK, stored
<1> SUFFICES ASSUME Block[k].type = "state"
             PROVE  (\E i \in 1 .. Len(stack') : stack'[i].visit = k)
                    <=> (\E i \in 1 .. n : stack[i].visit = k)
  BY DEF waits
<1>1. CASE \E h \in Hash : RollbackStart(h)
  BY SMTT(60), <1>0, <1>1 DEF RollbackStart, activation
<1>2. ASSUME NEW h \in Hash, visit_send(h)
      PROVE  (\E i \in 1 .. Len(stack') : stack'[i].visit = k)
             <=> (\E i \in 1 .. n : stack[i].visit = k)
  <2>1. Visiting(h) /\ Block[h].type = "send" /\ top.visit = Zero /\ stack # <<>>
    BY <1>2, VisitSendWaits DEF visit_send, visits, unfinished
  <2>2. n \in 1 .. n /\ stack[n].visit = Zero /\ Len(stack') = n /\ stack'[n].visit = h
        /\ \A i \in 1 .. n : i # n => stack'[i] = stack[i]
    BY SMTT(60), <1>0, <2>1 DEF Visiting, top
  <2> QED BY <1>0, <2>1, <2>2
<1>3. CASE rollback_receiver
  <2>1. PICK x : stack' = Append(stack, activation(x))
    BY <1>3 DEF rollback_receiver
  <2>2. Len(stack') = n + 1 /\ stack'[n + 1].visit = Zero /\ n \in Nat
        /\ \A i \in 1 .. n : stack'[i] = stack[i]
    BY SMTT(60), <1>0, <2>1 DEF activation
  <2> QED BY SMTT(60), <1>0, <2>2
<1>4. CASE rollback_return
  <2>1. stack # <<>> /\ top.visit = Zero /\ stack' = SubSeq(stack, 1, n - 1)
    BY <1>4 DEF rollback_return
  <2>2. n \in 1 .. n /\ stack[n].visit = Zero /\ Len(stack') = n - 1
        /\ \A i \in 1 .. n - 1 : stack'[i] = stack[i]
    BY SMTT(60), <1>0, <2>1, StackPopped DEF top
  <2> QED BY SMTT(60), <1>0, <2>2
<1>5. CASE rollback_refused
  <2>1. /\ stack # <<>> /\ top.visit = Zero /\ stack' = <<>>
        /\ \A i \in 1 .. n - 1 : Block[stack[i].visit].type = "send"
    BY <1>5 DEF rollback_refused, unfinished
  <2>2. stack[n].visit = Zero /\ n \in Nat
    BY SMTT(60), <1>0, <2>1 DEF top
  <2> QED BY SMTT(60), <1>0, <2>1, <2>2
<1> QED BY <1>1, <1>2, <1>3, <1>4, <1>5

(* So they leave the weights as they are.                                   *)
LEMMA CallsKeepWeights ==
  ASSUME LedgerInv, RepresentativeInForce, RepWeightsDelegated,
         \/ \E h \in Hash : RollbackStart(h) \/ visit_send(h)
         \/ rollback_receiver \/ rollback_return \/ rollback_refused
  PROVE  RepWeightsDelegated'
<1>1. UNCHANGED <<tables, caches>>
  BY DEF RollbackStart, visit_send, rollback_receiver, rollback_return, rollback_refused
<1>2. blocks' = blocks /\ accounts' = accounts /\ rep_weights' = rep_weights
  BY <1>1 DEF tables, caches
<1>3. ASSUME NEW a \in DOMAIN accounts
      PROVE  standing(a)' = standing(a)
  <2> SUFFICES ASSUME NEW k, k = accounts[a].head
               PROVE  standing(a)' = standing(a)
    OBVIOUS
  <2>1. waits(k)' = waits(k)
    BY <1>3, WaitsKept DEF LedgerInv, ChainInv, HeadsStored
  <2>2. waits(accounts[a].head)' = waits(accounts[a].head)
    BY <1>2, <2>1 DEF waits
  <2>3. balance(Block[k].previous)' = balance(Block[k].previous)
    BY <1>2 DEF balance, block_balance_calculated
  <2>4. balance(Block[accounts[a].head].previous)' = balance(Block[accounts[a].head].previous)
    BY <1>2 DEF balance, block_balance_calculated
  <2> QED BY <1>2, <2>2, <2>4 DEF standing, representative_before
<1> QED BY <1>2, <1>3, WeightsStay

(* A state send that is visited waits from then on, and no other block      *)
(* begins or ceases to.                                                     *)
LEMMA VisitWaits ==
  ASSUME LedgerInv, RepresentativeInForce, NEW h \in Hash, visit_state_send(h)
  PROVE  /\ ~waits(h) /\ waits(h)'
         /\ \A k \in stored : k # h => waits(k)' = waits(k)
<1> DEFINE n == Len(stack)
<1>0. /\ stack \in Seq(Frame) /\ Zero \notin stored /\ VisitedAreHeads /\ HeadsStored
  BY ConstantsAssumption DEF LedgerInv, TypeOK, stored, StackInv, ChainInv
<1>1. /\ Visiting(h) /\ Undoable(h) /\ Block[h].type = "state" /\ top.visit = Zero
      /\ stack # <<>>
  BY VisitSendWaits DEF visit_state_send, visits, unfinished
<1>2. /\ n \in 1 .. n /\ stack[n].visit = Zero /\ Len(stack') = n /\ stack'[n].visit = h
      /\ \A i \in 1 .. n : i # n => stack'[i] = stack[i]
  BY SMTT(60), <1>0, <1>1 DEF Visiting, top
<1>3. \A i \in 1 .. n : i # n => stack[i].visit # Zero /\ stack[i].account # owner(h)
  BY <1>1, OthersApart DEF Undoable
<1>4. \A i \in 1 .. n : i # n => stack[i].visit # h
  BY SMTT(60), <1>0, <1>3 DEF VisitedAreHeads, HeadsStored
<1>5. ~waits(h)
  BY <1>0, <1>1, <1>2, <1>4 DEF waits, Undoable
<1>6. waits(h)'
  BY <1>1, <1>2 DEF waits
<1>7. ASSUME NEW k \in stored, k # h
      PROVE  waits(k)' = waits(k)
  <2>1. \A i \in 1 .. n : stack'[i].visit = k <=> stack[i].visit = k
    BY <1>0, <1>2, <1>7
  <2> QED BY <1>2, <2>1 DEF waits
<1> QED BY <1>5, <1>6, <1>7

(* The state block visitor takes from the representative what the account   *)
(* stood for and gives what it stands for while the send waits.             *)
LEMMA VisitMoves ==
  ASSUME LedgerInv, RepresentativeInForce, NEW h \in Hash, visit_state_send(h)
  PROVE  Moved(rep_weights, rep_weights', accounts[owner(h)],
               [representative |-> representative_before(h),
                balance |-> balance(Block[h].previous)])
<1> DEFINE old == accounts[owner(h)]
           new == [representative |-> representative_before(h),
                   balance |-> balance(Block[h].previous)]
           w == rep_weights
           u == rep_weights'
<1>1. Undoable(h) /\ Block[h].type = "state" /\ sends(h) /\ undo_representation(h)
  BY VisitSendWaits DEF visit_state_send, visits
<1>2. /\ old \in AccountInfo /\ new.balance \in Amount /\ new.representative \in Account
      /\ w \in [Account -> Amount]
  BY <1>1, UndoableFacts DEF LedgerInv, TypeOK
<1>3. /\ old.balance \in Int /\ new.balance \in Int
      /\ old.representative \in Account /\ new.representative \in Account
  BY SMTT(60), <1>2, InfoFields, ConstantsAssumption DEF Amount
<1>4. old.representative = Block[h].representative /\ old.balance = Block[h].balance
  <2>1. old.representative = Block[h].representative /\ old.balance = balance(h)
    BY <1>1, InForce
  <2> QED BY <1>1, <2>1, ConstantsAssumption DEF balance, block_balance_calculated
<1>5. Block[h].previous # Zero
  BY SMTT(60), <1>1, Contents, ConstantsAssumption DEF sends, balance, Amount
<1>6. u = representation_add(representation_add(w, old.representative, 0 - old.balance),
                             new.representative, new.balance)
  BY <1>1, <1>4, <1>5 DEF undo_representation
<1> HIDE DEF old, new, w, u
<1>7. Moved(w, u, old, new)
  BY <1>2, <1>3, <1>6, MovedTwice
<1> QED BY <1>7 DEF old, new, w, u

(* The weights when a state send is visited.                                *)
LEMMA VisitRepresentation ==
  ASSUME SumLaws, LedgerInv, LedgerInv', RepresentativeInForce, RepWeightsDelegated,
         NEW h \in Hash, visit_state_send(h)
  PROVE  RepWeightsDelegated'
<1> DEFINE a == owner(h)
           old == accounts[a]
           new == [representative |-> representative_before(h),
                   balance |-> balance(Block[h].previous)]
<1>0. blocks' = blocks /\ accounts' = accounts /\ HeadsStored
  BY DEF visit_state_send, tables, LedgerInv, ChainInv
<1>1. a \in DOMAIN accounts /\ accounts[a].head = h
  BY VisitSendWaits DEF Undoable
<1>2. /\ ~waits(h) /\ waits(h)'
      /\ \A k \in stored : k # h => waits(k)' = waits(k)
  BY VisitWaits
<1>3. \A k : balance(k)' = balance(k)
  BY <1>0 DEF balance, block_balance_calculated
<1>4. ASSUME NEW x \in DOMAIN accounts, x # a
      PROVE  standing(x)' = standing(x)
  <2> SUFFICES ASSUME NEW k, k = accounts[x].head
               PROVE  standing(x)' = standing(x)
    OBVIOUS
  <2>1. k \in stored /\ k # h
    BY <1>0, <1>1, <1>4 DEF HeadsStored
  <2>2. waits(accounts[x].head)' = waits(accounts[x].head)
    BY <1>0, <1>2, <2>1 DEF waits
  <2>3. balance(Block[accounts[x].head].previous)' = balance(Block[accounts[x].head].previous)
    BY <1>0 DEF balance, block_balance_calculated
  <2> QED BY <1>0, <2>2, <2>3 DEF standing, representative_before
<1>5. standing(a) = [representative |-> old.representative, balance |-> old.balance]
  BY <1>1, <1>2 DEF standing
<1>6. standing(a)' = new
  <2>1. waits(accounts[a].head)'
    BY <1>0, <1>1, <1>2 DEF waits
  <2>2. balance(Block[accounts[a].head].previous)' = balance(Block[h].previous)
    BY <1>0, <1>1 DEF balance, block_balance_calculated
  <2>3. representative_before(accounts[a].head)' = representative_before(h)
    BY <1>0, <1>1 DEF representative_before
  <2> QED BY <2>1, <2>2, <2>3 DEF standing
<1>7. ASSUME NEW r \in Account
      PROVE  /\ Differ(weighed(r), weighed(r)', a)
             /\ part(weighed(r), a) = delegation(old, r)
             /\ part(weighed(r)', a) = delegation(new, r)
  <2>1. Differ(weighed(r), weighed(r)', a)
    BY <1>0, <1>4 DEF Differ, weighed, delegated
  <2>2. part(weighed(r), a) = delegation(old, r)
    BY SMTT(60), <1>1, <1>5 DEF part, weighed, delegated, delegation
  <2>3. part(weighed(r)', a) = delegation(new, r)
    <3> HIDE DEF new
    <3> QED BY <1>0, <1>1, <1>6 DEF part, weighed, delegated, delegation
  <2> QED BY <2>1, <2>2, <2>3
<1>8. Moved(rep_weights, rep_weights', old, new)
  BY VisitMoves
<1> HIDE DEF a, old, new
<1> QED BY SMTT(60), <1>7, <1>8, WeightsFollow

-----------------------------------------------------------------------------
(* What a rollback removes.                                                 *)

(* The head above the receiver of a send that waits descends from the       *)
(* target of the rollback.                                                  *)
LEMMA ReceiverDescends ==
  ASSUME RankLaw, AncestorsUnfold, LedgerInv, OnStack, rollback_receiver
  PROVE  OnStack'
<1> DEFINE n == Len(stack)
           d == Block[visited].link
           head == accounts[d].head
           f == activation(head)
<1>0. /\ stack \in Seq(Frame) /\ stack # <<>> /\ visited # Zero /\ stored \subseteq Hash
      /\ visited_key \notin DOMAIN pending /\ stack' = Append(stack, f)
      /\ BlocksOwned /\ HeadsStored
  BY DEF LedgerInv, TypeOK, stored, ChainInv, rollback_receiver
<1>1. /\ d \in DOMAIN accounts /\ head \in stored /\ owner(head) = d
      /\ \E r \in stored : Block[r].link = visited /\ owner(r) = d
  BY <1>0, ReceiverHead
<1>2. PICK r \in stored : Block[r].link = visited /\ owner(r) = d
  BY <1>1
<1>3. Undoable(visited)
  BY <1>0, VisitedUndoable
<1>4. visited \in Hash /\ Descends(visited, stack[1].block)
  BY <1>3, TopDescends DEF Undoable
<1>5. r \in Hash /\ Descends(r, visited)
  BY <1>0, <1>2, <1>4, DescendsDirect DEF direct
<1>6. head \in Hash /\ Descends(head, r)
  <2>1. blocks[r].height <= blocks[head].height
    <3>1. blocks[head].height = accounts[d].block_count
      BY <1>0, <1>1 DEF HeadsStored
    <3>2. blocks[r].height <= accounts[d].block_count
      BY <1>0, <1>2 DEF BlocksOwned
    <3> QED BY <3>1, <3>2
  <2> HIDE DEF head
  <2> QED BY <1>0, <1>1, <1>2, <2>1, ChainDescends
<1>7. f.block = head
  BY <1>1, ActivationType
<1> HIDE DEF head, f
<1>8. Descends(head, stack[1].block)
  BY <1>4, <1>5, <1>6, DescendsTransitive
<1>9. /\ n \in Nat /\ 1 \in 1 .. n /\ Len(stack') = n + 1 /\ stack'[n + 1] = f
      /\ \A i \in 1 .. n : stack'[i] = stack[i]
  BY SMTT(60), <1>0
<1> SUFFICES ASSUME NEW i \in 1 .. n + 1
             PROVE  Descends(stack'[i].block, stack'[1].block)
  BY <1>9 DEF OnStack, Descends
<1>10. CASE i = n + 1
  BY <1>7, <1>8, <1>9, <1>10
<1>11. CASE i \in 1 .. n
  BY <1>9, <1>11 DEF OnStack
<1> QED BY SMTT(60), <1>9, <1>10, <1>11

(* The other steps of rollback that move between activations.               *)
LEMMA CallsDescend ==
  ASSUME LedgerInv, RepresentativeInForce, OnStack,
         \/ \E h \in Hash : RollbackStart(h) \/ visit_send(h) \/ visit_state_send(h)
         \/ rollback_return \/ rollback_refused
  PROVE  OnStack'
<1> DEFINE n == Len(stack)
<1>0. stack \in Seq(Frame) /\ n \in Nat
  BY SMTT(60) DEF LedgerInv, TypeOK
<1>1. CASE \E h \in Hash : RollbackStart(h)
  BY SMTT(60), <1>1 DEF RollbackStart, OnStack, Descends
<1>2. ASSUME NEW h \in Hash, visit_send(h) \/ visit_state_send(h)
      PROVE  OnStack'
  <2>1. Visiting(h)
    BY <1>2, VisitSendWaits
  <2> QED BY SMTT(60), <1>0, <2>1, TargetsKept DEF Visiting, top
<1>3. CASE rollback_return
  <2>1. stack # <<>> /\ stack' = SubSeq(stack, 1, n - 1)
    BY <1>3 DEF rollback_return
  <2>2. n - 1 \in Nat /\ Len(stack') = n - 1 /\ \A i \in 1 .. n - 1 : stack'[i] = stack[i]
    BY SMTT(60), <1>0, <2>1, StackPopped
  <2> QED BY SMTT(60), <1>0, <2>2, TargetsKept
<1>4. CASE rollback_refused
  BY SMTT(60), <1>4 DEF rollback_refused, OnStack
<1> QED BY <1>1, <1>2, <1>3, <1>4

(* The block undone descends from the target, and the targets stay.         *)
LEMMA RemovedDescends ==
  ASSUME RankLaw, AncestorsUnfold, LedgerInv, OnStack, NEW h, Removed(h)
  PROVE  OnStack' /\ Descends(h, stack[1].block) /\ stored \ stored' = {h}
<1> DEFINE n == Len(stack)
<1>0. stack \in Seq(Frame) /\ n \in Nat
  BY SMTT(60) DEF LedgerInv, TypeOK
<1>1. /\ n > 0 /\ Len(stack') = n /\ top.block \in stored /\ top.account = owner(h)
      /\ \A i \in 1 .. n : stack'[i].block = stack[i].block
  BY <1>0 DEF Removed, RemovedStack, top
<1>2. /\ h \in stored /\ stored' = stored \ {h}
      /\ owner(h) \in DOMAIN accounts /\ accounts[owner(h)].head = h
  BY DEF Removed, RemovedBlocks, RemovedAccounts
<1>3. OnStack'
  BY SMTT(60), <1>0, <1>1, TargetsKept
<1>4. Descends(h, stack[1].block)
  BY SMTT(60), <1>0, <1>1, <1>2, TopDescends
<1> QED BY <1>2, <1>3, <1>4

=============================================================================
