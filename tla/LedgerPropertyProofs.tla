------------------------ MODULE LedgerPropertyProofs ------------------------
(***************************************************************************)
(* What follows from LedgerInv, and what the changes it allows keep: the   *)
(* sum of all amounts, the weights of the representatives, the count of    *)
(* cemented blocks, and the lattice the blocks form.  Recursive definitions*)
(* and sums are reasoned about in the order in which blocks were created.  *)
(* At the end: new ledgers, and tables that are saved and read again.      *)
(***************************************************************************)
EXTENDS LedgerLattice, LedgerFacts

(* Enough time for a step on a busy machine.                                *)
USE ZenonT(60)

-----------------------------------------------------------------------------
(* representative_visitor walks back along previous to the block that names *)
(* the representative.                                                      *)
LEMMA RepresentativeFound ==
  ASSUME RankLaw, RecursionLaw
  PROVE  RepresentativeInForce
<1> DEFINE inherits(h) == Block[h].type \in {"send", "receive"} /\ Block[h].previous \in Hash
           D == [p \in Hash \X [Hash -> Hash] |->
                   IF inherits(p[1]) THEN p[2][Block[p[1]].previous] ELSE p[1]]
           walk(g) == [h \in Hash |-> IF inherits(h) THEN g[Block[h].previous] ELSE h]
<1>1. D \in [Hash \X [Hash -> Hash] -> Hash]
  OBVIOUS
<1>2. \A h \in Hash : \A f \in [Hash -> Hash] :
        D[<<h, f>>] = IF inherits(h) THEN f[Block[h].previous] ELSE h
  OBVIOUS
<1> HIDE DEF D
<1>3. LooksBack(D, Hash, Hash, Rank)
  BY SMTT(60), <1>2, RankAssumption DEF LooksBack
<1>4. PICK f : Recurses(f, D, Hash, Hash)
  BY <1>1, <1>3, RankAssumption, GenesisAssumption DEF RecursionLaw
<1>5. f = walk(f)
  BY <1>2, <1>4 DEF Recurses
<1>6. representative_block = walk(representative_block)
  BY <1>5 DEF representative_block
<1> DEFINE r == representative_block
           Q == {h \in Hash : r[h] \in Hash}
<1> HIDE DEF r
<1>7. \A h \in Hash : r[h] = IF inherits(h) THEN r[Block[h].previous] ELSE h
  BY <1>6 DEF r
<1>8. ASSUME NEW h \in Hash, \A k \in Hash : Rank[k] < Rank[h] => k \in Q PROVE h \in Q
  BY <1>7, <1>8, RankAssumption
<1>9. Hash \subseteq Q
  <2> HIDE DEF Q
  <2> QED BY <1>8, RankAssumption DEF RankLaw
<1> QED BY <1>6, <1>7, <1>9 DEF r, RepresentativeInForce

-----------------------------------------------------------------------------
(* What follows from the invariant.                                         *)

(* Nothing stands on a head.                                                *)
LEMMA HeadsLast ==
  ASSUME LedgerInv, NEW a \in DOMAIN accounts, NEW h, h = accounts[a].head
  PROVE  h \in stored /\ owner(h) = a /\ blocks[h].successor = Zero
<1>0. TypeOK /\ BlocksOwned /\ BlocksOnPrevious /\ HeadsStored /\ NeighboursLinked
  BY DEF LedgerInv, ChainInv, LinkInv
<1>1. h \in stored /\ owner(h) = a /\ blocks[h].height = accounts[a].block_count
  BY <1>0 DEF HeadsStored
<1>2. ASSUME blocks[h].successor # Zero PROVE FALSE
  <2> DEFINE k == blocks[h].successor
  <2>1. k \in stored /\ Block[k].previous = h
    BY <1>0, <1>1, <1>2 DEF NeighboursLinked
  <2>2. h # Zero /\ blocks[k].height \in Nat /\ blocks[h].height \in Nat
    BY <1>0, <1>1, <2>1, ConstantsAssumption DEF TypeOK, stored, Sideband
  <2>3. owner(k) = a /\ blocks[k].height = blocks[h].height + 1
    BY <1>0, <1>1, <2>1, <2>2 DEF BlocksOnPrevious
  <2>4. blocks[k].height <= accounts[a].block_count
    BY <1>0, <2>1, <2>3 DEF BlocksOwned
  <2> QED BY SMTT(60), <1>1, <2>2, <2>3, <2>4
<1> QED BY <1>1, <1>2

(* The blocks of each account form one chain.                               *)
LEMMA ChainsFollow ==
  ASSUME LedgerInv
  PROVE  ChainsLinked
<1>0. /\ TypeOK /\ BlocksOwned /\ BlocksOnPrevious /\ HeadsStored /\ FrontiersAreHeads
      /\ NeighboursLinked /\ LegacyHeadsAreFrontiers /\ CountsRight
  BY DEF LedgerInv, ChainInv, LinkInv
<1>1. \A h \in stored : block_account(h) = owner(h)
  BY <1>0, Confirmed
<1>2. ASSUME NEW h \in stored PROVE ChainLinked(h)
  <2>1. CASE Block[h].previous = Zero
    BY <1>0, <1>1, <2>1 DEF ChainLinked, BlocksOwned, BlocksOnPrevious, NeighboursLinked,
                            block_exists, stored
  <2>2. CASE Block[h].previous # Zero
    BY SMTT(60), <1>0, <1>1, <2>2 DEF ChainLinked, BlocksOwned, BlocksOnPrevious, NeighboursLinked,
                            block_exists, stored
  <2> QED BY <2>1, <2>2
<1>3. ASSUME NEW a \in DOMAIN accounts
      PROVE  /\ block_exists(accounts[a].head) /\ block_account(accounts[a].head) = a
             /\ accounts[a].block_count = Cardinality({h \in DOMAIN blocks : block_account(h) = a})
  <2>1. accounts[a].head \in stored /\ owner(accounts[a].head) = a
    BY <1>0 DEF HeadsStored
  <2>2. {h \in DOMAIN blocks : block_account(h) = a} = {h \in stored : owner(h) = a}
    BY <1>1 DEF stored
  <2>3. accounts[a].block_count = Cardinality({h \in stored : owner(h) = a})
    BY <1>0 DEF CountsRight
  <2> QED BY <1>1, <2>1, <2>2, <2>3 DEF block_exists, stored
<1>4. frontiers = [h \in {x \in DOMAIN blocks : Block[x].type # "state"
                                                /\ blocks[x].successor = Zero}
                   |-> block_account(h)]
  <2> DEFINE ends == {x \in DOMAIN blocks : Block[x].type # "state" /\ blocks[x].successor = Zero}
  <2>1. ASSUME NEW h \in DOMAIN frontiers PROVE h \in ends /\ frontiers[h] = block_account(h)
    <3>1. /\ frontiers[h] \in DOMAIN accounts /\ h = accounts[frontiers[h]].head
          /\ Block[h].type # "state"
      BY <1>0 DEF FrontiersAreHeads
    <3>2. h \in stored /\ owner(h) = frontiers[h] /\ blocks[h].successor = Zero
      BY <3>1, HeadsLast
    <3> QED BY <1>1, <3>1, <3>2 DEF stored
  <2>2. ASSUME NEW h \in ends PROVE h \in DOMAIN frontiers
    <3>1. h \in stored /\ Block[h].type # "state" /\ blocks[h].successor = Zero
      BY DEF stored
    <3>2. owner(h) \in DOMAIN accounts /\ accounts[owner(h)].head = h
      BY <1>0, <3>1 DEF BlocksOwned, NeighboursLinked
    <3> QED BY <1>0, <3>1, <3>2 DEF LegacyHeadsAreFrontiers
  <2>3. frontiers = [h \in DOMAIN frontiers |-> frontiers[h]]
    BY <1>0 DEF TypeOK
  <2>4. DOMAIN frontiers = ends
    BY <2>1, <2>2
  <2> HIDE DEF ends
  <2>5. frontiers = [h \in ends |-> block_account(h)]
    BY <2>1, <2>3, <2>4
  <2> QED BY <2>5 DEF ends
<1> QED BY <1>2, <1>3, <1>4 DEF ChainsLinked, stored

(* account_info agrees with the head block.                                 *)
LEMMA AccountsFollow ==
  ASSUME LedgerInv
  PROVE  AccountsMatchHeads
<1>1. HeadsStored /\ HeadsInForce
  BY DEF LedgerInv, ChainInv, WorthInv
<1> QED BY <1>1 DEF AccountsMatchHeads, HeadsStored, HeadsInForce

(* Epochs rise along a chain.                                               *)
LEMMA EpochsFollow ==
  ASSUME LedgerInv
  PROVE  EpochsOrdered
<1>1. HeadsStored /\ HeadsInForce /\ EpochsRise
  BY DEF LedgerInv, ChainInv, WorthInv
<1>2. ASSUME NEW a \in DOMAIN accounts, accounts[a].epoch = 2 PROVE epoch_2_started
  <2>1. accounts[a].head \in stored /\ block_version(accounts[a].head) = 2
    BY <1>1, <1>2 DEF HeadsStored, HeadsInForce
  <2> QED BY <1>1, <2>1 DEF EpochsRise
<1> QED BY <1>1, <1>2 DEF EpochsOrdered, EpochsRise, stored

(* The receivers of a send are the stored blocks that name it as a source.  *)
LEMMA ReceiversAre ==
  ASSUME LedgerInv, NEW h \in Hash
  PROVE  receivers(h) = {r \in stored : is_receiver(r) /\ Block[r].link = h}
<1>1. h # Zero /\ h \notin EpochLink /\ h # GenesisAccount
  BY ConstantsAssumption, GenesisAssumption DEF Destination
<1>2. ASSUME NEW r \in stored
      PROVE  block_source(r) = h <=> is_receiver(r) /\ Block[r].link = h
  BY <1>1, GenesisAssumption DEF block_source, is_receiver
<1> QED BY <1>2 DEF receivers, stored

(* Every send is pending or received once.                                  *)
LEMMA SendsFollow ==
  ASSUME CountLaws, LedgerInv
  PROVE  SendsPendingOrReceived
<1>0. /\ TypeOK /\ BlocksOwned /\ ReceiversHaveSends /\ PendingAreSends /\ PendingNotReceived
      /\ ReceivedOnce /\ SendsAccounted /\ PendingExact
  BY DEF LedgerInv, ChainInv, SendInv, WorthInv
<1>1. stored \subseteq Hash /\ \A h \in stored : block_account(h) = owner(h)
  BY <1>0, Confirmed DEF TypeOK, stored
<1>2. \A h \in stored : receivers(h) = {r \in stored : is_receiver(r) /\ Block[r].link = h}
  BY <1>1, ReceiversAre
<1>3. ASSUME NEW h \in stored, sends(h)
      PROVE  /\ Cardinality(receivers(h)) <= 1
             /\ \A r \in receivers(h) : block_account(r) = Block[h].link
  <2>1. Cardinality(receivers(h)) <= 1
    <3>1. CASE receivers(h) = {}
      BY SMTT(60), <3>1 DEF CountLaws
    <3>2. CASE receivers(h) # {}
      <4>1. PICK r : receivers(h) = {r}
        BY SMTT(60), <1>0, <1>2, <3>2 DEF ReceivedOnce
      <4>2. Cardinality({r}) = 1
        BY DEF CountLaws
      <4> QED BY SMTT(60), <4>1, <4>2
    <3> QED BY <3>1, <3>2
  <2>2. \A r \in receivers(h) : block_account(r) = Block[h].link
    BY <1>0, <1>1, <1>2 DEF ReceiversHaveSends
  <2> QED BY <2>1, <2>2
<1>4. DOMAIN pending = {<<Block[h].link, h>> :
                          h \in {x \in stored : sends(x) /\ receivers(x) = {}}}
  <2>1. ASSUME NEW key \in DOMAIN pending
        PROVE  \E h \in stored : sends(h) /\ receivers(h) = {} /\ key = <<Block[h].link, h>>
    <3>1. key[2] \in stored /\ sends(key[2]) /\ key = <<Block[key[2]].link, key[2]>>
      BY <1>0 DEF PendingAreSends
    <3>2. receivers(key[2]) = {}
      BY <1>0, <1>2, <3>1 DEF PendingNotReceived
    <3> QED BY <3>1, <3>2
  <2>2. ASSUME NEW h \in stored, sends(h), receivers(h) = {}
        PROVE  <<Block[h].link, h>> \in DOMAIN pending
    BY <1>0, <1>2, <2>2 DEF SendsAccounted
  <2> QED BY <2>1, <2>2
<1>5. ASSUME NEW key \in DOMAIN pending
      PROVE  pending[key] = pending_info(block_account(key[2]), amount(key[2]),
                                         block_version(key[2]))
  <2>1. /\ pending[key] \in PendingInfo
        /\ pending[key].source = block_account(key[2])
        /\ pending[key].amount = amount(key[2]) /\ pending[key].epoch = block_version(key[2])
    BY <1>0, <1>1 DEF TypeOK, PendingAreSends, PendingExact
  <2> QED BY <2>1 DEF PendingInfo, pending_info
<1> QED BY <1>3, <1>4, <1>5 DEF SendsPendingOrReceived, stored

-----------------------------------------------------------------------------
(* What summation_visitor computes, unfolded one block at a time.           *)
SummationUnfolds ==
  /\ summation \in [Summand -> Int]
  /\ \A kind \in {"balance", "amount"} : \A h \in Hash :
       summation[<<kind, h>>] = summed(kind, h, summation[<<"balance", Block[h].previous>>],
                                                summation[<<"amount", Block[h].link>>])
  /\ summation[<<"balance", Zero>>] = 0
  /\ summation[<<"amount", GenesisAccount>>] = Modulus - 1

(* One step of it on integers gives an integer.                             *)
LEMMA SummedType ==
  ASSUME NEW kind \in {"balance", "amount"}, NEW h \in Hash, NEW x \in Int, NEW y \in Int
  PROVE  summed(kind, h, x, y) \in Int
<1>1. Block[h].type \in BlockType /\ Block[h].balance \in Int
  BY Contents
<1>2. distance(Block[h].balance, x) \in Int /\ (x + y) % Modulus \in Int
  BY SMTT(60), <1>1, ConstantsAssumption DEF distance
<1> QED BY SMTT(60), <1>1, <1>2 DEF summed, BlockType

(* summation_visitor comes to an end: the blocks it descends to were        *)
(* created before.                                                          *)
LEMMA SummationFound ==
  ASSUME RankLaw, RecursionLaw
  PROVE  SummationUnfolds
<1> DEFINE V == Int
           F == [Summand -> V]
           back(q) == <<"balance", Block[q[2]].previous>>
           in(q) == <<"amount", Block[q[2]].link>>
           value(q, f) == CASE q[2] \in Hash -> summed(q[1], q[2], f[back(q)], f[in(q)])
                            [] q[2] = GenesisAccount -> Modulus - 1
                            [] OTHER -> 0
           D == [p \in Summand \X F |-> value(p[1], p[2])]
           walk(g) == [q \in Summand |-> value(q, g)]
           rank == [q \in Summand |-> IF q[2] \in Hash THEN Rank[q[2]] + 1 ELSE 0]
<1>1. \A q \in Summand : q[1] \in {"balance", "amount"} /\ q[2] \in Hash \cup Destination
                         /\ q = <<q[1], q[2]>>
  BY SMTT(60) DEF Summand
<1>2. rank \in [Summand -> Nat]
  BY SMTT(60), <1>1, RankAssumption
<1>3. ASSUME NEW q \in Summand, q[2] \in Hash
      PROVE  /\ back(q) \in Summand /\ rank[back(q)] < rank[q]
             /\ in(q) \in Summand /\ rank[in(q)] < rank[q]
  <2> DEFINE h == q[2]
  <2>1. Block[h].previous \in Hash \cup {Zero} /\ Block[h].link \in Destination \cup Hash
    BY <1>3, Contents DEF Destination
  <2>2. back(q) \in Summand /\ in(q) \in Summand
    BY <2>1, ConstantsAssumption DEF Summand, Destination
  <2>3. /\ rank[q] = Rank[h] + 1 /\ Rank[h] \in Nat
        /\ \A d \in Hash \cap {Block[h].previous, Block[h].link} :
             Rank[d] \in Nat /\ Rank[d] < Rank[h]
    BY <1>3, RankAssumption
  <2>4. /\ rank[back(q)] = IF Block[h].previous \in Hash THEN Rank[Block[h].previous] + 1 ELSE 0
        /\ rank[in(q)] = IF Block[h].link \in Hash THEN Rank[Block[h].link] + 1 ELSE 0
    BY <2>2
  <2> QED BY SMTT(60), <2>2, <2>3, <2>4
<1>4. ASSUME NEW q \in Summand, NEW f \in F PROVE value(q, f) \in V
  <2>1. CASE q[2] \in Hash
    <3>1. f[back(q)] \in Int /\ f[in(q)] \in Int
      BY <1>3, <2>1
    <3>2. summed(q[1], q[2], f[back(q)], f[in(q)]) \in Int
      BY <1>1, <2>1, <3>1, SummedType
    <3> QED BY <2>1, <3>2, ConstantsAssumption, GenesisAssumption DEF Destination
  <2>2. CASE q[2] \notin Hash
    BY SMTT(60), <2>2, ConstantsAssumption
  <2> QED BY <2>1, <2>2
<1> HIDE DEF V, rank
<1>5. D \in [Summand \X F -> V] /\ \A q \in Summand : \A f \in F : D[<<q, f>>] = value(q, f)
  <2> HIDE DEF value
  <2> QED BY <1>4
<1> HIDE DEF D
<1>6. LooksBack(D, Summand, V, rank)
  <2> SUFFICES ASSUME NEW q \in Summand, NEW f \in F, NEW g \in F,
                      \A r \in Summand : rank[r] < rank[q] => f[r] = g[r]
               PROVE  D[<<q, f>>] = D[<<q, g>>]
    BY DEF LooksBack
  <2>1. CASE q[2] \in Hash
    <3>1. f[back(q)] = g[back(q)] /\ f[in(q)] = g[in(q)]
      BY <1>3, <2>1
    <3>2. value(q, f) = value(q, g)
      BY <3>1
    <3> HIDE DEF value
    <3> QED BY <1>5, <3>2
  <2>2. CASE q[2] \notin Hash
    <3>1. value(q, f) = value(q, g)
      BY <2>2
    <3> HIDE DEF value
    <3> QED BY <1>5, <3>1
  <2> QED BY <2>1, <2>2
<1>7. V # {}
  BY SMTT(60) DEF V
<1>8. PICK f : Recurses(f, D, Summand, V)
  BY <1>2, <1>5, <1>6, <1>7 DEF RecursionLaw
<1>9. f = walk(f)
  <2> HIDE DEF value
  <2> QED BY <1>5, <1>8 DEF Recurses
<1>10. summation = walk(summation)
  BY <1>9 DEF summation
<1> DEFINE s == summation
<1> HIDE DEF s
<1>11. DOMAIN s = Summand /\ s = [q \in Summand |-> s[q]] /\ \A q \in Summand : s[q] = value(q, s)
  <2> HIDE DEF value
  <2> QED BY <1>10 DEF s
<1>12. s \in [Summand -> Int]
  <2> DEFINE Q == {q \in Summand : s[q] \in Int}
  <2>1. ASSUME NEW q \in Summand, \A r \in Summand : rank[r] < rank[q] => r \in Q PROVE q \in Q
    <3>1. CASE q[2] \in Hash
      <4>1. s[back(q)] \in Int /\ s[in(q)] \in Int
        BY <1>3, <2>1, <3>1
      <4>2. summed(q[1], q[2], s[back(q)], s[in(q)]) \in Int
        BY <1>1, <3>1, <4>1, SummedType
      <4>3. s[q] = summed(q[1], q[2], s[back(q)], s[in(q)])
        BY <1>11, <3>1, ConstantsAssumption, GenesisAssumption DEF Destination
      <4> QED BY <4>2, <4>3
    <3>2. CASE q[2] \notin Hash
      <4>1. s[q] = IF q[2] = GenesisAccount THEN Modulus - 1 ELSE 0
        BY <1>11, <3>2
      <4> QED BY SMTT(60), <4>1, ConstantsAssumption
    <3> QED BY <3>1, <3>2
  <2>2. Summand \subseteq Q
    <3> HIDE DEF Q
    <3> QED BY <1>2, <2>1 DEF RankLaw
  <2> QED BY <1>11, <2>2
<1>13. ASSUME NEW kind \in {"balance", "amount"}, NEW h \in Hash
       PROVE  s[<<kind, h>>] = summed(kind, h, s[<<"balance", Block[h].previous>>],
                                               s[<<"amount", Block[h].link>>])
  <2>1. <<kind, h>> \in Summand
    BY DEF Summand
  <2> QED BY <1>11, <2>1, ConstantsAssumption, GenesisAssumption DEF Destination
<1>14. s[<<"balance", Zero>>] = 0 /\ s[<<"amount", GenesisAccount>>] = Modulus - 1
  <2>1. /\ <<"balance", Zero>> \in Summand /\ <<"amount", GenesisAccount>> \in Summand
        /\ Zero \notin Hash /\ GenesisAccount \notin Hash /\ Zero # GenesisAccount
    BY ConstantsAssumption, GenesisAssumption DEF Summand, Destination
  <2> QED BY <1>11, <2>1
<1> QED BY <1>12, <1>13, <1>14 DEF s, SummationUnfolds

(* The balances on record are the recomputed ones.                          *)
LEMMA BalancesFollow ==
  ASSUME RankLaw, RecursionLaw, LedgerInv
  PROVE  /\ BalancesSumUp
         /\ \A h \in stored : balance(h) = summation[<<"balance", h>>]
<1>0. /\ TypeOK /\ BlocksOnPrevious /\ ChangesKeepBalance /\ ReceiversHaveSends /\ ReceiptsMatch
      /\ GenesisCemented /\ SummationUnfolds
  BY SummationFound DEF LedgerInv, ChainInv, SendInv, WorthInv, CementInv
<1> DEFINE S(kind, h) == summation[<<kind, h>>]
           Q == {h \in stored : /\ balance(h) = S("balance", h)
                                /\ sends(h) => amount(h) = S("amount", h)}
           rank == [h \in stored |-> Rank[h]]
<1>1. stored \subseteq Hash /\ Zero \notin Hash
  BY <1>0, ConstantsAssumption DEF TypeOK, stored
<1>2. rank \in [stored -> Nat] /\ \A h \in stored : rank[h] = Rank[h]
  BY <1>1, RankAssumption
<1>3. ASSUME NEW h \in stored, \A k \in stored : rank[k] < rank[h] => k \in Q
      PROVE  h \in Q
  <2> DEFINE previous == Block[h].previous
             link == Block[h].link
             type == Block[h].type
             before == S("balance", previous)
  <2>0. h \in Hash /\ h # Zero /\ type \in BlockType
    BY <1>1, Contents
  <2>1. \A kind \in {"balance", "amount"} : S(kind, h) = summed(kind, h, before, S("amount", link))
    BY <1>0, <2>0 DEF SummationUnfolds
  <2>2. balance(h) = IF type \in {"send", "state"} THEN Block[h].balance ELSE blocks[h].balance
    BY <2>0 DEF balance, block_balance_calculated
  <2>3. before = balance(previous)
    <3>1. CASE previous = Zero
      BY <1>0, <3>1 DEF balance, SummationUnfolds
    <3>2. CASE previous # Zero
      <4>1. previous \in stored
        BY <1>0, <3>2 DEF BlocksOnPrevious
      <4>2. Rank[previous] < Rank[h]
        BY <1>1, <2>0, <4>1, RankAssumption
      <4> QED BY <1>2, <1>3, <4>1, <4>2
    <3> QED BY <3>1, <3>2
  <2>4. ASSUME is_receiver(h) PROVE S("amount", link) = amount(link)
    <3>1. link \in stored /\ sends(link)
      BY <1>0, <2>4 DEF ReceiversHaveSends
    <3>2. Rank[link] < Rank[h]
      BY <1>1, <2>0, <3>1, RankAssumption
    <3> QED BY <1>2, <1>3, <3>1, <3>2
  <2> HIDE DEF S
  <2>5. sends(h) => amount(h) = S("amount", h)
    <3> SUFFICES ASSUME sends(h) PROVE amount(h) = S("amount", h)
      OBVIOUS
    <3>1. type \in {"send", "state"} /\ balance(h) = Block[h].balance
      BY <2>2 DEF sends
    <3>2. S("amount", h) = distance(Block[h].balance, before)
      BY <2>1, <3>1 DEF summed
    <3>3. before \in Int /\ Block[h].balance \in Int
      <4>1. previous = Zero \/ previous \in stored
        BY <1>0 DEF BlocksOnPrevious
      <4> QED BY SMTT(60), <1>0, <2>0, <2>3, <4>1, BalanceType, Contents DEF Amount
    <3>4. amount(h) = IF Block[h].balance > before THEN Block[h].balance - before
                      ELSE before - Block[h].balance
      BY <2>3, <3>1 DEF amount
    <3> QED BY SMTT(60), <3>2, <3>3, <3>4 DEF distance
  <2>6. balance(h) = S("balance", h)
    <3>1. CASE type \in {"send", "state"}
      BY <2>1, <2>2, <3>1 DEF summed
    <3>2. CASE type = "change"
      <4>1. S("balance", h) = before
        BY <2>1, <3>2 DEF summed
      <4> QED BY <1>0, <2>2, <2>3, <3>2, <4>1 DEF ChangesKeepBalance
    <3>3. CASE type = "open"
      <4>1. S("balance", h) = S("amount", link) /\ ~sends(h)
        BY <2>1, <3>3 DEF summed, sends
      <4>2. CASE h = GenesisHash
        BY <1>0, <2>2, <3>3, <4>1, <4>2, GenesisAssumption DEF SummationUnfolds, GenesisCemented, S
      <4>3. CASE h # GenesisHash
        <5>1. is_receiver(h)
          BY <3>3, <4>1, <4>3 DEF is_receiver
        <5> QED BY <1>0, <2>2, <2>4, <3>3, <4>1, <5>1 DEF ReceiptsMatch
      <4> QED BY <4>2, <4>3
    <3>4. CASE type = "receive"
      <4>1. S("balance", h) = (before + S("amount", link)) % Modulus
        BY <2>1, <3>4 DEF summed
      <4>2. is_receiver(h)
        BY <3>4, GenesisAssumption DEF is_receiver, sends
      <4>3. blocks[h].balance = (balance(previous) + amount(link)) % Modulus
        BY <1>0, <3>4, <4>2 DEF ReceiptsMatch
      <4> QED BY <2>2, <2>3, <2>4, <3>4, <4>1, <4>2, <4>3
    <3> QED BY <2>0, <3>1, <3>2, <3>3, <3>4 DEF BlockType
  <2> QED BY <2>5, <2>6
<1>4. stored \subseteq Q
  <2> HIDE DEF Q, rank
  <2> QED BY <1>2, <1>3 DEF RankLaw
<1>5. \A h \in stored : balance(h) = summation[<<"balance", h>>]
  BY <1>4
<1>6. \A h \in stored : balance(h) = block_balance_calculated(h)
  BY <1>1 DEF balance
<1> QED BY <1>5, <1>6 DEF BalancesSumUp, stored

-----------------------------------------------------------------------------
(* Conservation.  The accounts' balances and the amounts owed by the pending*)
(* table are two tables of numbers; a step changes each at one key at most. *)
balances == [a \in DOMAIN accounts |-> accounts[a].balance]
owing == [key \in DOMAIN pending |-> pending[key].amount]
Tallied(f) == IsFiniteSet(DOMAIN f) /\ \A x \in DOMAIN f : f[x] \in Nat

(* The books balance.                                                       *)
Books == Conservation /\ ReceiptsExact

(* What one table loses at a key the other gains.                           *)
LEMMA Transfer ==
  ASSUME SumLaws, NEW f, NEW u, NEW g, NEW v, NEW a, NEW k,
         Tallied(f), Tallied(u), Tallied(g), Tallied(v), Differ(f, u, a), Differ(g, v, k),
         part(u, a) + part(v, k) = part(f, a) + part(g, k)
  PROVE  SumFunction(u) + SumFunction(v) = SumFunction(f) + SumFunction(g)
<1>1. Summable(f) /\ Summable(u) /\ Summable(g) /\ Summable(v)
  BY SMTT(60) DEF Tallied, Summable
<1>2. /\ SumFunction(u) = SumFunction(f) - part(f, a) + part(u, a)
      /\ SumFunction(f) \in Int /\ part(f, a) \in Int /\ part(u, a) \in Int
  BY <1>1 DEF SumLaws
<1>3. /\ SumFunction(v) = SumFunction(g) - part(g, k) + part(v, k)
      /\ SumFunction(g) \in Int /\ part(g, k) \in Int /\ part(v, k) \in Int
  BY <1>1 DEF SumLaws
<1> QED BY SMTT(60), <1>2, <1>3

(* A balance and a pending amount together are at most the whole.           *)
LEMMA PartsWithin ==
  ASSUME SumLaws, NEW f, NEW g, NEW a, NEW k, Tallied(f), Tallied(g)
  PROVE  /\ part(f, a) + part(g, k) <= SumFunction(f) + SumFunction(g)
         /\ part(f, a) \in Nat /\ part(g, k) \in Nat
<1>1. SumFunction(f) \in Nat /\ part(f, a) \in Nat /\ part(f, a) <= SumFunction(f)
  BY DEF SumLaws, Tallied
<1>2. SumFunction(g) \in Nat /\ part(g, k) \in Nat /\ part(g, k) <= SumFunction(g)
  BY DEF SumLaws, Tallied
<1> QED BY SMTT(60), <1>1, <1>2

(* Both tables are finite, and what they hold are numbers.                  *)
LEMMA TablesTallied ==
  ASSUME CountLaws, NEW acc, NEW pend, NEW known,
         acc \in [DOMAIN acc -> AccountInfo], IsFiniteSet(DOMAIN acc),
         pend \in [DOMAIN pend -> PendingInfo], IsFiniteSet(known),
         \A key \in DOMAIN pend : key[2] \in known /\ key = <<Block[key[2]].link, key[2]>>
  PROVE  /\ Tallied([a \in DOMAIN acc |-> acc[a].balance])
         /\ Tallied([key \in DOMAIN pend |-> pend[key].amount])
<1>1. Amount \subseteq Nat
  BY SMTT(60), ConstantsAssumption DEF Amount
<1>2. Tallied([a \in DOMAIN acc |-> acc[a].balance])
  BY <1>1 DEF Tallied, AccountInfo
<1>3. IsFiniteSet(DOMAIN pend)
  <2> DEFINE key_of == [h \in known |-> <<Block[h].link, h>>]
             keys == {key_of[h] : h \in known}
  <2>1. IsFiniteSet(keys)
    <3> HIDE DEF key_of
    <3> QED BY SMTT(60) DEF CountLaws
  <2>2. DOMAIN pend \subseteq keys
    OBVIOUS
  <2> HIDE DEF keys
  <2> QED BY <2>1, <2>2 DEF CountLaws
<1>4. Tallied([key \in DOMAIN pend |-> pend[key].amount])
  BY <1>1, <1>3 DEF Tallied, PendingInfo
<1> QED BY <1>2, <1>4

(* So they are in every state that satisfies the invariant.                 *)
LEMMA TalliedBefore ==
  ASSUME CountLaws, LedgerInv
  PROVE  Tallied(balances) /\ Tallied(owing)
<1>1. /\ accounts \in [DOMAIN accounts -> AccountInfo] /\ IsFiniteSet(DOMAIN accounts)
      /\ pending \in [DOMAIN pending -> PendingInfo] /\ IsFiniteSet(stored)
      /\ \A key \in DOMAIN pending : key[2] \in stored /\ key = <<Block[key[2]].link, key[2]>>
  BY DEF LedgerInv, TypeOK, CountsRight, SendInv, PendingAreSends
<1> QED BY <1>1, TablesTallied DEF balances, owing

(* And in the state after a step.                                           *)
LEMMA TalliedAfter ==
  ASSUME CountLaws, LedgerInv'
  PROVE  Tallied(balances)' /\ Tallied(owing)'
<1>1. /\ accounts' \in [DOMAIN accounts' -> AccountInfo] /\ IsFiniteSet(DOMAIN accounts')
      /\ pending' \in [DOMAIN pending' -> PendingInfo] /\ IsFiniteSet(stored')
      /\ \A key \in DOMAIN pending' : key[2] \in stored' /\ key = <<Block[key[2]].link, key[2]>>
  BY DEF LedgerInv, TypeOK, CountsRight, SendInv, PendingAreSends
<1>2. /\ Tallied([a \in DOMAIN accounts' |-> accounts'[a].balance])
      /\ Tallied([key \in DOMAIN pending' |-> pending'[key].amount])
  BY <1>1, TablesTallied
<1> QED BY <1>2 DEF balances, owing, Tallied

(* A step that changes a balance and a pending amount conserves the whole.  *)
LEMMA Conserved ==
  ASSUME CountLaws, SumLaws, LedgerInv, LedgerInv', Conservation, NEW a, NEW k,
         Differ(balances, balances', a), Differ(owing, owing', k),
         part(balances', a) + part(owing', k) = part(balances, a) + part(owing, k)
  PROVE  Conservation'
<1> DEFINE f == balances
           u == balances'
           g == owing
           v == owing'
<1>1. Tallied(f) /\ Tallied(g)
  BY TalliedBefore
<1>2. Tallied(u) /\ Tallied(v)
  BY TalliedAfter DEF Tallied
<1>3. part(u, a) + part(v, k) = part(f, a) + part(g, k)
  OBVIOUS
<1>4. SumFunction(f) + SumFunction(g) = Modulus - 1
  BY DEF Conservation, balances, owing
<1>5. Differ(f, u, a) /\ Differ(g, v, k)
  OBVIOUS
<1> HIDE DEF f, u, g, v
<1>6. SumFunction(u) + SumFunction(v) = Modulus - 1
  BY SMTT(60), <1>1, <1>2, <1>3, <1>4, <1>5, Transfer
<1>7. SumFunction(balances)' + SumFunction(owing)' = Modulus - 1
  BY <1>6 DEF u, v, SumFunction
<1> QED BY <1>7 DEF Conservation, balances, owing

(* What an added block does to the balance of its account: it was the one   *)
(* before the block, and is the one the block leaves.                       *)
LEMMA AppendedBalance ==
  ASSUME LedgerInv, NEW b, Appended(b)
  PROVE  /\ Differ(balances, balances', owner(b))
         /\ part(balances, owner(b)) = balance(Block[b].previous)
         /\ part(balances', owner(b)) = accounts'[owner(b)].balance
         /\ balance(Block[b].previous) \in Amount
<1> DEFINE a == owner(b)
<1>0. TypeOK /\ HeadsStored /\ AppendedAccounts(b)
  BY DEF LedgerInv, ChainInv, Appended
<1>1. DOMAIN accounts' = DOMAIN accounts \cup {a}
      /\ \A x \in DOMAIN accounts : x # a => accounts'[x] = accounts[x]
  BY <1>0 DEF AppendedAccounts
<1>2. Differ(balances, balances', a)
  BY <1>1 DEF Differ, balances
<1>3. part(balances', a) = accounts'[a].balance
  BY <1>1 DEF part, balances
<1>4. CASE a \in DOMAIN accounts
  <2>1. Block[b].previous = accounts[a].head /\ Block[b].previous \in stored
        /\ accounts[a].balance = balance(Block[b].previous)
    BY <1>0, <1>4 DEF AppendedAccounts, HeadsStored
  <2>2. balance(Block[b].previous) \in Amount
    BY <1>0, <2>1, BalanceType
  <2> QED BY <1>2, <1>3, <1>4, <2>1, <2>2 DEF part, balances
<1>5. CASE a \notin DOMAIN accounts
  <2>1. Block[b].previous = Zero
    BY <1>0, <1>5 DEF AppendedAccounts
  <2>2. balance(Block[b].previous) \in Amount
    BY <1>0, <2>1, BalanceType
  <2>3. balance(Block[b].previous) = 0
    BY <2>1 DEF balance
  <2> QED BY <1>2, <1>3, <1>5, <2>2, <2>3 DEF part, balances
<1> QED BY <1>4, <1>5

(* A receive that is added takes over just what was pending.                *)
LEMMA AppendedReceipt ==
  ASSUME CountLaws, SumLaws, LedgerInv, Conservation, NEW b, Appended(b), is_receiver(b)
  PROVE  LET key == <<owner(b), Block[b].link>>
         IN /\ key \in DOMAIN pending /\ pending' = Del(pending, key)
            /\ pending[key].amount \in Nat
            /\ accounts'[owner(b)].balance = balance(Block[b].previous) + pending[key].amount
<1> DEFINE key == <<owner(b), Block[b].link>>
           a == owner(b)
           before == balance(Block[b].previous)
           sent == pending[key].amount
           after == accounts'[a].balance
<1>1. key \in DOMAIN pending /\ pending' = Del(pending, key)
  BY DEF Appended, AppendedPending, is_receiver
<1>2. sent \in Nat /\ part(owing, key) = sent
  <2>1. part(owing, key) = sent
    BY <1>1 DEF part, owing
  <2>2. Tallied(owing)
    BY TalliedBefore
  <2>3. owing[key] = sent /\ key \in DOMAIN owing
    BY <1>1 DEF owing
  <2> QED BY <2>1, <2>2, <2>3 DEF Tallied
<1>3. before \in 0 .. Modulus - 1 /\ part(balances, a) = before /\ Modulus \in Nat
  BY AppendedBalance, ConstantsAssumption DEF Amount
<1>4. before + sent <= Modulus - 1
  <2>1. Tallied(balances) /\ Tallied(owing)
    BY TalliedBefore
  <2>2. SumFunction(balances) + SumFunction(owing) = Modulus - 1
    BY DEF Conservation, balances, owing
  <2> HIDE DEF a, key, before, sent
  <2>3. part(balances, a) + part(owing, key) <= SumFunction(balances) + SumFunction(owing)
    BY <2>1, PartsWithin
  <2> QED BY <1>2, <1>3, <2>2, <2>3
<1>5. /\ Block[b].type = "state" => Block[b].balance - before = sent
      /\ Block[b].type = "open" => blocks'[b].balance = sent
      /\ Block[b].type = "receive" => blocks'[b].balance = (before + sent) % Modulus
  BY DEF Appended, AppendedWorth
<1>6. after = IF Block[b].type = "state" THEN Block[b].balance ELSE blocks'[b].balance
  <2>1. Block[b].type # "send"
    BY DEF is_receiver, sends
  <2>2. after = block_balance_calculated(b)'
    BY DEF Appended, AppendedAccounts
  <2> QED BY <2>1, <2>2 DEF block_balance_calculated
<1>7. Block[b].type \in {"state", "open", "receive"} /\ b \in Hash /\ Block[b].balance \in Int
  BY Contents DEF is_receiver, Appended, AppendedBlocks
<1>8. Block[b].type = "open" => before = 0
  BY <1>7, BlockAssumption DEF balance
<1> HIDE DEF before, sent, after, key, a
<1>9. after = before + sent
  <2>1. CASE Block[b].type = "state"
    BY SMTT(60), <1>2, <1>3, <1>5, <1>6, <1>7, <2>1
  <2>2. CASE Block[b].type = "open"
    BY SMTT(60), <1>2, <1>3, <1>5, <1>6, <1>8, <2>2
  <2>3. CASE Block[b].type = "receive"
    BY SMTT(60), <1>2, <1>3, <1>4, <1>5, <1>6, <2>3
  <2> QED BY <1>7, <2>1, <2>2, <2>3
<1> QED BY <1>1, <1>2, <1>9 DEF before, sent, after, key, a

(* An added block moves an amount between its account and the pending       *)
(* table, or moves none.                                                    *)
LEMMA AppendedConserves ==
  ASSUME CountLaws, SumLaws, LedgerInv, LedgerInv', Conservation, NEW b, Appended(b)
  PROVE  Conservation'
<1> DEFINE a == owner(b)
           before == balance(Block[b].previous)
           after == accounts'[a].balance
<1>0. /\ Differ(balances, balances', a) /\ part(balances, a) = before
      /\ part(balances', a) = after /\ before \in Amount
  BY AppendedBalance
<1>1. b \in Hash /\ b \notin stored /\ after = block_balance_calculated(b)'
  BY DEF Appended, AppendedBlocks, AppendedAccounts
<1>2. before \in Int /\ Block[b].balance \in Int
  BY SMTT(60), <1>0, <1>1, Contents, ConstantsAssumption DEF Amount
<1>3. CASE sends(b)
  <2> DEFINE k == <<Block[b].link, b>>
  <2>1. k \notin DOMAIN pending
    BY <1>1 DEF LedgerInv, SendInv, PendingAreSends
  <2>2. PICK info : pending' = Put(pending, k, info)
    BY <1>3 DEF Appended, AppendedPending, is_receiver
  <2>3. pending'[k].amount = before - Block[b].balance
    BY <1>3 DEF Appended, AppendedWorth
  <2>4. after = Block[b].balance
    BY <1>1, <1>3 DEF sends, block_balance_calculated
  <2>5. Differ(owing, owing', k)
    BY <2>2 DEF Differ, owing, Put
  <2>6. part(owing, k) = 0
    BY <2>1 DEF part, owing
  <2>7. part(owing', k) = before - Block[b].balance
    BY <2>2, <2>3 DEF part, owing, Put
  <2> HIDE DEF a, before, after, k
  <2>8. part(balances', a) + part(owing', k) = part(balances, a) + part(owing, k)
    BY SMTT(60), <1>0, <1>2, <2>4, <2>6, <2>7
  <2> QED BY <1>0, <2>5, <2>8, Conserved DEF a, k
<1>4. CASE is_receiver(b)
  <2> DEFINE k == <<a, Block[b].link>>
             sent == pending[k].amount
  <2>1. /\ k \in DOMAIN pending /\ pending' = Del(pending, k) /\ sent \in Nat
        /\ after = before + sent
    BY <1>4, AppendedReceipt
  <2>2. Differ(owing, owing', k)
    BY <2>1 DEF Differ, owing, Del
  <2>3. part(owing, k) = sent
    BY <2>1 DEF part, owing
  <2>4. part(owing', k) = 0
    BY <2>1 DEF part, owing, Del
  <2> HIDE DEF a, before, after, k, sent
  <2>5. part(balances', a) + part(owing', k) = part(balances, a) + part(owing, k)
    BY SMTT(60), <1>0, <1>2, <2>1, <2>3, <2>4
  <2> QED BY <1>0, <2>2, <2>5, Conserved DEF a, k
<1>5. CASE ~sends(b) /\ ~is_receiver(b)
  <2>1. pending' = pending
    BY <1>5 DEF Appended, AppendedPending
  <2>2. b # GenesisHash
    BY <1>1 DEF LedgerInv, CementInv, GenesisCemented
  <2>3. Block[b].type \in {"change", "state"}
    BY <1>1, <1>5, <2>2, Contents DEF is_receiver, sends, BlockType
  <2>4. after = before
    <3>1. Block[b].type = "state" => Block[b].balance = before
      BY <1>5 DEF Appended, AppendedWorth
    <3>2. Block[b].type = "change" => blocks'[b].balance = before
      BY DEF Appended, AppendedAccounts
    <3> QED BY <1>1, <2>3, <3>1, <3>2 DEF block_balance_calculated
  <2>5. owing' = owing /\ Differ(owing, owing', a)
    BY <2>1 DEF owing, Differ
  <2> HIDE DEF a, before, after
  <2>6. part(balances', a) + part(owing', a) = part(balances, a) + part(owing, a)
    BY <1>0, <2>4, <2>5
  <2> QED BY <1>0, <2>5, <2>6, Conserved DEF a
<1> QED BY <1>3, <1>4, <1>5

(* The receives on record stay exact, and so is an added one.               *)
LEMMA AppendedExact ==
  ASSUME CountLaws, SumLaws, LedgerInv, Books, NEW b, Appended(b)
  PROVE  ReceiptsExact'
<1>0. /\ AppendedReads(b) /\ AppendedValues(b) /\ AppendedBlocks(b) /\ ReceiptsExact
      /\ ReceiversHaveSends /\ Conservation /\ PendingExact /\ PendingAreSends
  BY AppendedFacts, AppendedKeepsValues DEF Appended, Books, LedgerInv, SendInv, WorthInv
<1> SUFFICES ASSUME NEW r \in stored', is_receiver(r)', Block[r].type = "receive"
             PROVE  blocks'[r].balance = balance(Block[r].previous)' + amount(Block[r].link)'
  BY DEF ReceiptsExact
<1>1. r \in stored \cup {b} /\ is_receiver(r)
      /\ balance(Block[r].previous)' = balance(Block[r].previous)
  BY <1>0 DEF AppendedBlocks, AppendedReads, AppendedValues
<1>2. CASE r \in stored
  <2>1. Block[r].link \in stored
    BY <1>0, <1>1, <1>2 DEF ReceiversHaveSends
  <2>2. amount(Block[r].link)' = amount(Block[r].link)
    BY <1>0, <2>1 DEF AppendedValues
  <2>3. blocks'[r].balance = blocks[r].balance
    BY <1>0, <1>2 DEF AppendedBlocks, Kept
  <2> QED BY <1>0, <1>1, <1>2, <2>2, <2>3 DEF ReceiptsExact
<1>3. CASE r = b
  <2> DEFINE key == <<owner(b), Block[b].link>>
  <2>1. /\ key \in DOMAIN pending
        /\ accounts'[owner(b)].balance = balance(Block[b].previous) + pending[key].amount
    BY <1>0, <1>1, <1>3, AppendedReceipt
  <2>2. key[2] \in stored /\ pending[key].amount = amount(key[2]) /\ key[2] = Block[b].link
    BY <1>0, <2>1 DEF PendingExact, PendingAreSends
  <2>3. amount(Block[b].link)' = amount(Block[b].link)
    BY <1>0, <2>2 DEF AppendedValues
  <2>4. accounts'[owner(b)].balance = blocks'[b].balance
    BY <1>3 DEF Appended, AppendedAccounts, block_balance_calculated
  <2> QED BY <1>1, <1>3, <2>1, <2>2, <2>3, <2>4
<1> QED BY <1>1, <1>2, <1>3

(* What an undone block does to the balance of its account.                 *)
LEMMA RemovedBalance ==
  ASSUME LedgerInv, NEW h, Removed(h)
  PROVE  /\ Differ(balances, balances', owner(h))
         /\ part(balances, owner(h)) = balance(h)
         /\ part(balances', owner(h)) = balance(Block[h].previous)
         /\ balance(Block[h].previous) \in Amount /\ balance(h) \in Amount
         /\ h \in Hash /\ h # GenesisHash
<1> DEFINE a == owner(h)
           previous == Block[h].previous
<1>0. /\ TypeOK /\ HeadsStored /\ BlocksOwned /\ HeightsKnown /\ GenesisCemented
      /\ RemovedAccounts(h) /\ RemovedReads(h)
  BY RemovedFacts DEF LedgerInv, ChainInv, CementInv, Removed
<1>1. /\ a \in DOMAIN accounts /\ accounts[a].head = h /\ h \in stored /\ h \in Hash
      /\ DOMAIN accounts' = IF previous = Zero THEN DOMAIN accounts \ {a} ELSE DOMAIN accounts
      /\ \A x \in DOMAIN accounts' : x # a => accounts'[x] = accounts[x]
      /\ previous # Zero => accounts'[a].balance = balance(previous) /\ previous \in stored
  BY <1>0 DEF RemovedAccounts, RemovedReads
<1>2. Differ(balances, balances', a)
  BY <1>1 DEF Differ, balances
<1>3. part(balances, a) = balance(h)
  BY <1>0, <1>1 DEF part, balances, HeadsStored
<1>4. part(balances', a) = balance(previous)
  <2>1. CASE previous = Zero
    BY <1>1, <2>1 DEF part, balances, balance
  <2>2. CASE previous # Zero
    BY <1>1, <2>2 DEF part, balances
  <2> QED BY <2>1, <2>2
<1>5. balance(previous) \in Amount /\ balance(h) \in Amount
  BY <1>0, <1>1, BalanceType
<1>6. h # GenesisHash
  <2>1. blocks[h].height > confirmation_height[a].height
    BY <1>0 DEF RemovedAccounts
  <2>2. blocks[h].height \in Nat /\ confirmation_height[a].height \in Nat
    BY <1>0, <1>1 DEF RemovedReads, TypeOK, HeightsKnown, HeightInfo
  <2> QED BY SMTT(60), <1>0, <1>1, <2>1, <2>2, Confirmed DEF GenesisCemented
<1> QED BY <1>1, <1>2, <1>3, <1>4, <1>5, <1>6

(* What an undone block gives back or takes is what it moved.               *)
LEMMA RemovedAmount ==
  ASSUME LedgerInv, ReceiptsExact, NEW h, Removed(h)
  PROVE  /\ sends(h) => amount(h) = balance(Block[h].previous) - balance(h)
         /\ is_receiver(h) => balance(h) = balance(Block[h].previous) + amount(Block[h].link)
         /\ ~sends(h) /\ ~is_receiver(h) => balance(h) = balance(Block[h].previous)
<1> DEFINE before == balance(Block[h].previous)
           type == Block[h].type
           sent == amount(Block[h].link)
<1>0. /\ SendsPay /\ ReceiptsMatch /\ OthersKeepBalance /\ ChangesKeepBalance
      /\ ReceiversHaveSends /\ BlocksOnPrevious /\ TypeOK
  BY DEF LedgerInv, WorthInv, ChainInv, SendInv
<1>1. /\ h \in stored /\ h \in Hash /\ h # GenesisHash /\ h # Zero /\ type \in BlockType
      /\ Block[h].balance \in Int
  BY RemovedBalance, Contents DEF Removed, RemovedBlocks
<1>2. before \in Int /\ balance(h) \in Int /\ 0 <= before
  BY SMTT(60), RemovedBalance, ConstantsAssumption DEF Amount
<1>3. balance(h) = IF type \in {"send", "state"} THEN Block[h].balance ELSE blocks[h].balance
  BY <1>1 DEF balance, block_balance_calculated
<1>4. CASE sends(h)
  <2>1. type \in {"send", "state"} /\ Block[h].balance <= before
    BY SMTT(60), <1>0, <1>1, <1>2, <1>4 DEF sends, SendsPay
  <2>2. balance(h) <= before
    BY <1>3, <2>1
  <2>3. amount(h) = before - balance(h)
    <3>1. amount(h) = IF balance(h) > before THEN balance(h) - before ELSE before - balance(h)
      BY DEF amount
    <3> HIDE DEF before
    <3> QED BY SMTT(60), <1>2, <2>2, <3>1
  <2> QED BY <1>4, <2>3 DEF is_receiver
<1>5. CASE is_receiver(h)
  <2>1. /\ type \in {"state", "open", "receive"}
        /\ type = "state" => Block[h].balance - before = sent
        /\ type = "open" => blocks[h].balance = sent
        /\ type = "receive" => blocks[h].balance = before + sent
    BY <1>0, <1>1, <1>5 DEF is_receiver, ReceiptsMatch, ReceiptsExact
  <2>2. type = "open" => before = 0
    BY <1>1, BlockAssumption DEF balance
  <2>3. sent \in Int
    <3>1. Block[h].link \in stored
      BY <1>0, <1>1, <1>5 DEF ReceiversHaveSends
    <3>2. balance(Block[h].link) \in Int
      BY SMTT(60), <1>0, <3>1, BalanceType, ConstantsAssumption DEF Amount
    <3>3. balance(Block[Block[h].link].previous) \in Int
      BY SMTT(60), <1>0, <3>1, BalanceType, ConstantsAssumption DEF Amount, BlocksOnPrevious
    <3> QED BY SMTT(60), <3>2, <3>3 DEF amount
  <2> HIDE DEF before, sent
  <2>4. balance(h) = before + sent
    BY SMTT(60), <1>1, <1>2, <1>3, <2>1, <2>2, <2>3
  <2> QED BY <1>5, <2>4 DEF is_receiver, before, sent
<1>6. CASE ~sends(h) /\ ~is_receiver(h)
  <2>1. type \in {"change", "state"}
    BY <1>1, <1>6 DEF is_receiver, sends, BlockType
  <2> QED BY <1>0, <1>1, <1>3, <1>6, <2>1 DEF ChangesKeepBalance, OthersKeepBalance
<1> QED BY <1>4, <1>5, <1>6

(* An undone block moves it back.                                           *)
LEMMA RemovedConserves ==
  ASSUME CountLaws, SumLaws, LedgerInv, LedgerInv', Books, NEW h, Removed(h)
  PROVE  Conservation'
<1> DEFINE a == owner(h)
           before == balance(Block[h].previous)
           now == balance(h)
<1>0. /\ Differ(balances, balances', a) /\ part(balances, a) = now
      /\ part(balances', a) = before /\ before \in Int /\ now \in Int
      /\ Conservation /\ ReceiptsExact
  BY SMTT(60), RemovedBalance, ConstantsAssumption DEF Amount, Books
<1>1. /\ sends(h) => amount(h) = before - now
      /\ is_receiver(h) => now = before + amount(Block[h].link)
      /\ ~sends(h) /\ ~is_receiver(h) => now = before
  BY <1>0, RemovedAmount
<1>2. CASE sends(h)
  <2> DEFINE k == <<Block[h].link, h>>
  <2>1. k \in DOMAIN pending /\ pending' = Del(pending, k)
    BY <1>2 DEF Removed, RemovedPending, is_receiver
  <2>2. pending[k].amount = before - now
    BY <1>1, <1>2, <2>1 DEF LedgerInv, WorthInv, PendingExact
  <2>3. Differ(owing, owing', k)
    BY <2>1 DEF Differ, owing, Del
  <2>4. part(owing, k) = before - now
    BY <2>1, <2>2 DEF part, owing
  <2>5. part(owing', k) = 0
    BY <2>1 DEF part, owing, Del
  <2> HIDE DEF a, before, now, k
  <2>6. part(balances', a) + part(owing', k) = part(balances, a) + part(owing, k)
    BY SMTT(60), <1>0, <2>4, <2>5
  <2> QED BY <1>0, <2>3, <2>6, Conserved DEF a, k
<1>3. CASE is_receiver(h)
  <2> DEFINE k == <<a, Block[h].link>>
             sent == amount(Block[h].link)
  <2>1. PICK info : pending' = Put(pending, k, info)
    BY <1>3 DEF Removed, RemovedPending, is_receiver
  <2>2. k \notin DOMAIN pending
    BY <1>3 DEF LedgerInv, SendInv, PendingNotReceived, Removed, RemovedBlocks
  <2>3. pending'[k].amount = sent
    BY <1>3 DEF Removed, RemovedWorth
  <2>4. Differ(owing, owing', k)
    BY <2>1 DEF Differ, owing, Put
  <2>5. part(owing, k) = 0
    BY <2>2 DEF part, owing
  <2>6. part(owing', k) = sent
    BY <2>1, <2>3 DEF part, owing, Put
  <2>7. sent \in Int
    <3>1. k \in DOMAIN pending' /\ pending' \in [DOMAIN pending' -> PendingInfo]
      BY <2>1 DEF Put, LedgerInv, TypeOK
    <3> QED BY SMTT(60), <2>3, <3>1, ConstantsAssumption DEF PendingInfo, Amount
  <2> HIDE DEF a, before, now, k, sent
  <2>8. now = before + sent
    BY <1>1, <1>3 DEF sent
  <2>9. part(balances', a) + part(owing', k) = part(balances, a) + part(owing, k)
    BY SMTT(60), <1>0, <2>5, <2>6, <2>7, <2>8
  <2> QED BY <1>0, <2>4, <2>9, Conserved DEF a, k
<1>4. CASE ~sends(h) /\ ~is_receiver(h)
  <2>1. pending' = pending
    BY <1>4 DEF Removed, RemovedPending
  <2>2. owing' = owing /\ Differ(owing, owing', a)
    BY <2>1 DEF owing, Differ
  <2>3. now = before
    BY <1>1, <1>4
  <2> HIDE DEF a, before, now
  <2>4. part(balances', a) + part(owing', a) = part(balances, a) + part(owing, a)
    BY <1>0, <2>2, <2>3
  <2> QED BY <1>0, <2>2, <2>4, Conserved DEF a
<1> QED BY <1>2, <1>3, <1>4

(* The receives that stay on record stay exact.                             *)
LEMMA RemovedExact ==
  ASSUME LedgerInv, ReceiptsExact, NEW h, Removed(h)
  PROVE  ReceiptsExact'
<1>0. RemovedReads(h) /\ RemovedValues(h) /\ ReceiversHaveSends
  BY RemovedFacts, RemovedKeepsValues DEF LedgerInv, SendInv
<1> SUFFICES ASSUME NEW r \in stored', is_receiver(r)', Block[r].type = "receive"
             PROVE  blocks'[r].balance = balance(Block[r].previous)' + amount(Block[r].link)'
  BY DEF ReceiptsExact
<1>1. /\ r \in stored /\ is_receiver(r) /\ blocks'[r].balance = blocks[r].balance
      /\ balance(Block[r].previous)' = balance(Block[r].previous) /\ Block[r].link # h
  BY <1>0 DEF RemovedReads, RemovedValues
<1>2. Block[r].link \in stored'
  BY <1>0, <1>1 DEF ReceiversHaveSends, RemovedReads
<1>3. amount(Block[r].link)' = amount(Block[r].link)
  BY <1>0, <1>2 DEF RemovedValues
<1> QED BY <1>1, <1>3 DEF ReceiptsExact

(* A new ledger holds the genesis amount.                                   *)
LEMMA InitBooks ==
  ASSUME SumLaws, Init
  PROVE  Books
<1>1. /\ DOMAIN balances = {GenesisAccount} /\ balances[GenesisAccount] = Modulus - 1
      /\ DOMAIN owing = {} /\ Modulus - 1 \in Int
  BY SMTT(60), ConstantsAssumption DEF Init, balances, owing, account_info
<1>2. SumFunction(balances) = Modulus - 1 /\ SumFunction(owing) = 0
  BY <1>1 DEF SumLaws
<1>3. Conservation
  BY SMTT(60), <1>1, <1>2 DEF Conservation, balances, owing
<1>4. ReceiptsExact
  BY DEF Init, ReceiptsExact, stored, is_receiver
<1> QED BY <1>3, <1>4 DEF Books

(* A step that changes no table changes no sum.                             *)
LEMMA SameBooks ==
  ASSUME Books, UNCHANGED <<blocks, accounts, pending>>
  PROVE  Books'
<1>1. ReceiptsExact'
  <2>1. \A h : balance(h)' = balance(h)
    BY DEF balance, block_balance_calculated
  <2>2. \A h : amount(h)' = amount(h) /\ is_receiver(h)' = is_receiver(h)
    BY <2>1 DEF amount, is_receiver, sends
  <2> QED BY <2>1, <2>2 DEF Books, ReceiptsExact, stored
<1>2. balances' = balances /\ owing' = owing
  BY DEF balances, owing
<1>3. Conservation'
  BY DEF Books, Conservation
<1> QED BY <1>1, <1>3 DEF Books

-----------------------------------------------------------------------------
(* Weights.                                                                 *)

(* The weights when a block is added: no send waits then.                   *)
LEMMA AppendedRepresentation ==
  ASSUME SumLaws, LedgerInv, LedgerInv', RepWeightsDelegated, NEW b, Appended(b)
  PROVE  RepWeightsDelegated'
<1> DEFINE a == owner(b)
           old == account_get(a)
<1>1. /\ DOMAIN accounts' = DOMAIN accounts \cup {a}
      /\ \A x \in DOMAIN accounts : x # a => accounts'[x] = accounts[x]
      /\ stack = <<>> /\ stack' = <<>>
  BY DEF Appended, AppendedAccounts
<1>2. 1 .. Len(stack) = {} /\ 1 .. Len(stack)' = {}
  BY SMTT(60), <1>1
<1>3. \A x : /\ standing(x) = [representative |-> accounts[x].representative,
                               balance |-> accounts[x].balance]
             /\ standing(x)' = [representative |-> accounts'[x].representative,
                                balance |-> accounts'[x].balance]
  BY <1>2 DEF standing, waits
<1>4. \A x, r : /\ delegated(x, r) = delegation(accounts[x], r)
                /\ delegated(x, r)' = delegation(accounts'[x], r)
  BY <1>3 DEF delegated, delegation
<1>5. ASSUME NEW r \in Account
      PROVE  /\ Differ(weighed(r), weighed(r)', a)
             /\ part(weighed(r), a) = delegation(old, r)
             /\ part(weighed(r)', a) = delegation(accounts'[a], r)
  <2>1. weighed(r) = [x \in DOMAIN accounts |-> delegation(accounts[x], r)]
    BY <1>4 DEF weighed
  <2>2. weighed(r)' = [x \in DOMAIN accounts' |-> delegation(accounts'[x], r)]
    BY <1>4 DEF weighed
  <2>3. Differ(weighed(r), weighed(r)', a)
    BY <1>1, <2>1, <2>2 DEF Differ
  <2>4. part(weighed(r)', a) = delegation(accounts'[a], r)
    BY <1>1, <2>2 DEF part
  <2>5. part(weighed(r), a) = delegation(old, r)
    <3>1. CASE a \in DOMAIN accounts
      BY <2>1, <3>1 DEF part, account_get
    <3>2. CASE a \notin DOMAIN accounts
      BY <2>1, <3>2, NoInfoFields DEF part, account_get, delegation
    <3> QED BY <3>1, <3>2
  <2> QED BY <2>3, <2>4, <2>5
<1>6. Moved(rep_weights, rep_weights', old, accounts'[a])
  BY DEF Appended, AppendedWeights
<1> HIDE DEF a, old
<1> QED BY SMTT(60), <1>5, <1>6, WeightsFollow

(* Which sends wait when the head of an account is undone: those of other   *)
(* accounts do as before, the block below the head does not.                *)
LEMMA RemovedWaits ==
  ASSUME LedgerInv, NEW h, Removed(h)
  PROVE  /\ \A x \in DOMAIN accounts : x # owner(h) =>
              waits(accounts[x].head)' = waits(accounts[x].head)
         /\ Block[h].previous # Zero => ~waits(Block[h].previous)'
         /\ waits(h) <=> Block[h].type = "state" /\ sends(h)
<1> DEFINE n == Len(stack)
           a == owner(h)
           previous == Block[h].previous
<1>0. /\ stack \in Seq(Frame) /\ VisitedAreHeads /\ HeadsStored /\ RemovedAccounts(h)
      /\ RemovedReads(h) /\ RemovedWeights(h) /\ BlocksOnPrevious
  BY RemovedFacts DEF LedgerInv, TypeOK, StackInv, ChainInv, Removed
<1>1. /\ n \in 1 .. n /\ Len(stack') = n /\ stack'[n].visit = Zero
      /\ stack[n].account = a /\ stack[n].block \in stored
      /\ \A i \in 1 .. n : i # n => stack'[i] = stack[i]
  <2>1. RemovedStack(h)
    BY DEF Removed
  <2>2. stack \in Seq(Frame)
    BY <1>0
  <2> QED BY SMTT(60), <2>1, <2>2 DEF RemovedStack, top
<1>2. a \in DOMAIN accounts /\ accounts[a].head = h /\ h \in stored /\ h # Zero
  BY <1>0 DEF RemovedAccounts, RemovedReads
<1>3. stack[n].visit = Zero \/ stack[n].visit = h
  BY <1>0, <1>1, <1>2 DEF VisitedAreHeads
<1>4. ASSUME NEW i \in 1 .. n, stack[i].visit # Zero
      PROVE  /\ accounts[owner(stack[i].visit)].head = stack[i].visit
             /\ owner(stack[i].visit) \in DOMAIN accounts /\ sends(stack[i].visit)
  BY <1>0, <1>4 DEF VisitedAreHeads, HeadsStored
<1>5. ASSUME NEW x \in DOMAIN accounts, x # a
      PROVE  waits(accounts[x].head)' = waits(accounts[x].head)
  <2> SUFFICES ASSUME NEW k, k = accounts[x].head
               PROVE  waits(accounts[x].head)' = waits(k)
    OBVIOUS
  <2>1. k # Zero /\ k # h /\ owner(k) = x
    BY <1>0, <1>2, <1>5 DEF HeadsStored, RemovedReads
  <2>2. accounts'[x].head = k
    <3>1. x \in DOMAIN accounts'
      BY <1>0, <1>5 DEF RemovedAccounts
    <3> QED BY <1>0, <1>5, <3>1 DEF RemovedAccounts
  <2>3. \A i \in 1 .. n : stack'[i].visit = k <=> stack[i].visit = k
    BY <1>1, <1>3, <2>1
  <2>4. (\E i \in 1 .. Len(stack') : stack'[i].visit = k)
        <=> (\E i \in 1 .. Len(stack) : stack[i].visit = k)
    BY <1>1, <2>3
  <2> QED BY <2>2, <2>4 DEF waits
<1>6. ASSUME previous # Zero
      PROVE  ~waits(previous)'
  <2>1. previous \in stored /\ previous # h /\ owner(previous) = a
    BY <1>0, <1>2, <1>6 DEF RemovedReads, BlocksOnPrevious
  <2>2. \A i \in 1 .. n : stack'[i].visit # previous
    BY <1>1, <1>2, <1>4, <1>6, <2>1
  <2> QED BY <1>1, <2>2 DEF waits
<1>7. waits(h) <=> Block[h].type = "state" /\ sends(h)
  <2>1. Block[h].type = "state" /\ sends(h) => stack[n].visit = h
    BY <1>0 DEF RemovedWeights
  <2>2. waits(h) => sends(h)
    BY <1>2, <1>4 DEF waits
  <2> QED BY <1>1, <2>1, <2>2 DEF waits
<1> QED BY <1>5, <1>6, <1>7

(* The weights when a block is undone.                                      *)
LEMMA RemovedRepresentation ==
  ASSUME SumLaws, LedgerInv, LedgerInv', RepWeightsDelegated, NEW h, Removed(h)
  PROVE  RepWeightsDelegated'
<1> DEFINE a == owner(h)
           previous == Block[h].previous
           now == IF previous = Zero THEN NoInfo ELSE accounts'[a]
<1>0. /\ TypeOK /\ HeadsStored /\ HeadsInForce /\ RemovedAccounts(h) /\ RemovedReads(h)
      /\ RemovedValues(h) /\ RemovedWeights(h) /\ RemovedWorth(h)
  BY RemovedFacts, RemovedKeepsValues DEF LedgerInv, ChainInv, WorthInv, Removed
<1>1. /\ a \in DOMAIN accounts /\ accounts[a].head = h /\ h \in stored /\ h \in Hash
      /\ DOMAIN accounts' = IF previous = Zero THEN DOMAIN accounts \ {a} ELSE DOMAIN accounts
      /\ \A x \in DOMAIN accounts' : x # a => accounts'[x] = accounts[x]
  BY <1>0 DEF RemovedAccounts, RemovedReads
<1>2. /\ \A x \in DOMAIN accounts : x # a => waits(accounts[x].head)' = waits(accounts[x].head)
      /\ previous # Zero => ~waits(previous)'
      /\ waits(h) <=> Block[h].type = "state" /\ sends(h)
  BY RemovedWaits
<1>3. ASSUME NEW x \in DOMAIN accounts', x # a
      PROVE  standing(x)' = standing(x)
  <2>1. x \in DOMAIN accounts /\ accounts'[x] = accounts[x]
    BY <1>1, <1>3
  <2>2. waits(accounts[x].head)' = waits(accounts[x].head)
    BY <1>2, <1>3, <2>1
  <2>3. accounts[x].head \in stored'
    BY <1>0, <1>1, <1>3, <2>1 DEF HeadsStored, RemovedReads
  <2>4. balance(Block[accounts[x].head].previous)' = balance(Block[accounts[x].head].previous)
    <3> SUFFICES ASSUME NEW k, k = accounts[x].head
                 PROVE  balance(Block[k].previous)' = balance(Block[k].previous)
      BY <2>1 DEF balance, block_balance_calculated
    <3> QED BY <1>0, <2>3 DEF RemovedValues
  <2> QED BY <2>1, <2>2, <2>4 DEF standing, representative_before
<1>4. previous # Zero => standing(a)' = [representative |-> now.representative,
                                         balance |-> now.balance]
  <2>1. previous # Zero => accounts'[a].head = previous
    BY <1>0 DEF RemovedAccounts
  <2> QED BY <1>2, <2>1 DEF standing, waits
<1>5. ASSUME NEW r \in Account
      PROVE  /\ Differ(weighed(r), weighed(r)', a)
             /\ part(weighed(r), a) = delegation(standing(a), r)
             /\ part(weighed(r)', a) = delegation(now, r)
  <2>1. Differ(weighed(r), weighed(r)', a)
    BY SMTT(60), <1>1, <1>3 DEF Differ, weighed, delegated
  <2>2. part(weighed(r), a) = delegation(standing(a), r)
    BY <1>1 DEF part, weighed, delegated, delegation
  <2>3. part(weighed(r)', a) = delegation(now, r)
    <3>1. CASE previous = Zero
      BY <1>1, <3>1, NoInfoFields DEF part, weighed, delegation
    <3>2. CASE previous # Zero
      BY SMTT(60), <1>1, <1>4, <3>2 DEF part, weighed, delegated, delegation
    <3> QED BY <3>1, <3>2
  <2> QED BY <2>1, <2>2, <2>3
<1>6. Moved(rep_weights, rep_weights', standing(a), now)
  <2>1. CASE Block[h].type = "state" /\ sends(h)
    <3>1. previous # Zero
      BY SMTT(60), <1>1, <2>1, Contents, ConstantsAssumption DEF sends, balance, Amount
    <3>2. standing(a) = [representative |-> representative_before(h),
                         balance |-> balance(previous)]
      BY <1>1, <1>2, <2>1 DEF standing
    <3>3. now.representative = representative_before(h) /\ now.balance = balance(previous)
      BY <1>0, <3>1 DEF RemovedWorth, RemovedAccounts, representative_before
    <3>4. rep_weights' = rep_weights /\ rep_weights \in [Account -> Amount]
      BY <1>0, <2>1 DEF RemovedWeights, TypeOK
    <3>5. standing(a).balance \in Int
      BY SMTT(60), <1>1, StandingType, ConstantsAssumption DEF Amount
    <3>6. now.representative = standing(a).representative /\ now.balance = standing(a).balance
      BY SMTT(60), <3>2, <3>3
    <3> HIDE DEF a, now
    <3> QED BY <3>4, <3>5, <3>6, MovedNone
  <2>2. CASE ~(Block[h].type = "state" /\ sends(h))
    <3>1. Moved(rep_weights, rep_weights', accounts[a], now)
      BY <1>0, <2>2 DEF RemovedWeights
    <3>2. standing(a) = [representative |-> accounts[a].representative,
                         balance |-> accounts[a].balance]
      BY <1>1, <1>2, <2>2 DEF standing
    <3>3. \A r : delegation(accounts[a], r) = delegation(standing(a), r)
      BY SMTT(60), <3>2 DEF delegation
    <3> HIDE DEF a, now
    <3> QED BY <3>1, <3>3 DEF Moved
  <2> QED BY <2>1, <2>2
<1> QED BY SMTT(60), <1>5, <1>6, WeightsFollow

-----------------------------------------------------------------------------
(* cemented_count is the number of cemented blocks.                         *)
heights == [a \in DOMAIN confirmation_height |-> confirmation_height[a].height]
CementedSum == cemented_count = SumFunction(heights)

(* The heights are numbers.                                                 *)
LEMMA HeightsBefore == LedgerInv => Summable(heights)
<1> SUFFICES ASSUME LedgerInv PROVE Summable(heights)
  OBVIOUS
<1>1. DOMAIN confirmation_height = DOMAIN accounts /\ IsFiniteSet(DOMAIN accounts)
  BY DEF LedgerInv, CementInv, HeightsKnown, CountsRight
<1>2. \A a \in DOMAIN confirmation_height : confirmation_height[a].height \in Int
  BY SMTT(60) DEF LedgerInv, TypeOK, HeightInfo
<1> QED BY <1>1, <1>2 DEF Summable, heights

(* The same after a step.                                                   *)
LEMMA HeightsAfter == LedgerInv' => Summable(heights)'
BY HeightsBefore, PTL

(* The count follows the height of one account.                             *)
LEMMA CementedFollows ==
  ASSUME SumLaws, LedgerInv, LedgerInv', CementedSum, NEW a, Differ(heights, heights', a),
         cemented_count' = cemented_count - part(heights, a) + part(heights', a)
  PROVE  CementedSum'
<1>1. Summable(heights) /\ Summable(heights')
  BY HeightsBefore, HeightsAfter DEF Summable
<1>2. SumFunction(heights') = SumFunction(heights) - part(heights, a) + part(heights', a)
  BY <1>1 DEF SumLaws
<1> QED BY <1>2 DEF CementedSum

(* Only cementing moves it: an account begins and ends at height 0.         *)
LEMMA CementedCounted ==
  ASSUME SumLaws, LedgerInv, LedgerInv', CementedSum,
         \/ \E b \in Hash : Appended(b)
         \/ \E h : Removed(h)
         \/ \E a \in Account : Cement(a)
         \/ UNCHANGED <<confirmation_height, cemented_count>>
  PROVE  CementedSum'
<1>0. /\ DOMAIN confirmation_height = DOMAIN accounts /\ cemented_count \in Nat
      /\ \A x \in DOMAIN accounts : confirmation_height[x].height \in Nat
  BY DEF LedgerInv, CementInv, HeightsKnown, TypeOK, HeightInfo
<1>1. ASSUME NEW b \in Hash, Appended(b) PROVE CementedSum'
  <2> DEFINE a == owner(b)
  <2>1. /\ DOMAIN accounts' = DOMAIN accounts \cup {a}
        /\ DOMAIN confirmation_height' = DOMAIN accounts'
        /\ \A x \in DOMAIN accounts : confirmation_height'[x] = confirmation_height[x]
        /\ a \notin DOMAIN accounts => confirmation_height'[a] = [height |-> 0, frontier |-> Zero]
        /\ cemented_count' = cemented_count
    BY <1>1 DEF Appended, AppendedAccounts
  <2> HIDE DEF a
  <2>2. Differ(heights, heights', a)
    BY <1>0, <2>1 DEF Differ, heights
  <2>3. part(heights', a) = part(heights, a) /\ part(heights, a) \in Nat
    BY SMTT(60), <1>0, <2>1 DEF part, heights
  <2> QED BY SMTT(60), <1>0, <2>1, <2>2, <2>3, CementedFollows
<1>2. ASSUME NEW h, Removed(h) PROVE CementedSum'
  <2> DEFINE a == owner(h)
  <2>1. /\ Block[h].previous = Zero => DOMAIN accounts' = DOMAIN accounts \ {a}
        /\ Block[h].previous # Zero => DOMAIN accounts' = DOMAIN accounts
        /\ DOMAIN confirmation_height' = DOMAIN accounts'
        /\ \A x \in DOMAIN accounts' : confirmation_height'[x] = confirmation_height[x]
        /\ blocks[h].height > confirmation_height[a].height
        /\ a \in DOMAIN accounts /\ h \in stored /\ cemented_count' = cemented_count
    BY <1>2 DEF Removed, RemovedAccounts, RemovedBlocks
  <2>2. Block[h].previous = Zero => blocks[h].height = 1
    BY <2>1 DEF LedgerInv, ChainInv, BlocksOnPrevious
  <2>3. Block[h].previous = Zero => confirmation_height[a].height = 0
    BY SMTT(60), <1>0, <2>1, <2>2
  <2> HIDE DEF a
  <2>4. Differ(heights, heights', a)
    BY <1>0, <2>1 DEF Differ, heights
  <2>5. part(heights', a) = part(heights, a) /\ part(heights, a) \in Nat
    BY <1>0, <2>1, <2>3 DEF part, heights
  <2> QED BY SMTT(60), <1>0, <2>1, <2>4, <2>5, CementedFollows
<1>3. ASSUME NEW a \in Account, Cement(a) PROVE CementedSum'
  <2>1. PICK h : /\ blocks[h].height = confirmation_height[a].height + 1
                 /\ confirmation_height' = Put(confirmation_height, a,
                                               [height |-> blocks[h].height, frontier |-> h])
    BY <1>3 DEF Cement
  <2>2. a \in DOMAIN accounts /\ cemented_count' = cemented_count + 1
    BY <1>3 DEF Cement
  <2>3. /\ DOMAIN confirmation_height' = DOMAIN confirmation_height
        /\ confirmation_height'[a].height = confirmation_height[a].height + 1
        /\ \A x \in DOMAIN accounts : x # a => confirmation_height'[x] = confirmation_height[x]
    BY SMTT(60), <1>0, <2>1, <2>2 DEF Put
  <2>4. Differ(heights, heights', a)
    BY <1>0, <2>3 DEF Differ, heights
  <2>5. /\ part(heights, a) = confirmation_height[a].height
        /\ part(heights', a) = confirmation_height[a].height + 1
    BY <1>0, <2>2, <2>3 DEF part, heights
  <2> QED BY SMTT(60), <1>0, <2>2, <2>4, <2>5, CementedFollows
<1>4. CASE UNCHANGED <<confirmation_height, cemented_count>>
  BY <1>4 DEF CementedSum, heights
<1> QED BY <1>1, <1>2, <1>3, <1>4

-----------------------------------------------------------------------------
(* The ledger as a lattice.                                                 *)

(* What a stored block requires is stored and below it, and what it excludes*)
(* is not stored.                                                           *)
Fits ==
  /\ \A h \in stored : requires[h] = dependent_blocks(h) /\ requires[h] \subseteq stored \ {h}
  /\ \A h, k \in stored : <<h, k>> \notin excludes

(* Recomputed from the blocks alone, a stored block receives just if the    *)
(* tables say that it does.                                                 *)
LEMMA ReceivedFollows ==
  ASSUME RankLaw, RecursionLaw, LedgerInv, NEW h \in stored
  PROVE  /\ Block[h].type = "state" =>
              (sends(h) <=> Block[h].balance < summation[<<"balance", Block[h].previous>>])
         /\ received(h) = block_source(h)
         /\ received(h) \in Hash => is_receiver(h) /\ received(h) = Block[h].link
<1> DEFINE previous == Block[h].previous
<1>0. /\ SummationUnfolds /\ h \in Hash /\ (previous = Zero \/ previous \in stored)
      /\ Block[h].type \in BlockType
  BY SummationFound, Contents DEF LedgerInv, TypeOK, ChainInv, BlocksOnPrevious, stored
<1>1. balance(previous) = summation[<<"balance", previous>>]
  <2>1. CASE previous = Zero
    BY <1>0, <2>1 DEF SummationUnfolds, balance
  <2>2. CASE previous \in stored
    BY <2>2, BalancesFollow
  <2> QED BY <1>0, <2>1, <2>2
<1>2. Block[h].type = "state" =>
        (sends(h) <=> Block[h].balance < summation[<<"balance", previous>>])
  BY <1>1 DEF sends
<1>3. received(h) = block_source(h)
  <2>1. Block[h].type \in {"receive", "open"} => ~sends(h)
    BY DEF sends
  <2>2. Block[h].type = "state" =>
          received(h) = IF sends(h) THEN Zero ELSE Block[h].link
    BY <1>2 DEF received
  <2>3. Block[h].type \in {"receive", "open"} => received(h) = Block[h].link
    BY DEF received
  <2>4. Block[h].type \in {"send", "change"} => received(h) = Zero
    BY DEF received
  <2> QED BY <1>0, <2>1, <2>2, <2>3, <2>4 DEF block_source, BlockType
<1>4. ASSUME received(h) \in Hash
      PROVE  is_receiver(h) /\ received(h) = Block[h].link
  <2>1. block_source(h) \in Hash
    BY <1>3, <1>4
  <2>2. /\ Block[h].type \in {"receive", "open", "state"} /\ ~sends(h)
        /\ block_source(h) = Block[h].link
    BY <2>1, ConstantsAssumption DEF block_source
  <2>3. h # GenesisHash
    BY <2>1, <2>2, GenesisAssumption, ConstantsAssumption DEF Destination
  <2>4. Block[h].link # Zero /\ Block[h].link \notin EpochLink
    BY <2>1, <2>2, ConstantsAssumption DEF Destination
  <2> QED BY <1>3, <2>2, <2>3, <2>4 DEF is_receiver
<1> QED BY <1>2, <1>3, <1>4

(* Every state that satisfies the invariant is one the lattice allows.      *)
LEMMA FitsFollow ==
  ASSUME RankLaw, RecursionLaw, LedgerInv
  PROVE  Fits
<1>0. /\ BlocksOnPrevious /\ BlocksOwned /\ HeightsOrdered /\ ReceiversHaveSends /\ ReceivedOnce
      /\ stored \subseteq Hash
  BY DEF LedgerInv, ChainInv, SendInv, TypeOK, stored
<1>1. ASSUME NEW h \in stored
      PROVE  requires[h] = dependent_blocks(h) /\ requires[h] \subseteq stored \ {h}
  <2>0. h \in Hash
    BY <1>0
  <2>1. requires[h] = Hash \cap {Block[h].previous, received(h)}
    BY <2>0 DEF requires
  <2>2. received(h) = block_source(h)
    BY ReceivedFollows
  <2>3. Block[h].previous \in Hash => Block[h].previous \in stored /\ Block[h].previous # h
    <3>1. Block[h].previous \in Hash => Rank[Block[h].previous] < Rank[h]
      BY <2>0, RankAssumption
    <3> QED BY SMTT(60), <1>0, <2>0, <3>1, ConstantsAssumption, RankAssumption DEF BlocksOnPrevious
  <2>4. received(h) \in Hash => received(h) \in stored /\ received(h) # h
    <3>1. received(h) \in Hash => is_receiver(h) /\ received(h) = Block[h].link
      BY ReceivedFollows
    <3>2. Block[h].link \in Hash => Rank[Block[h].link] < Rank[h]
      BY <2>0, RankAssumption
    <3> QED BY SMTT(60), <1>0, <2>0, <3>1, <3>2, RankAssumption DEF ReceiversHaveSends
  <2> QED BY <2>1, <2>2, <2>3, <2>4 DEF dependent_blocks
<1>2. ASSUME NEW h \in stored, NEW k \in stored, <<h, k>> \in excludes
      PROVE  FALSE
  <2>0. h # k /\ h \in Hash /\ k \in Hash
    BY <1>0, <1>2 DEF excludes
  <2>1. CASE root(h) = root(k)
    <3>1. /\ Block[h].previous \in Hash \cup {Zero} /\ Block[k].previous \in Hash \cup {Zero}
          /\ owner(h) \in Account /\ owner(k) \in Account
      BY <2>0, Contents
    <3>2. Block[h].previous = Block[k].previous
          /\ (Block[h].previous = Zero => owner(h) = owner(k))
      BY <2>1, <3>1, ConstantsAssumption DEF root, owner, Destination
    <3>3. owner(h) = owner(k) /\ blocks[h].height = blocks[k].height
      BY <1>0, <3>2 DEF BlocksOnPrevious
    <3> QED BY <1>0, <2>0, <3>3 DEF HeightsOrdered
  <2>2. CASE received(h) \in Hash /\ received(h) = received(k)
    <3>1. /\ is_receiver(h) /\ received(h) = Block[h].link
          /\ is_receiver(k) /\ received(k) = Block[k].link
      BY <2>2, ReceivedFollows
    <3> QED BY <1>0, <2>0, <2>2, <3>1 DEF ReceivedOnce
  <2> QED BY <1>2, <2>1, <2>2 DEF excludes
<1> QED BY <1>1, <1>2 DEF Fits

confirmed == {h \in stored : block_confirmed(h)}

(* An added block is not cemented, and the others are cemented as before.   *)
LEMMA AppendedConfirmed ==
  ASSUME LedgerInv, LedgerInv', NEW b, Appended(b)
  PROVE  confirmed' = confirmed
<1>0. /\ BlocksOwned /\ BlocksOwned' /\ HeightsKnown /\ TypeOK /\ AppendedReads(b)
      /\ AppendedBlocks(b) /\ AppendedAccounts(b)
  BY AppendedFacts DEF LedgerInv, ChainInv, CementInv, Appended
<1>1. ASSUME NEW h \in stored
      PROVE  block_confirmed(h)' <=> block_confirmed(h)
  <2>1. block_confirmed(h) <=> blocks[h].height <= confirmation_height[owner(h)].height
    BY <1>0, Confirmed
  <2>2. h \in stored' /\ owner(h) \in DOMAIN accounts
    BY <1>0 DEF AppendedBlocks, BlocksOwned
  <2>3. block_confirmed(h)' <=> blocks'[h].height <= confirmation_height'[owner(h)].height
    BY <1>0, <2>2 DEF BlocksOwned, block_confirmed, block_exists, block_account, stored, owner
  <2>4. /\ blocks'[h].height = blocks[h].height
        /\ confirmation_height'[owner(h)] = confirmation_height[owner(h)]
    BY <1>0, <2>2 DEF AppendedReads, AppendedAccounts
  <2> QED BY <2>1, <2>3, <2>4
<1>2. ~block_confirmed(b)'
  <2>1. b \in stored'
    BY <1>0 DEF AppendedBlocks
  <2>2. block_confirmed(b)' <=> blocks'[b].height <= confirmation_height'[owner(b)].height
    BY <1>0, <2>1 DEF BlocksOwned, block_confirmed, block_exists, block_account, stored, owner
  <2>3. CASE owner(b) \in DOMAIN accounts
    <3>1. /\ confirmation_height'[owner(b)].height <= accounts[owner(b)].block_count
          /\ confirmation_height'[owner(b)].height \in Nat
          /\ accounts[owner(b)].block_count \in Nat
      BY <1>0, <2>3 DEF AppendedAccounts, HeightsKnown, TypeOK, HeightInfo, AccountInfo
    <3>2. blocks'[b].height = accounts[owner(b)].block_count + 1
      BY <1>0, <2>3 DEF AppendedAccounts
    <3> QED BY SMTT(60), <2>2, <3>1, <3>2
  <2>4. CASE owner(b) \notin DOMAIN accounts
    <3>1. blocks'[b].height = 1 /\ confirmation_height'[owner(b)].height = 0
      BY SMTT(60), <1>0, <2>4 DEF AppendedAccounts
    <3> QED BY SMTT(60), <2>2, <3>1
  <2> QED BY <2>3, <2>4
<1>3. stored' = stored \cup {b}
  BY <1>0 DEF AppendedBlocks
<1> QED BY <1>1, <1>2, <1>3 DEF confirmed

(* Undoing a block takes none of the cemented ones.                         *)
LEMMA RemovedConfirmed ==
  ASSUME LedgerInv, LedgerInv', NEW h, Removed(h)
  PROVE  confirmed' = confirmed /\ h \notin confirmed
<1>0. /\ BlocksOwned /\ BlocksOwned' /\ HeightsKnown /\ TypeOK /\ RemovedReads(h)
      /\ RemovedAccounts(h)
  BY RemovedFacts DEF LedgerInv, ChainInv, CementInv, Removed
<1>1. ASSUME NEW k \in stored'
      PROVE  block_confirmed(k)' <=> block_confirmed(k)
  <2>0. k \in stored
    BY <1>0, <1>1 DEF RemovedReads
  <2>1. block_confirmed(k) <=> blocks[k].height <= confirmation_height[owner(k)].height
    BY <1>0, <2>0, Confirmed
  <2>2. block_confirmed(k)' <=> blocks'[k].height <= confirmation_height'[owner(k)].height
    BY <1>0, <1>1 DEF BlocksOwned, block_confirmed, block_exists, block_account, stored, owner
  <2>3. blocks'[k].height = blocks[k].height
    BY <1>0, <1>1 DEF RemovedReads
  <2>4. owner(k) \in DOMAIN accounts'
    BY <1>0, <1>1 DEF BlocksOwned, owner
  <2>5. confirmation_height'[owner(k)] = confirmation_height[owner(k)]
    BY <1>0, <2>4 DEF RemovedAccounts
  <2> QED BY <2>1, <2>2, <2>3, <2>5
<1>2. ~block_confirmed(h)
  <2>1. /\ h \in stored /\ blocks[h].height > confirmation_height[owner(h)].height
        /\ owner(h) \in DOMAIN accounts /\ blocks[h].height \in Nat
    BY <1>0 DEF RemovedAccounts, RemovedReads
  <2>2. confirmation_height[owner(h)].height \in Nat
    BY <1>0, <2>1 DEF HeightsKnown, TypeOK, HeightInfo
  <2> QED BY SMTT(60), <1>0, <2>1, <2>2, Confirmed
<1>3. stored' = stored \ {h}
  BY <1>0 DEF RemovedReads
<1> QED BY <1>1, <1>2, <1>3 DEF confirmed

(* Cementing cements one block.                                             *)
LEMMA CementConfirmed ==
  ASSUME LedgerInv, Fits, NEW a \in Account, Cement(a)
  PROVE  \E h \in stored \ confirmed :
           requires[h] \subseteq confirmed /\ confirmed' = confirmed \cup {h} /\ stored' = stored
<1>0. /\ BlocksOwned /\ HeightsOrdered /\ HeightsKnown /\ TypeOK
  BY DEF LedgerInv, ChainInv, CementInv
<1>1. PICK h \in stored :
        /\ block_account(h) = a /\ blocks[h].height = confirmation_height[a].height + 1
        /\ can_vote(h)
        /\ confirmation_height' =
             Put(confirmation_height, a, [height |-> blocks[h].height, frontier |-> h])
  BY DEF Cement, stored
<1>2. a \in DOMAIN accounts /\ blocks' = blocks /\ stored' = stored /\ accounts' = accounts
  BY DEF Cement, stored
<1>3. a \in DOMAIN confirmation_height /\ confirmation_height[a].height \in Nat
  BY <1>0, <1>2 DEF HeightsKnown, TypeOK, HeightInfo
<1>4. \A k \in stored : /\ block_account(k) = owner(k)
                        /\ block_confirmed(k) <=> blocks[k].height <= confirmation_height[owner(k)].height
                        /\ blocks[k].height \in Nat
                        /\ owner(k) \in DOMAIN confirmation_height
  BY <1>0, Confirmed DEF TypeOK, stored, Sideband, BlocksOwned, HeightsKnown
<1>5. \A k \in stored : block_account(k)' = block_account(k)
  BY <1>2 DEF block_account
<1>6. \A k \in stored : block_confirmed(k)' <=>
        blocks[k].height <= confirmation_height'[owner(k)].height
  BY <1>2, <1>4, <1>5 DEF block_confirmed, block_exists, stored
<1>7. h \notin confirmed
  BY SMTT(60), <1>1, <1>3, <1>4 DEF confirmed
<1>8. \A k \in stored : owner(k) = a =>
        confirmation_height'[owner(k)].height = confirmation_height[a].height + 1
  BY <1>1 DEF Put
<1>9. \A k \in stored : owner(k) # a =>
        confirmation_height'[owner(k)] = confirmation_height[owner(k)]
  BY <1>1, <1>4 DEF Put
<1>10. \A k \in stored : block_confirmed(k)' <=> block_confirmed(k) \/ k = h
  <2> TAKE k \in stored
  <2>1. CASE owner(k) # a
    BY <1>1, <1>4, <1>6, <1>9, <2>1
  <2>2. CASE owner(k) = a
    <3>1. blocks[k].height = blocks[h].height <=> k = h
      BY <1>0, <1>1, <1>4, <2>2 DEF HeightsOrdered
    <3>2. block_confirmed(k)' <=> blocks[k].height <= confirmation_height[a].height + 1
      BY <1>6, <1>8, <2>2
    <3>3. block_confirmed(k) <=> blocks[k].height <= confirmation_height[a].height
      BY <1>4, <2>2
    <3> QED BY SMTT(60), <1>1, <1>3, <1>4, <3>1, <3>2, <3>3
  <2> QED BY <2>1, <2>2
<1>11. confirmed' = confirmed \cup {h}
  BY <1>2, <1>10 DEF confirmed
<1>12. requires[h] \subseteq confirmed
  BY <1>1 DEF Fits, can_vote, confirmed
<1> QED BY <1>2, <1>7, <1>11, <1>12

(* A step of each kind is a step of the lattice.                            *)
LEMMA LatticeSteps ==
  ASSUME LedgerInv, LedgerInv', Fits, Fits',
         \/ \E b \in Hash : Appended(b)
         \/ \E h : Removed(h)
         \/ \E a \in Account : Cement(a)
         \/ UNCHANGED tables
  PROVE  [Abstract!LatticeNext]_(Abstract!lattice_vars)
<1> USE DEF stored
<1>1. ASSUME NEW b \in Hash, Appended(b) PROVE Abstract!LatticeNext
  <2>1. /\ b \notin stored /\ stored' = stored \cup {b}
    BY <1>1 DEF Appended, AppendedBlocks
  <2>2. confirmed' = confirmed
    BY <1>1, AppendedConfirmed
  <2>3. requires[b] \subseteq stored /\ \A w \in stored : <<b, w>> \notin excludes
    BY <2>1 DEF Fits
  <2>4. Abstract!Add(b)
    BY <2>1, <2>2, <2>3 DEF Abstract!Add, confirmed
  <2> QED BY <2>4 DEF Abstract!LatticeNext
<1>2. ASSUME NEW h, Removed(h) PROVE Abstract!LatticeNext
  <2>1. h \in stored /\ h \in Hash /\ stored' = stored \ {h}
    BY <1>2, RemovedFacts DEF RemovedReads
  <2>2. confirmed' = confirmed /\ h \notin confirmed
    BY <1>2, RemovedConfirmed
  <2>3. \A w \in stored : h \notin requires[w]
    BY <2>1 DEF Fits
  <2>4. Abstract!Remove(h)
    BY <2>1, <2>2, <2>3 DEF Abstract!Remove, confirmed
  <2> QED BY <2>1, <2>4 DEF Abstract!LatticeNext
<1>3. ASSUME NEW a \in Account, Cement(a) PROVE Abstract!LatticeNext
  <2>1. PICK h \in stored \ confirmed :
          requires[h] \subseteq confirmed /\ confirmed' = confirmed \cup {h} /\ stored' = stored
    BY <1>3, CementConfirmed
  <2>2. Abstract!Cement({h})
    BY <2>1 DEF Abstract!Cement, confirmed
  <2>3. {h} \in SUBSET (stored \ confirmed)
    BY <2>1
  <2> QED BY <2>2, <2>3 DEF Abstract!LatticeNext, confirmed
<1>4. CASE UNCHANGED tables
  BY <1>4 DEF tables, Abstract!lattice_vars, block_confirmed, block_exists, block_account
<1> QED BY <1>1, <1>2, <1>3, <1>4

(* A new ledger is a new lattice.                                           *)
LEMMA InitLattice ==
  ASSUME Init
  PROVE  Abstract!LatticeInit
<1>1. DOMAIN blocks = {GenesisHash} /\ block_confirmed(GenesisHash)
  BY SMTT(60), GenesisAssumption DEF Init, block_confirmed, block_exists, block_account, block_sideband
<1> QED BY <1>1 DEF Abstract!LatticeInit

(* What blocks require and exclude is as Lattice assumes.                   *)
LEMMA LatticeConstants == Abstract!LatticeAssumption
<1>1. requires \in [Hash -> SUBSET Hash]
  BY DEF requires
<1>2. \A v, w \in Hash : <<v, w>> \in excludes => <<w, v>> \in excludes
  BY DEF excludes
<1>3. Block[GenesisHash].previous = Zero /\ received(GenesisHash) = GenesisAccount
  BY GenesisAssumption, BlockAssumption DEF received
<1>4. requires[GenesisHash] = {}
  BY <1>3, GenesisAssumption, ConstantsAssumption DEF requires, Destination
<1>5. ASSUME NEW v \in Hash PROVE v \notin requires[v]
  <2>1. received(v) \in {Zero, Block[v].link}
    BY DEF received
  <2>2. \A d \in requires[v] : d \in Hash /\ d \in {Block[v].previous, Block[v].link}
    BY <2>1, ConstantsAssumption DEF requires
  <2>3. \A d \in requires[v] : Rank[d] < Rank[v] /\ Rank[v] \in Nat
    BY <2>2, RankAssumption
  <2> QED BY SMTT(60), <2>3
<1>6. \A v \in Hash : <<v, v>> \notin excludes
  BY DEF excludes
<1> QED BY <1>1, <1>2, <1>4, <1>5, <1>6, GenesisAssumption DEF Abstract!LatticeAssumption

-----------------------------------------------------------------------------
(* New ledgers.                                                             *)

(* The counters of a new ledger.                                            *)
LEMMA InitCounts ==
  ASSUME CountLaws, Init
  PROVE  CountsRight
<1>1. /\ stored = {GenesisHash} /\ block_count = 1
      /\ DOMAIN accounts = {GenesisAccount} /\ account_count = 1
      /\ accounts[GenesisAccount].block_count = 1
  BY DEF Init, stored, account_info
<1>2. {h \in stored : owner(h) = GenesisAccount} = {GenesisHash}
  BY <1>1, GenesisAssumption DEF owner
<1>3. \A x : IsFiniteSet({x}) /\ Cardinality({x}) = 1
  BY DEF CountLaws
<1> QED BY <1>1, <1>2, <1>3 DEF CountsRight

(* A new ledger: the genesis account represents itself.                     *)
LEMMA InitWeights ==
  ASSUME SumLaws, Init
  PROVE  RepWeightsDelegated
<1> SUFFICES ASSUME NEW r \in Account
             PROVE  rep_weights[r] = SumFunction(weighed(r)) % Modulus
  BY DEF RepWeightsDelegated, weighed
<1> DEFINE a == GenesisAccount
           share == IF r = a THEN Modulus - 1 ELSE 0
<1>1. DOMAIN weighed(r) = {a} /\ rep_weights[r] = share
  BY DEF Init, weighed
<1>2. accounts[a].representative = a /\ accounts[a].balance = Modulus - 1
      /\ a \in DOMAIN accounts /\ stack = <<>>
  BY DEF Init, account_info
<1>3. standing(a) = [representative |-> a, balance |-> Modulus - 1]
  BY SMTT(60), <1>2 DEF standing, waits
<1>4. weighed(r)[a] = share
  BY SMTT(60), <1>2, <1>3 DEF weighed, delegated
<1>5. share \in Int /\ share % Modulus = share
  BY SMTT(60), ConstantsAssumption
<1> HIDE DEF share
<1>6. SumFunction(weighed(r)) = share
  BY <1>1, <1>4, <1>5 DEF SumLaws
<1> QED BY <1>1, <1>5, <1>6

(* A new ledger has cemented its genesis block.                             *)
LEMMA InitCemented ==
  ASSUME SumLaws, Init
  PROVE  CementedSum
<1>1. DOMAIN heights = {GenesisAccount} /\ heights[GenesisAccount] = 1 /\ cemented_count = 1
  BY DEF Init, heights
<1>2. SumFunction(heights) = 1
  BY SMTT(60), <1>1 DEF SumLaws
<1> QED BY <1>1, <1>2 DEF CementedSum

-----------------------------------------------------------------------------
(* Restarts.  The tables on disk satisfy what the tables in memory satisfy  *)
(* between calls; the caches and the stack are not on disk.                 *)
Tables(t) == INSTANCE LedgerInvariant WITH
  blocks <- t[1], accounts <- t[2], pending <- t[3], frontiers <- t[4],
  confirmation_height <- t[5], rep_weights <- [r \in Account |-> 0],
  block_count <- Cardinality(DOMAIN t[1]), account_count <- Cardinality(DOMAIN t[2]),
  cemented_count <- 0, epoch_2_started <- TRUE, stack <- <<>>

(* What a block says, read from saved tables.                               *)
LEMMA SameReads ==
  /\ Tables(tables)!stored = stored /\ \A h : Tables(tables)!owner(h) = owner(h)
  /\ \A h : Tables(tables)!balance(h) = balance(h)
  /\ \A h : Tables(tables)!amount(h) = amount(h)
  /\ \A h : Tables(tables)!sends(h) <=> sends(h)
  /\ \A h : Tables(tables)!is_receiver(h) <=> is_receiver(h)
  /\ \A h : Tables(tables)!block_version(h) = block_version(h)
  /\ \A h : Tables(tables)!block_confirmed(h) <=> block_confirmed(h)
  /\ \A h : Tables(tables)!can_vote(h) <=> can_vote(h)
<1>1. Tables(tables)!stored = stored /\ \A h : Tables(tables)!owner(h) = owner(h)
  BY DEF tables, stored, owner, Tables!stored, Tables!owner
<1>2. \A h : Tables(tables)!balance(h) = balance(h)
  BY DEF tables, balance, block_balance_calculated, Tables!balance,
         Tables!block_balance_calculated
<1>3. \A h : Tables(tables)!amount(h) = amount(h)
  BY SMTT(60), <1>2 DEF amount, Tables!amount
<1>4. \A h : Tables(tables)!sends(h) <=> sends(h)
  BY <1>2 DEF sends, Tables!sends
<1>5. \A h : Tables(tables)!is_receiver(h) <=> is_receiver(h)
  BY <1>4 DEF is_receiver, Tables!is_receiver
<1>6. \A h : Tables(tables)!block_version(h) = block_version(h)
  BY DEF tables, block_version, block_exists, Tables!block_version, Tables!block_exists
<1>7. \A h : Tables(tables)!block_confirmed(h) <=> block_confirmed(h)
  BY DEF tables, block_confirmed, block_exists, block_account, Tables!block_confirmed,
         Tables!block_exists, Tables!block_account
<1>8. \A h : Tables(tables)!can_vote(h) <=> can_vote(h)
  <2>1. \A h : Tables(tables)!dependent_blocks(h) = dependent_blocks(h)
    BY <1>4 DEF dependent_blocks, block_source, Tables!dependent_blocks, Tables!block_source
  <2> QED BY <1>7, <2>1 DEF can_vote, Tables!can_vote
<1> QED BY <1>1, <1>2, <1>3, <1>4, <1>5, <1>6, <1>7, <1>8

(* What the invariant says of the tables alone.                             *)
SameChains ==
  /\ Tables(tables)!ChainInv <=> ChainInv
  /\ Tables(tables)!LinkInv <=> LinkInv
SameSends == Tables(tables)!SendInv <=> SendInv
SameWorth ==
  /\ Tables(tables)!HeadsInForce <=> HeadsInForce
  /\ Tables(tables)!PendingExact <=> PendingExact
  /\ Tables(tables)!ReceiptsMatch <=> ReceiptsMatch
  /\ Tables(tables)!SendsPay <=> SendsPay
  /\ Tables(tables)!OthersKeepBalance <=> OthersKeepBalance
  /\ Tables(tables)!ReceiptsExact <=> ReceiptsExact
SameCement == Tables(tables)!CementInv <=> CementInv

(* The chains are as well linked on disk as in memory.                      *)
LEMMA ChainsSame == SameChains
<1>1. Tables(tables)!BlocksOwned <=> BlocksOwned
  BY SameReads DEF BlocksOwned, Tables!BlocksOwned, tables
<1>2. Tables(tables)!BlocksOnPrevious <=> BlocksOnPrevious
  BY SameReads DEF BlocksOnPrevious, Tables!BlocksOnPrevious, tables
<1>3. Tables(tables)!HeightsOrdered <=> HeightsOrdered
  BY SMTT(60), SameReads DEF HeightsOrdered, Tables!HeightsOrdered, tables
<1>4. Tables(tables)!HeadsStored <=> HeadsStored
  BY SameReads DEF HeadsStored, Tables!HeadsStored, tables
<1>5. Tables(tables)!ChangesKeepBalance <=> ChangesKeepBalance
  BY SameReads DEF ChangesKeepBalance, Tables!ChangesKeepBalance, tables
<1>6. Tables(tables)!FrontiersAreHeads <=> FrontiersAreHeads
  BY DEF FrontiersAreHeads, Tables!FrontiersAreHeads, tables
<1>7. Tables(tables)!NeighboursLinked <=> NeighboursLinked
  <2>1. tables[1] = blocks /\ tables[2] = accounts
    BY DEF tables
  <2>2. ASSUME NEW h
        PROVE  /\ tables[2][Tables(tables)!owner(h)] = accounts[owner(h)]
               /\ tables[1][Block[h].previous] = blocks[Block[h].previous]
               /\ tables[1][h] = blocks[h]
    BY <2>1, SameReads
  <2>3. Tables(tables)!stored = stored
    BY SameReads
  <2>4. Tables(tables)!NeighboursLinked => NeighboursLinked
    BY SMTT(60), <2>2, <2>3 DEF NeighboursLinked, Tables!NeighboursLinked
  <2>5. NeighboursLinked => Tables(tables)!NeighboursLinked
    BY SMTT(60), <2>2, <2>3 DEF NeighboursLinked, Tables!NeighboursLinked
  <2> QED BY <2>4, <2>5
<1>8. Tables(tables)!OpenBlocksStored <=> OpenBlocksStored
  BY SameReads DEF OpenBlocksStored, Tables!OpenBlocksStored, tables
<1>9. Tables(tables)!LegacyHeadsAreFrontiers <=> LegacyHeadsAreFrontiers
  BY DEF LegacyHeadsAreFrontiers, Tables!LegacyHeadsAreFrontiers, tables
<1> QED BY <1>1, <1>2, <1>3, <1>4, <1>5, <1>6, <1>7, <1>8, <1>9
           DEF SameChains, ChainInv, LinkInv, Tables!ChainInv, Tables!LinkInv

(* Sends and receives match on disk as in memory.                           *)
LEMMA SendsSame == SameSends
<1>1. Tables(tables)!ReceiversHaveSends <=> ReceiversHaveSends
  BY SameReads DEF ReceiversHaveSends, Tables!ReceiversHaveSends
<1>2. Tables(tables)!PendingAreSends <=> PendingAreSends
  BY SameReads DEF PendingAreSends, Tables!PendingAreSends, tables
<1>3. Tables(tables)!PendingNotReceived <=> PendingNotReceived
  BY SameReads DEF PendingNotReceived, Tables!PendingNotReceived, tables
<1>4. Tables(tables)!ReceivedOnce <=> ReceivedOnce
  BY SameReads DEF ReceivedOnce, Tables!ReceivedOnce
<1>5. Tables(tables)!SendsAccounted <=> SendsAccounted
  BY SameReads DEF SendsAccounted, Tables!SendsAccounted, tables
<1> QED BY <1>1, <1>2, <1>3, <1>4, <1>5 DEF SameSends, SendInv, Tables!SendInv

(* Balances, representatives and versions are the ones in memory.           *)
LEMMA WorthSame == SameWorth
<1>1. Tables(tables)!HeadsInForce <=> HeadsInForce
  <2>1. Tables(tables)!representative_block = representative_block
    BY DEF representative_block, Tables!representative_block
  <2> QED BY <2>1, SameReads DEF HeadsInForce, Tables!HeadsInForce, tables
<1>2. Tables(tables)!PendingExact <=> PendingExact
  BY SameReads DEF PendingExact, Tables!PendingExact, tables
<1>3. Tables(tables)!ReceiptsMatch <=> ReceiptsMatch
  BY SameReads DEF ReceiptsMatch, Tables!ReceiptsMatch, tables
<1>4. Tables(tables)!SendsPay <=> SendsPay
  BY SameReads DEF SendsPay, Tables!SendsPay
<1>5. Tables(tables)!OthersKeepBalance <=> OthersKeepBalance
  BY SameReads DEF OthersKeepBalance, Tables!OthersKeepBalance
<1>6. Tables(tables)!ReceiptsExact <=> ReceiptsExact
  BY SameReads DEF ReceiptsExact, Tables!ReceiptsExact, tables
<1> QED BY <1>1, <1>2, <1>3, <1>4, <1>5, <1>6 DEF SameWorth

(* The confirmation heights are the ones in memory.                         *)
LEMMA CementSame == SameCement
<1>1. Tables(tables)!HeightsKnown <=> HeightsKnown
  BY DEF HeightsKnown, Tables!HeightsKnown, tables
<1>2. Tables(tables)!GenesisCemented <=> GenesisCemented
  BY SameReads DEF GenesisCemented, Tables!GenesisCemented, tables
<1>3. Tables(tables)!CementedOnCemented <=> CementedOnCemented
  BY SameReads DEF CementedOnCemented, Tables!CementedOnCemented
<1>4. Tables(tables)!CementedFrontiers <=> CementedFrontiers
  BY SameReads DEF CementedFrontiers, Tables!CementedFrontiers, tables
<1> QED BY <1>1, <1>2, <1>3, <1>4 DEF SameCement, CementInv, Tables!CementInv

(* Counting is counting.                                                    *)
LEMMA SameCounting ==
  /\ \A S : Tables(tables)!IsFiniteSet(S) <=> IsFiniteSet(S)
  /\ \A S : Tables(tables)!Cardinality(S) = Cardinality(S)
<1>1. ASSUME NEW S PROVE Tables(tables)!IsFiniteSet(S) <=> IsFiniteSet(S)
  BY DEF IsFiniteSet, Tables!IsFiniteSet
<1>2. ASSUME NEW S PROVE Tables(tables)!Cardinality(S) = Cardinality(S)
  BY DEF Cardinality, IsFiniteSet, Tables!Cardinality, Tables!IsFiniteSet
<1> QED BY <1>1, <1>2

(* The tables have their types in memory just if they have them on disk.    *)
TablesTyped ==
  /\ DOMAIN blocks \subseteq Hash /\ blocks \in [DOMAIN blocks -> Sideband]
  /\ DOMAIN accounts \subseteq Account /\ accounts \in [DOMAIN accounts -> AccountInfo]
  /\ DOMAIN pending \subseteq (Destination \cup Hash) \X Hash
  /\ pending \in [DOMAIN pending -> PendingInfo]
  /\ DOMAIN frontiers \subseteq Hash /\ frontiers \in [DOMAIN frontiers -> Account]
  /\ DOMAIN confirmation_height \subseteq Account
  /\ confirmation_height \in [DOMAIN confirmation_height -> HeightInfo]
(* Types carry over; the counters of saved tables have to be numbers.       *)
LEMMA SameTypes ==
  /\ Tables(tables)!TypeOK => TablesTyped
  /\ TablesTyped /\ Cardinality(stored) \in Nat /\ Cardinality(DOMAIN accounts) \in Nat
     => Tables(tables)!TypeOK
<1>1. /\ Tables(tables)!Sideband = Sideband /\ Tables(tables)!AccountInfo = AccountInfo
      /\ Tables(tables)!PendingInfo = PendingInfo /\ Tables(tables)!HeightInfo = HeightInfo
      /\ Tables(tables)!Destination = Destination /\ Tables(tables)!Amount = Amount
  BY DEF Sideband, AccountInfo, PendingInfo, HeightInfo, Destination, Amount, Epoch,
         Tables!Sideband, Tables!AccountInfo, Tables!PendingInfo, Tables!HeightInfo,
         Tables!Destination, Tables!Amount, Tables!Epoch
<1>2. Tables(tables)!TypeOK => TablesTyped
  BY <1>1 DEF Tables!TypeOK, TablesTyped, tables
<1>3. [r \in Account |-> 0] \in [Account -> Amount]
  BY Literals
<1>4. <<>> \in Seq(Tables(tables)!Frame)
  BY SMTT(60)
<1>5. ASSUME TablesTyped, Cardinality(stored) \in Nat, Cardinality(DOMAIN accounts) \in Nat
      PROVE  Tables(tables)!TypeOK
  BY <1>1, <1>3, <1>4, <1>5 DEF Tables!TypeOK, TablesTyped, tables, stored
<1> QED BY <1>2, <1>5

(* No rollback is under way in saved tables, and their counts are right.    *)
LEMMA SavedCounts ==
  /\ Tables(tables)!CountsRight <=>
       /\ IsFiniteSet(stored) /\ IsFiniteSet(DOMAIN accounts)
       /\ \A a \in DOMAIN accounts :
            accounts[a].block_count = Cardinality({h \in stored : owner(h) = a})
  /\ Tables(tables)!StackInv
<1>1. Tables(tables)!CountsRight <=>
       /\ IsFiniteSet(stored) /\ IsFiniteSet(DOMAIN accounts)
       /\ \A a \in DOMAIN accounts :
            accounts[a].block_count = Cardinality({h \in stored : owner(h) = a})
  <2>1. /\ Tables(tables)!stored = stored
        /\ \A a : {h \in Tables(tables)!stored : Tables(tables)!owner(h) = a}
                  = {h \in stored : owner(h) = a}
    BY SameReads
  <2> QED BY <2>1, SameCounting DEF Tables!CountsRight, tables, stored
<1>2. 1 .. Len(<<>>) = {} /\ 2 .. Len(<<>>) = {}
  BY SMTT(60)
<1>3. Tables(tables)!StackInv
  BY <1>2 DEF Tables!StackInv, Tables!ActivationsMatch, Tables!OnlyTopUnvisited,
     Tables!VisitedAreHeads, Tables!NestedAtHead, Tables!NestedLater
<1> QED BY <1>1, <1>3

(* Between calls the tables can be saved.                                   *)
LEMMA SavedInv ==
  ASSUME LedgerInv, ReceiptsExact
  PROVE  Tables(tables)!LedgerInv /\ Tables(tables)!ReceiptsExact
<1>1. /\ TablesTyped /\ CountsRight /\ block_count \in Nat /\ account_count \in Nat
      /\ EpochsRise /\ ChainInv /\ LinkInv /\ SendInv /\ WorthInv /\ CementInv
  BY DEF LedgerInv, TypeOK, TablesTyped, WorthInv
<1>2. Tables(tables)!TypeOK /\ Tables(tables)!CountsRight
  BY <1>1, SameTypes, SavedCounts DEF CountsRight
<1>3. Tables(tables)!EpochsRise
  BY <1>1, SameReads DEF EpochsRise, Tables!EpochsRise
<1>4. Tables(tables)!WorthInv /\ Tables(tables)!ReceiptsExact
  BY <1>1, <1>3, WorthSame DEF SameWorth, WorthInv, Tables!WorthInv
<1> QED BY <1>1, <1>2, <1>4, ChainsSame, SendsSame, CementSame, SavedCounts
           DEF SameChains, SameSends, SameCement, Tables!LedgerInv

(* The versions of blocks rise along a chain to the version of its head.    *)
LEMMA VersionsBelowHead ==
  ASSUME RankLaw, TablesTyped, BlocksOwned, BlocksOnPrevious, HeadsStored,
         NeighboursLinked,
         \A h \in stored : Block[h].previous # Zero =>
           block_version(Block[h].previous) <= block_version(h)
  PROVE  \A h \in stored : block_version(h) <= block_version(accounts[owner(h)].head)
<1> DEFINE rank == [h \in stored |-> accounts[owner(h)].block_count - blocks[h].height]
           Q == {h \in stored : block_version(h) <= block_version(accounts[owner(h)].head)}
<1>1. \A h \in stored : block_version(h) \in Int
  BY SMTT(60) DEF TablesTyped, Sideband, Epoch, block_version, stored
<1>2. \A h \in stored : /\ blocks[h].height \in Nat /\ owner(h) \in DOMAIN accounts
                        /\ accounts[owner(h)].block_count \in Nat
                        /\ blocks[h].height <= accounts[owner(h)].block_count
  BY DEF BlocksOwned, TablesTyped, Sideband, AccountInfo, stored
<1>3. rank \in [stored -> Nat]
  BY SMTT(60), <1>2
<1>4. ASSUME NEW h \in stored, \A k \in stored : rank[k] < rank[h] => k \in Q
      PROVE  h \in Q
  <2>1. CASE blocks[h].successor = Zero
    BY SMTT(60), <1>1, <2>1 DEF NeighboursLinked
  <2>2. CASE blocks[h].successor # Zero
    <3> DEFINE k == blocks[h].successor
    <3>1. k \in stored /\ Block[k].previous = h /\ h # Zero
      BY <2>2, ConstantsAssumption DEF NeighboursLinked, TablesTyped, stored
    <3> HIDE DEF k
    <3>2. owner(h) = owner(k) /\ blocks[k].height = blocks[h].height + 1
      BY <3>1 DEF BlocksOnPrevious
    <3>3. rank[k] < rank[h]
      BY SMTT(60), <1>2, <3>1, <3>2
    <3>4. block_version(k) <= block_version(accounts[owner(k)].head)
      BY <1>4, <3>1, <3>3
    <3>5. block_version(h) <= block_version(k)
      BY <3>1
    <3>6. block_version(accounts[owner(h)].head) \in Int
      BY <1>1, <1>2 DEF HeadsStored
    <3> QED BY SMTT(60), <1>1, <3>1, <3>2, <3>4, <3>5, <3>6
  <2> QED BY <2>1, <2>2
<1> HIDE DEF rank, Q
<1>5. stored \subseteq Q
  BY <1>3, <1>4 DEF RankLaw
<1> QED BY <1>5 DEF Q

(* The caches and the stack of a node that has just read its tables.        *)
holding(r) == [a \in DOMAIN accounts |->
                 IF accounts[a].representative = r THEN accounts[a].balance ELSE 0]
Resumed ==
  /\ stack = <<>>
  /\ block_count = Cardinality(DOMAIN blocks) /\ account_count = Cardinality(DOMAIN accounts)
  /\ epoch_2_started = (\E a \in DOMAIN accounts : accounts[a].epoch = 2)
  /\ cemented_count = SumFunction(heights)
  /\ rep_weights = [r \in Account |-> SumFunction(holding(r)) % Modulus]

(* Between calls an account delegates what its account_info says.           *)
LEMMA NoneWaits ==
  ASSUME stack = <<>>, NEW r
  PROVE  weighed(r) = holding(r)
<1>1. \A h : ~waits(h)
  BY SMTT(60) DEF waits
<1>2. \A a : delegated(a, r) = IF accounts[a].representative = r
                               THEN accounts[a].balance ELSE 0
  BY <1>1 DEF delegated, standing
<1> QED BY <1>2 DEF weighed, holding

(* What is delegated to a representative is a number.                       *)
LEMMA HoldingTallied ==
  ASSUME SumLaws, TablesTyped, IsFiniteSet(DOMAIN accounts), NEW r
  PROVE  Tallied(holding(r)) /\ SumFunction(holding(r)) \in Nat
<1>1. \A a \in DOMAIN accounts : accounts[a].balance \in Nat
  BY SMTT(60), ConstantsAssumption DEF TablesTyped, AccountInfo, Amount
<1>2. Tallied(holding(r))
  BY <1>1 DEF Tallied, holding
<1> QED BY <1>2 DEF SumLaws, Tallied

(* A node that comes up on saved tables satisfies the invariant.            *)
LEMMA ResumedInv ==
  ASSUME CountLaws, RankLaw, SumLaws, Tables(tables)!LedgerInv, Resumed
  PROVE  LedgerInv /\ RepWeightsDelegated /\ CementedSum
<1>1. /\ Tables(tables)!TypeOK /\ Tables(tables)!ChainInv /\ Tables(tables)!LinkInv
      /\ Tables(tables)!SendInv /\ Tables(tables)!WorthInv /\ Tables(tables)!CementInv
      /\ Tables(tables)!CountsRight
  BY DEF Tables!LedgerInv
<1>2. TablesTyped /\ ChainInv /\ LinkInv /\ SendInv /\ CementInv
  BY <1>1, SameTypes, ChainsSame, SendsSame, CementSame DEF SameChains, SameSends, SameCement
<1>3. CountsRight
  BY <1>1, SavedCounts DEF CountsRight, Resumed, stored
<1>4. /\ HeadsInForce /\ PendingExact /\ ReceiptsMatch /\ SendsPay /\ OthersKeepBalance
      /\ Tables(tables)!EpochsRise
  BY <1>1, WorthSame DEF SameWorth, Tables!WorthInv
<1>5. EpochsRise
  <2>1. \A h \in stored : Block[h].previous # Zero =>
          block_version(Block[h].previous) <= block_version(h)
    BY <1>4, SameReads DEF Tables!EpochsRise
  <2>2. ASSUME NEW h \in stored, block_version(h) = 2 PROVE epoch_2_started
    <3> DEFINE a == owner(h)
    <3>1. a \in DOMAIN accounts /\ accounts[a].epoch = block_version(accounts[a].head)
      BY <1>2, <1>4 DEF ChainInv, BlocksOwned, HeadsInForce
    <3>2. block_version(h) <= block_version(accounts[a].head)
      BY <1>2, <2>1, VersionsBelowHead DEF ChainInv, LinkInv
    <3>3. accounts[a].epoch \in 0 .. 2
      BY <1>2, <3>1 DEF TablesTyped, AccountInfo, Epoch
    <3> HIDE DEF a
    <3>4. accounts[a].epoch = 2
      BY SMTT(60), <2>2, <3>1, <3>2, <3>3
    <3> QED BY <3>1, <3>4 DEF Resumed
  <2> QED BY <2>1, <2>2 DEF EpochsRise
<1>6. IsFiniteSet(DOMAIN accounts) /\ DOMAIN confirmation_height = DOMAIN accounts
  BY <1>2, <1>3 DEF CountsRight, CementInv, HeightsKnown
<1>7. TypeOK
  <2>1. rep_weights \in [Account -> Amount]
    <3>1. \A r \in Account : SumFunction(holding(r)) % Modulus \in Amount
      BY SMTT(60), <1>2, <1>6, HoldingTallied, ConstantsAssumption DEF Amount
    <3> QED BY <3>1 DEF Resumed
  <2>2. block_count \in Nat /\ account_count \in Nat
    BY <1>3 DEF CountsRight, CountLaws
  <2>3. cemented_count \in Nat
    <3>1. IsFiniteSet(DOMAIN heights) /\ \A a \in DOMAIN heights : heights[a] \in Nat
      BY <1>2, <1>6 DEF heights, TablesTyped, HeightInfo
    <3> QED BY <3>1 DEF SumLaws, Resumed
  <2>4. epoch_2_started \in BOOLEAN /\ stack \in Seq(Frame)
    BY SMTT(60) DEF Resumed
  <2> QED BY <1>2, <2>1, <2>2, <2>3, <2>4 DEF TypeOK, TablesTyped
<1>8. StackInv
  <2>1. 1 .. Len(stack) = {} /\ 2 .. Len(stack) = {}
    BY SMTT(60) DEF Resumed
  <2> QED BY <2>1 DEF StackInv, ActivationsMatch, OnlyTopUnvisited, VisitedAreHeads,
                      NestedAtHead, NestedLater
<1>9. LedgerInv
  BY <1>2, <1>3, <1>4, <1>5, <1>7, <1>8 DEF LedgerInv, WorthInv
<1>10. RepWeightsDelegated
  <2> SUFFICES ASSUME NEW r \in Account
               PROVE  rep_weights[r] = SumFunction(weighed(r)) % Modulus
    BY DEF RepWeightsDelegated, weighed
  <2>1. weighed(r) = holding(r)
    BY NoneWaits DEF Resumed
  <2> QED BY <2>1 DEF Resumed
<1> QED BY <1>9, <1>10 DEF Resumed, CementedSum

(* What the write transactions of a node leave on disk: tables that satisfy *)
(* the invariant, with the whole supply in them.                            *)
Saved(t) ==
  /\ t = <<t[1], t[2], t[3], t[4], t[5]>>
  /\ Tables(t)!LedgerInv /\ Tables(t)!ReceiptsExact
  /\ SumFunction([a \in DOMAIN t[2] |-> t[2][a].balance])
     + SumFunction([key \in DOMAIN t[3] |-> t[3][key].amount]) = Modulus - 1
(* The tables may be saved at any point of a call.                          *)
LEMMA TablesSaved ==
  ASSUME LedgerInv, Books
  PROVE  Saved(tables)
<1>1. Tables(tables)!LedgerInv /\ Tables(tables)!ReceiptsExact
  BY SavedInv DEF Books
<1>2. /\ tables[1] = blocks /\ tables[2] = accounts /\ tables[3] = pending
      /\ tables[4] = frontiers /\ tables[5] = confirmation_height
      /\ tables = <<tables[1], tables[2], tables[3], tables[4], tables[5]>>
  BY DEF tables
<1> QED BY <1>1, <1>2 DEF Saved, Books, Conservation

(* What saved tables say, read into memory.                                 *)
LEMMA SavedRead == Saved(tables) => Tables(tables)!LedgerInv /\ Books
<1> SUFFICES ASSUME Saved(tables) PROVE Tables(tables)!LedgerInv /\ Books
  OBVIOUS
<1>1. ReceiptsExact
  BY WorthSame DEF SameWorth, Saved
<1>2. tables[2] = accounts /\ tables[3] = pending
  BY DEF tables
<1>3. Conservation
  BY <1>2 DEF Conservation, Saved
<1> QED BY <1>1, <1>3 DEF Saved, Books

(* Blocks cemented in the tables.                                           *)
InTables(h) ==
  /\ h \in DOMAIN blocks
  /\ blocks[h].height <= IF owner(h) \in DOMAIN confirmation_height
                         THEN confirmation_height[owner(h)].height ELSE 0
ConfirmedRight == \A h : block_confirmed(h) <=> InTables(h)
(* A block is confirmed just if the tables say so.                          *)
LEMMA ConfirmedRead == LedgerInv => ConfirmedRight
<1> SUFFICES ASSUME LedgerInv, NEW h PROVE block_confirmed(h) <=> InTables(h)
  BY DEF ConfirmedRight
<1>1. block_confirmed(h) => h \in DOMAIN blocks
  BY DEF block_confirmed, block_exists
<1>2. ASSUME h \in stored
      PROVE  /\ owner(h) \in DOMAIN confirmation_height
             /\ block_confirmed(h) <=> blocks[h].height <= confirmation_height[owner(h)].height
  <2>1. BlocksOwned /\ HeightsKnown
    BY DEF LedgerInv, ChainInv, CementInv
  <2> QED BY <1>2, <2>1, Confirmed DEF BlocksOwned, HeightsKnown
<1> QED BY <1>1, <1>2 DEF stored, InTables

(* Between calls no weight wraps around: what is delegated to one           *)
(* representative is at most the supply.                                    *)
LEMMA WeightsExact ==
  ASSUME CountLaws, SumLaws, BelowLaw, LedgerInv, Books, RepWeightsDelegated,
         stack = <<>>, NEW r \in Account
  PROVE  rep_weights[r] = SumFunction(weighed(r))
<1>1. TablesTyped /\ IsFiniteSet(DOMAIN accounts)
  BY DEF LedgerInv, TypeOK, TablesTyped, CountsRight
<1>2. weighed(r) = holding(r) /\ SumFunction(holding(r)) \in Nat
  BY <1>1, NoneWaits, HoldingTallied
<1>3. SumFunction(holding(r)) <= SumFunction(balances)
  <2>1. \A a \in DOMAIN accounts : accounts[a].balance \in Nat
    BY SMTT(60), <1>1, ConstantsAssumption DEF TablesTyped, AccountInfo, Amount
  <2>2. /\ IsFiniteSet(DOMAIN holding(r)) /\ DOMAIN balances = DOMAIN holding(r)
        /\ \A x \in DOMAIN holding(r) :
             holding(r)[x] \in Nat /\ balances[x] \in Nat /\ holding(r)[x] <= balances[x]
    BY SMTT(60), <1>1, <2>1 DEF holding, balances
  <2> QED BY <2>2 DEF BelowLaw
<1>4. SumFunction(balances) \in Nat /\ SumFunction(owing) \in Nat
  <2>1. Tallied(balances) /\ Tallied(owing)
    BY TalliedBefore
  <2> QED BY <2>1 DEF SumLaws, Tallied
<1>5. SumFunction(balances) + SumFunction(owing) = Modulus - 1
  BY DEF Books, Conservation, balances, owing
<1> DEFINE sum == SumFunction(holding(r))
<1>6. rep_weights[r] = sum % Modulus
  BY <1>2 DEF RepWeightsDelegated, weighed
<1>7. sum \in Nat /\ sum < Modulus /\ Modulus \in Nat
  BY SMTT(60), <1>2, <1>3, <1>4, <1>5, ConstantsAssumption
<1> HIDE DEF sum
<1>8. sum % Modulus = sum
  BY SMTT(60), <1>7
<1> QED BY <1>2, <1>6, <1>8 DEF sum

=============================================================================
