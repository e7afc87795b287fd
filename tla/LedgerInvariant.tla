-------------------------- MODULE LedgerInvariant --------------------------
(***************************************************************************)
(* An inductive invariant of Ledger.  Every conjunct is about single       *)
(* blocks, accounts, entries or activations, so that a step disturbs only  *)
(* the instances it touches.                                               *)
(***************************************************************************)
EXTENDS LedgerTables

(* Every table, counter and cache holds values of its type.                 *)
TypeOK ==
  /\ DOMAIN blocks \subseteq Hash /\ blocks \in [DOMAIN blocks -> Sideband]
  /\ DOMAIN accounts \subseteq Account /\ accounts \in [DOMAIN accounts -> AccountInfo]
  /\ DOMAIN pending \subseteq (Destination \cup Hash) \X Hash
  /\ pending \in [DOMAIN pending -> PendingInfo]
  /\ DOMAIN frontiers \subseteq Hash /\ frontiers \in [DOMAIN frontiers -> Account]
  /\ DOMAIN confirmation_height \subseteq Account
  /\ confirmation_height \in [DOMAIN confirmation_height -> HeightInfo]
  /\ rep_weights \in [Account -> Amount]
  /\ block_count \in Nat /\ account_count \in Nat /\ cemented_count \in Nat
  /\ epoch_2_started \in BOOLEAN
  /\ stack \in Seq(Frame)

stored == DOMAIN blocks
owner(h) == Block[h].account

(* A stored block is of an open account and within its chain.               *)
BlocksOwned ==
  \A h \in stored :
    /\ blocks[h].account = owner(h)
    /\ owner(h) \in DOMAIN accounts
    /\ 1 <= blocks[h].height /\ blocks[h].height <= accounts[owner(h)].block_count

(* It stands on a stored block of the same account, or opens it.            *)
BlocksOnPrevious ==
  \A h \in stored :
    LET previous == Block[h].previous
    IN IF previous = Zero
       THEN blocks[h].height = 1 /\ Block[h].type \in {"open", "state"}
       ELSE /\ previous \in stored
            /\ owner(previous) = owner(h)
            /\ Block[h].type # "state" => Block[previous].type # "state"
            /\ blocks[h].height = blocks[previous].height + 1

(* A height is taken once, and blocks higher up were created later.         *)
HeightsOrdered ==
  \A h, k \in stored : owner(h) = owner(k) =>
    /\ blocks[h].height = blocks[k].height => h = k
    /\ blocks[h].height <= blocks[k].height => Rank[h] <= Rank[k]

HeadsStored ==
  \A a \in DOMAIN accounts :
    LET info == accounts[a]
    IN /\ info.head \in stored
       /\ owner(info.head) = a
       /\ blocks[info.head].height = info.block_count
       /\ info.balance = balance(info.head)

ChangesKeepBalance ==
  \A h \in stored : Block[h].type = "change" =>
    Block[h].previous # Zero /\ blocks[h].balance = balance(Block[h].previous)

FrontiersAreHeads ==
  \A h \in DOMAIN frontiers :
    /\ frontiers[h] \in DOMAIN accounts
    /\ accounts[frontiers[h]].head = h
    /\ Block[h].type # "state"

(* The successor field is the inverse of previous, and account_info names   *)
(* both ends of the chain.                                                  *)
NeighboursLinked ==
  \A h \in stored :
    /\ IF Block[h].previous = Zero
       THEN accounts[owner(h)].open_block = h
       ELSE blocks[Block[h].previous].successor = h
    /\ IF blocks[h].successor = Zero
       THEN accounts[owner(h)].head = h
       ELSE blocks[h].successor \in stored /\ Block[blocks[h].successor].previous = h
OpenBlocksStored ==
  \A a \in DOMAIN accounts :
    LET h == accounts[a].open_block
    IN h \in stored /\ owner(h) = a /\ Block[h].previous = Zero
LegacyHeadsAreFrontiers ==
  \A a \in DOMAIN accounts :
    Block[accounts[a].head].type # "state" => accounts[a].head \in DOMAIN frontiers

(* Sends and what became of them.                                           *)
is_receiver(h) ==
  /\ h # GenesisHash
  /\ ~sends(h)
  /\ \/ Block[h].type \in {"receive", "open"}
     \/ Block[h].type = "state" /\ Block[h].link # Zero /\ Block[h].link \notin EpochLink

ReceiversHaveSends ==
  \A r \in stored : is_receiver(r) =>
    /\ Block[r].link \in stored
    /\ sends(Block[r].link)
    /\ Block[Block[r].link].link = owner(r)

PendingAreSends ==
  \A key \in DOMAIN pending :
    /\ key[2] \in stored
    /\ sends(key[2])
    /\ key = <<Block[key[2]].link, key[2]>>
    /\ pending[key].source = owner(key[2])

PendingNotReceived ==
  \A key \in DOMAIN pending : \A r \in stored : is_receiver(r) => Block[r].link # key[2]

ReceivedOnce ==
  \A r, q \in stored : is_receiver(r) /\ is_receiver(q) /\ Block[r].link = Block[q].link => r = q

SendsAccounted ==
  \A h \in stored : sends(h) =>
    \/ <<Block[h].link, h>> \in DOMAIN pending
    \/ \E r \in stored : is_receiver(r) /\ Block[r].link = h

(* What the tables say of a block follows from the blocks below it.         *)
HeadsInForce ==
  \A a \in DOMAIN accounts :
    LET info == accounts[a]
    IN /\ info.representative = Block[representative_block[info.head]].representative
       /\ info.epoch = block_version(info.head)
PendingExact ==
  \A key \in DOMAIN pending :
    pending[key].amount = amount(key[2]) /\ pending[key].epoch = block_version(key[2])
ReceiptsMatch ==
  \A r \in stored : is_receiver(r) =>
    LET type == Block[r].type
        before == balance(Block[r].previous)
        sent == amount(Block[r].link)
    IN /\ type = "state" => Block[r].balance - before = sent
       /\ type = "open" => blocks[r].balance = sent
       /\ type = "receive" => blocks[r].balance = (before + sent) % Modulus
       /\ type # "state" => block_version(Block[r].link) = 0
SendsPay ==
  \A h \in stored : Block[h].type = "send" => Block[h].balance <= balance(Block[h].previous)
OthersKeepBalance ==
  \A h \in stored : Block[h].type = "state" /\ ~sends(h) /\ ~is_receiver(h) =>
    Block[h].balance = balance(Block[h].previous)
EpochsRise ==
  \A h \in stored :
    /\ Block[h].previous # Zero => block_version(Block[h].previous) <= block_version(h)
    /\ block_version(h) = 2 => epoch_2_started

(* Confirmation heights.                                                    *)
HeightsKnown ==
  /\ DOMAIN confirmation_height = DOMAIN accounts
  /\ \A a \in DOMAIN accounts : confirmation_height[a].height <= accounts[a].block_count
GenesisCemented ==
  /\ GenesisHash \in stored /\ block_confirmed(GenesisHash)
  /\ blocks[GenesisHash].height = 1 /\ blocks[GenesisHash].balance = Modulus - 1
CementedOnCemented ==
  \A h \in stored : block_confirmed(h) => can_vote(h)
CementedFrontiers ==
  \A a \in DOMAIN confirmation_height :
    LET info == confirmation_height[a]
    IN IF info.height = 0 THEN info.frontier = Zero
       ELSE info.frontier \in stored /\ owner(info.frontier) = a
            /\ blocks[info.frontier].height = info.height

(* Activations of rollback.                                                 *)
ActivationsMatch ==
  \A i \in 1 .. Len(stack) : stack[i].block \in stored =>
    stack[i].account = owner(stack[i].block) /\ stack[i].height = blocks[stack[i].block].height
OnlyTopUnvisited == \A i \in 1 .. Len(stack) : i < Len(stack) => stack[i].visit # Zero
VisitedAreHeads ==
  \A i \in 1 .. Len(stack) :
    LET frame == stack[i]
    IN frame.visit # Zero =>
         /\ frame.block \in stored
         /\ frame.visit \in stored
         /\ sends(frame.visit)
         /\ frame.account \in DOMAIN accounts
         /\ accounts[frame.account].head = frame.visit
         /\ Block[frame.visit].type \in {"send", "state"}
         /\ Block[frame.visit].type = "state" => frame.info = accounts[frame.account]
         /\ blocks[frame.visit].height > confirmation_height[frame.account].height
NestedAtHead ==
  \A i \in 2 .. Len(stack) :
    LET frame == stack[i]
    IN frame.block \in stored =>
         /\ accounts[frame.account].head = frame.block
         /\ frame.height > confirmation_height[frame.account].height
NestedLater ==
  \A i, j \in 1 .. Len(stack) : i < j /\ stack[j].block \in stored =>
    Rank[stack[i].visit] < Rank[stack[j].block]

CountsRight ==
  /\ IsFiniteSet(stored) /\ block_count = Cardinality(stored)
  /\ IsFiniteSet(DOMAIN accounts) /\ account_count = Cardinality(DOMAIN accounts)
  /\ \A a \in DOMAIN accounts :
       accounts[a].block_count = Cardinality({h \in stored : owner(h) = a})

ChainInv == BlocksOwned /\ BlocksOnPrevious /\ HeightsOrdered /\ HeadsStored
            /\ ChangesKeepBalance /\ FrontiersAreHeads
LinkInv == NeighboursLinked /\ OpenBlocksStored /\ LegacyHeadsAreFrontiers
SendInv == ReceiversHaveSends /\ PendingAreSends /\ PendingNotReceived /\ ReceivedOnce
           /\ SendsAccounted
WorthInv == HeadsInForce /\ PendingExact /\ ReceiptsMatch /\ SendsPay /\ OthersKeepBalance
            /\ EpochsRise
CementInv == HeightsKnown /\ GenesisCemented /\ CementedOnCemented /\ CementedFrontiers
StackInv == ActivationsMatch /\ OnlyTopUnvisited /\ VisitedAreHeads /\ NestedAtHead
            /\ NestedLater

(* The tables, the caches and the rollback stack fit together: the          *)
(* strengthening of the safety properties that every step of process,       *)
(* rollback and cementing preserves.                                        *)
LedgerInv == TypeOK /\ ChainInv /\ LinkInv /\ SendInv /\ WorthInv /\ CementInv /\ StackInv
             /\ CountsRight

(* A legacy receive adds the amount sent without a wrap-around, so that     *)
(* undoing it takes just that amount away.                                  *)
ReceiptsExact ==
  \A r \in stored : is_receiver(r) /\ Block[r].type = "receive" =>
    blocks[r].balance = balance(Block[r].previous) + amount(Block[r].link)

=============================================================================
