---------------------------- MODULE LedgerTables ----------------------------
(***************************************************************************)
(* The tables of secure/blockstore_partial.hpp and the caches kept beside  *)
(* them, with the reads and writes that secure/ledger.cpp is made of.      *)
(*                                                                         *)
(* A block is identified by its hash, so its contents are a constant: the  *)
(* function Block gives the fields of every hash that may ever arrive.     *)
(* What varies is which hashes are stored, their sidebands, and the        *)
(* account, pending, frontier and confirmation height tables.              *)
(*                                                                         *)
(* An operator marked "Defect" is a variant of the one after it with a     *)
(* mistake that could be made there.  The specification uses none of them; *)
(* they serve to show that the properties notice such a mistake.           *)
(***************************************************************************)
EXTENDS Integers, Sequences, FiniteSets

CONSTANTS
  Hash,               \* the blocks that may arrive, by hash
  Account,            \* public keys, the burn account Zero among them
  Zero,               \* the all-zero 256 bit value: no hash, no link, burn account
  EpochLink,          \* the reserved links of epoch blocks
  Block,              \* the contents of each block
  EpochOf,            \* the epoch an epoch link upgrades to
  EpochSigner,        \* the account that signs epoch blocks with a link
  GenesisHash,
  GenesisAccount,
  Modulus,            \* 2^128 in the code: amounts are unsigned 128 bit integers
  Rank,               \* an order in which the blocks can have been created
  publish_thresholds  \* work difficulty required of each class of block

Amount == 0 .. Modulus - 1
Epoch == 0 .. 2
Destination == Account \cup EpochLink
BlockType == {"send", "receive", "open", "change", "state"}

(* What the code knows of a block from its bytes.  link is the destination  *)
(* of a legacy send, the source of a legacy receive or open, and the link   *)
(* of a state block; signer is the key its signature verifies against.      *)
BlockContents ==
  [type : BlockType, account : Account, previous : Hash \cup {Zero},
   representative : Account, balance : Amount,
   link : Account \cup EpochLink \cup Hash, signer : Account, difficulty : Nat]

ASSUME ConstantsAssumption ==
  /\ Zero \in Account /\ Zero \notin Hash
  /\ Hash \cap Destination = {} /\ Account \cap EpochLink = {}
  /\ Modulus \in Nat \ {0}
  /\ EpochOf \in [EpochLink -> {1, 2}]
  /\ EpochSigner \in [EpochLink -> Account]
  /\ publish_thresholds \in [epoch_1 : Nat, epoch_2 : Nat, epoch_2_receive : Nat]

(* A send, receive or change block names no account: it belongs to the      *)
(* chain its previous block belongs to, and account stands for that.  The   *)
(* code does not check the previous block of an epoch block that opens an   *)
(* account; the holder of the epoch key signs no block of another chain.    *)
ASSUME BlockAssumption ==
  /\ Block \in [Hash -> BlockContents]
  /\ \A h \in Hash : Block[h].type = "open" => Block[h].previous = Zero
  /\ \A h \in Hash : Block[h].type = "send" => Block[h].link \in Destination
  /\ \A h \in Hash :
       /\ Block[h].previous # Zero
       /\ \/ Block[h].type # "state"
          \/ Block[h].link \in EpochLink /\ Block[h].signer = EpochSigner[Block[h].link]
       => Block[h].account = Block[Block[h].previous].account

(* A hash covers the hashes its block names, so blocks cannot name each     *)
(* other in a circle: each is created after the ones it names.              *)
ASSUME RankAssumption ==
  /\ Rank \in [Hash -> Nat]
  /\ \A h \in Hash : \A d \in Hash \cap {Block[h].previous, Block[h].link} :
       Rank[d] < Rank[h]

(* The genesis block is the legacy open block of the genesis account, with  *)
(* the account itself in the place of a source.                             *)
ASSUME GenesisAssumption ==
  /\ GenesisHash \in Hash /\ GenesisAccount \in Account \ {Zero}
  /\ Block[GenesisHash].type = "open"
  /\ Block[GenesisHash].account = GenesisAccount
  /\ Block[GenesisHash].representative = GenesisAccount
  /\ Block[GenesisHash].link = GenesisAccount

-----------------------------------------------------------------------------
VARIABLES
  blocks,               \* block tables: hash -> sideband
  accounts,             \* accounts table: account -> account_info
  pending,              \* pending table: <<destination, send hash>> -> pending_info
  frontiers,            \* frontiers table: head of a legacy chain -> account
  confirmation_height,  \* account -> [height, frontier]
  rep_weights,          \* cache.rep_weights
  block_count,          \* cache.block_count
  account_count,        \* cache.account_count
  cemented_count,       \* cache.cemented_count
  epoch_2_started,      \* cache.epoch_2_started
  stack                 \* activations of ledger::rollback, outermost first

tables == <<blocks, accounts, pending, frontiers, confirmation_height>>
caches == <<rep_weights, block_count, account_count, cemented_count, epoch_2_started>>
vars == <<blocks, accounts, pending, frontiers, confirmation_height,
          rep_weights, block_count, account_count, cemented_count,
          epoch_2_started, stack>>

Put(table, key, value) ==
  [k \in DOMAIN table \cup {key} |-> IF k = key THEN value ELSE table[k]]
Del(table, key) == [k \in DOMAIN table \ {key} |-> table[k]]

Sideband ==
  [account : Account, successor : Hash \cup {Zero}, balance : Amount,
   height : Nat, epoch : Epoch]
AccountInfo ==
  [head : Hash \cup {Zero}, representative : Account, open_block : Hash \cup {Zero},
   balance : Amount, block_count : Nat, epoch : Epoch]
PendingInfo == [source : Account, amount : Amount, epoch : Epoch]
HeightInfo == [height : Nat, frontier : Hash \cup {Zero}]

(* A default-constructed account_info.                                      *)
NoInfo == [head |-> Zero, representative |-> Zero, open_block |-> Zero,
           balance |-> 0, block_count |-> 0, epoch |-> 0]

(* One activation of ledger::rollback: its target with the account and the  *)
(* height read on entry, the send block being visited while its receiver is *)
(* rolled back (Zero when none is), and the account_info that the state     *)
(* block visitor read before that nested rollback.                          *)
Frame == [block : Hash, account : Account, height : Nat,
          visit : Hash \cup {Zero}, info : AccountInfo]

-----------------------------------------------------------------------------
(* Reads.                                                                   *)

account_get(a) == IF a \in DOMAIN accounts THEN accounts[a] ELSE NoInfo
block_exists(h) == h \in DOMAIN blocks

(* A block's place: the block it follows, or the account it opens; and the  *)
(* block that ledger::forked_block finds there, Zero for none.              *)
root(h) == IF Block[h].previous # Zero THEN Block[h].previous ELSE Block[h].account
block_successor(h) == IF block_exists(h) THEN blocks[h].successor ELSE Zero
forked_block(h) ==
  IF block_successor(root(h)) # Zero THEN block_successor(root(h))
  ELSE account_get(root(h)).open_block

source_exists(h) == h \in DOMAIN blocks /\ Block[h].type \in {"send", "state"}
pending_any(a) == \E key \in DOMAIN pending : key[1] = a

(* Defect: the balance of a state block is taken from its sideband.         *)
block_balance_of_sideband(h) ==
  IF Block[h].type = "send" THEN Block[h].balance ELSE blocks[h].balance
block_balance_calculated(h) ==
  IF Block[h].type \in {"send", "state"} THEN Block[h].balance ELSE blocks[h].balance
balance(h) == IF h = Zero THEN 0 ELSE block_balance_calculated(h)
block_account(h) == IF Block[h].type = "state" THEN Block[h].account ELSE blocks[h].account

(* Defect: the balance after the block for what it moves.                   *)
amount_as_balance(h) == balance(h)
amount(h) ==
  LET before == balance(Block[h].previous)
  IN IF balance(h) > before THEN balance(h) - before ELSE before - balance(h)

(* Defect: the epoch of a state block is not read.                          *)
block_version_legacy(h) == 0
block_version(h) ==
  IF block_exists(h) /\ Block[h].type = "state" THEN blocks[h].epoch ELSE 0

(* representative_visitor: the block that names the representative in force *)
(* at a block; legacy sends and receives inherit it.                        *)
representative_block[h \in Hash] ==
  IF Block[h].type \in {"send", "receive"} /\ Block[h].previous \in Hash
  THEN representative_block[Block[h].previous] ELSE h
representative_before(h) ==
  IF Block[h].previous = Zero THEN Zero
  ELSE Block[representative_block[Block[h].previous]].representative

(* rep_weights::representation_add; a subtraction is passed as 0 - amount,  *)
(* which unsigned arithmetic wraps.                                         *)
representation_add(weights, representative, delta) ==
  [weights EXCEPT ![representative] = (@ + delta) % Modulus]

(* Whether a stored block sends, and the blocks it depends on: its previous *)
(* block and the send it receives from.                                     *)
sends(h) ==
  \/ Block[h].type = "send"
  \/ Block[h].type = "state" /\ Block[h].balance < balance(Block[h].previous)
block_source(h) ==
  IF Block[h].type \in {"receive", "open", "state"} /\ ~sends(h)
  THEN Block[h].link ELSE Zero
dependent_blocks(h) == Hash \cap {Block[h].previous, block_source(h)}

block_confirmed(h) ==
  block_exists(h) /\ blocks[h].height <= confirmation_height[block_account(h)].height

(* Defect: the source of a receive need not be confirmed.                   *)
can_vote_on_previous(h) == \A d \in Hash \cap {Block[h].previous} : block_confirmed(d)
can_vote(h) == \A d \in dependent_blocks(h) : block_confirmed(d)

-----------------------------------------------------------------------------
(* Writes shared by the handlers.                                           *)

(* block_put, which also makes the block the successor of its previous one. *)
block_put(b, sideband) ==
  blocks' = [h \in DOMAIN blocks \cup {b} |->
               IF h = b THEN sideband
               ELSE IF h = Block[b].previous THEN [blocks[h] EXCEPT !.successor = b]
               ELSE blocks[h]]

(* block_del, with block_successor_clear on the block's previous one.       *)
block_del(b) ==
  blocks' = [h \in DOMAIN blocks \ {b} |->
               IF h = Block[b].previous THEN [blocks[h] EXCEPT !.successor = Zero]
               ELSE blocks[h]]

(* Defect: the confirmation height of a closed account is left.             *)
change_latest_keeping_height(a, old, new) ==
  LET opens == old.head = Zero /\ new.open_block = new.head
  IN /\ accounts' = IF new.head # Zero THEN Put(accounts, a, new) ELSE Del(accounts, a)
     /\ confirmation_height' =
          IF new.head # Zero /\ opens
          THEN Put(confirmation_height, a, [height |-> 0, frontier |-> Zero])
          ELSE confirmation_height
     /\ account_count' = IF new.head = Zero THEN account_count - 1
                         ELSE account_count + IF opens THEN 1 ELSE 0
(* Defect: an account back at its open block is taken for a new one.        *)
change_latest_reopening(a, old, new) ==
  LET opens == new.open_block = new.head
  IN IF new.head # Zero
     THEN /\ accounts' = Put(accounts, a, new)
          /\ confirmation_height' =
               IF opens THEN Put(confirmation_height, a, [height |-> 0, frontier |-> Zero])
               ELSE confirmation_height
          /\ account_count' = account_count + IF opens THEN 1 ELSE 0
     ELSE /\ accounts' = Del(accounts, a)
          /\ confirmation_height' = Del(confirmation_height, a)
          /\ account_count' = account_count - 1
change_latest(a, old, new) ==
  LET opens == old.head = Zero /\ new.open_block = new.head
  IN IF new.head # Zero
     THEN /\ accounts' = Put(accounts, a, new)
          /\ confirmation_height' =
               IF opens THEN Put(confirmation_height, a, [height |-> 0, frontier |-> Zero])
               ELSE confirmation_height
          /\ account_count' = account_count + IF opens THEN 1 ELSE 0
     ELSE /\ accounts' = Del(accounts, a)
          /\ confirmation_height' = Del(confirmation_height, a)
          /\ account_count' = account_count - 1

account_info(head, representative, open_block, bal, count, epoch) ==
  [head |-> head, representative |-> representative, open_block |-> open_block,
   balance |-> bal, block_count |-> count, epoch |-> epoch]
block_sideband(account, bal, height, epoch) ==
  [account |-> account, successor |-> Zero, balance |-> bal, height |-> height,
   epoch |-> epoch]
pending_info(source, amt, epoch) == [source |-> source, amount |-> amt, epoch |-> epoch]

(* The activation of rollback that is running, and its test of the          *)
(* confirmation height.                                                     *)
top == stack[Len(stack)]
above_confirmation_height(frame) ==
  frame.height > confirmation_height[frame.account].height

-----------------------------------------------------------------------------
(* block_store_partial::initialize: the genesis block, cemented.            *)
Init ==
  LET g == GenesisHash
      a == GenesisAccount
      genesis_amount == Modulus - 1
  IN /\ blocks = [h \in {g} |-> block_sideband(a, genesis_amount, 1, 0)]
     /\ accounts = [x \in {a} |-> account_info(g, a, g, genesis_amount, 1, 0)]
     /\ pending = [k \in {} |-> pending_info(a, 0, 0)]
     /\ frontiers = [h \in {g} |-> a]
     /\ confirmation_height = [x \in {a} |-> [height |-> 1, frontier |-> g]]
     /\ rep_weights = [x \in Account |-> IF x = a THEN genesis_amount ELSE 0]
     /\ block_count = 1
     /\ account_count = 1
     /\ cemented_count = 1
     /\ epoch_2_started = FALSE
     /\ stack = <<>>

(* Defect: a block may be cemented before the blocks it depends on.         *)
Cement_out_of_order(a) ==
  /\ stack = <<>>
  /\ a \in DOMAIN accounts
  /\ \E h \in DOMAIN blocks :
       /\ block_account(h) = a
       /\ blocks[h].height = confirmation_height[a].height + 1
       /\ confirmation_height' =
            Put(confirmation_height, a, [height |-> blocks[h].height, frontier |-> h])
  /\ cemented_count' = cemented_count + 1
  /\ UNCHANGED <<blocks, accounts, pending, frontiers, rep_weights, block_count,
                 account_count, epoch_2_started, stack>>
(* The confirmation height processors cement the blocks of an account in    *)
(* order, each after the blocks it depends on.                              *)
Cement(a) ==
  /\ stack = <<>>
  /\ a \in DOMAIN accounts
  /\ \E h \in DOMAIN blocks :
       /\ block_account(h) = a
       /\ blocks[h].height = confirmation_height[a].height + 1
       /\ can_vote(h)
       /\ confirmation_height' =
            Put(confirmation_height, a, [height |-> blocks[h].height, frontier |-> h])
  /\ cemented_count' = cemented_count + 1
  /\ UNCHANGED <<blocks, accounts, pending, frontiers, rep_weights, block_count,
                 account_count, epoch_2_started, stack>>

=============================================================================
