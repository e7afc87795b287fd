-------------------------- MODULE LedgerProperties --------------------------
(***************************************************************************)
(* What the tables and caches of Ledger must satisfy, also between the     *)
(* steps of a rollback.                                                    *)
(***************************************************************************)
EXTENDS LedgerInvariant, Functions

(* A block is linked to its neighbours in the chain and to account_info.    *)
ChainLinked(h) ==
  LET previous == Block[h].previous
      account == block_account(h)
  IN /\ account \in DOMAIN accounts
     /\ IF previous = Zero
        THEN blocks[h].height = 1 /\ accounts[account].open_block = h
        ELSE /\ block_exists(previous)
             /\ block_account(previous) = account
             /\ blocks[h].height = blocks[previous].height + 1
             /\ blocks[previous].successor = h
     /\ IF blocks[h].successor = Zero
        THEN accounts[account].head = h
        ELSE block_exists(blocks[h].successor) /\ Block[blocks[h].successor].previous = h
(* The blocks of an account form one chain: account_info points at both     *)
(* ends, heights count from 1, and the successor field written by block_put *)
(* and block_successor_clear is the inverse of previous.  The frontiers     *)
(* table, which keeps legacy blocks off state blocks and off the middle of  *)
(* a chain, holds just the heads that a legacy block may follow.            *)
ChainsLinked ==
  /\ \A h \in DOMAIN blocks : ChainLinked(h)
  /\ \A a \in DOMAIN accounts :
       /\ block_exists(accounts[a].head) /\ block_account(accounts[a].head) = a
       /\ accounts[a].block_count = Cardinality({h \in DOMAIN blocks : block_account(h) = a})
  /\ frontiers = [h \in {x \in DOMAIN blocks : Block[x].type # "state"
                                               /\ blocks[x].successor = Zero}
                  |-> block_account(h)]

(* account_info holds the balance, representative and epoch its head block  *)
(* gives the account, whichever blocks were processed and undone before.    *)
AccountsMatchHeads ==
  \A a \in DOMAIN accounts :
    LET info == accounts[a]
    IN /\ info.balance = balance(info.head)
       /\ info.representative = Block[representative_block[info.head]].representative
       /\ info.epoch = block_version(info.head)

(* The epoch never falls along a chain, and no account is in epoch 2 before *)
(* the node has noted that epoch 2 has started.                             *)
EpochsOrdered ==
  /\ \A h \in DOMAIN blocks : Block[h].previous # Zero =>
       block_version(Block[h].previous) <= block_version(h)
  /\ (\E a \in DOMAIN accounts : accounts[a].epoch = 2) => epoch_2_started

(* A send is received at most once, by its destination, and is pending as   *)
(* long as it is not: the pending table is exactly the unreceived sends,    *)
(* with the amount, source and epoch of each, also when a receive was       *)
(* undone by a rollback.                                                    *)
receivers(h) == {r \in DOMAIN blocks : block_source(r) = h}
SendsPendingOrReceived ==
  /\ \A h \in DOMAIN blocks : sends(h) =>
       /\ Cardinality(receivers(h)) <= 1
       /\ \A r \in receivers(h) : block_account(r) = Block[h].link
  /\ DOMAIN pending = {<<Block[h].link, h>> :
                         h \in {x \in DOMAIN blocks : sends(x) /\ receivers(x) = {}}}
  /\ \A key \in DOMAIN pending :
       pending[key] = pending_info(block_account(key[2]), amount(key[2]),
                                   block_version(key[2]))

(* No amount is created or destroyed: balances and pending amounts add up   *)
(* to the genesis amount.                                                   *)
Conservation ==
  SumFunction([a \in DOMAIN accounts |-> accounts[a].balance])
  + SumFunction([key \in DOMAIN pending |-> pending[key].amount]) = Modulus - 1

(* Each representative's cached weight is the balance delegated to it.  A   *)
(* state send whose rollback waits for its receiver already counts with the *)
(* balance and representative before it, so that until the receiver is      *)
(* undone too the amount counts twice and a weight may wrap around.         *)
waits(h) == Block[h].type = "state" /\ \E i \in 1 .. Len(stack) : stack[i].visit = h
standing(a) ==
  LET info == accounts[a]
  IN IF waits(info.head)
     THEN [representative |-> representative_before(info.head),
           balance |-> balance(Block[info.head].previous)]
     ELSE [representative |-> info.representative, balance |-> info.balance]
delegated(a, r) == IF standing(a).representative = r THEN standing(a).balance ELSE 0
RepWeightsDelegated ==
  \A r \in Account :
    rep_weights[r] = SumFunction([a \in DOMAIN accounts |-> delegated(a, r)]) % Modulus

(* The counters kept beside the tables agree with them.                     *)
CountsMatchTables ==
  /\ block_count = Cardinality(DOMAIN blocks)
  /\ account_count = Cardinality(DOMAIN accounts)
  /\ cemented_count =
       SumFunction([a \in DOMAIN confirmation_height |-> confirmation_height[a].height])

-----------------------------------------------------------------------------
(* Cementing is final: no rollback, of whatever block and however deep it   *)
(* recurses, removes a block at or below a confirmation height.             *)
CementedStay == [][\A h \in Hash : block_confirmed(h) => block_confirmed(h)']_vars

(* A cemented block stands on cemented blocks, in its own chain and across  *)
(* chains, and the confirmation height names the block at that height.      *)
CementedClosed ==
  /\ DOMAIN confirmation_height = DOMAIN accounts
  /\ \A h \in DOMAIN blocks : block_confirmed(h) => can_vote(h)
  /\ \A a \in DOMAIN confirmation_height :
       LET info == confirmation_height[a]
       IN IF info.height = 0 THEN info.frontier = Zero
          ELSE /\ block_exists(info.frontier) /\ block_account(info.frontier) = a
               /\ blocks[info.frontier].height = info.height

(* A nested rollback is never refused.  Both visitors rely on it: the state *)
(* block visitor would abort, the legacy one would give up half way.        *)
NestedRollbackAllowed ==
  \A i \in 2 .. Len(stack) : block_exists(stack[i].block) => above_confirmation_height(stack[i])

(* While a send waits for its receiver to be rolled back its own account is *)
(* not touched: it is still the head, and the account_info the state block  *)
(* visitor read before the nested rollback is still the stored one.         *)
VisitedUntouched ==
  \A i \in 1 .. Len(stack) : stack[i].visit # Zero =>
    /\ block_exists(stack[i].visit)
    /\ accounts[stack[i].account].head = stack[i].visit
    /\ Block[stack[i].visit].type = "state" => stack[i].info = accounts[stack[i].account]

(* A rollback removes its target and what depends on it, nothing else.      *)
ancestors[h \in Hash] ==
  LET direct == Hash \cap {Block[h].previous, Block[h].link}
  IN direct \cup UNION {ancestors[d] : d \in direct}
OnlyDependentsRemoved ==
  [][\A h \in DOMAIN blocks \ DOMAIN blocks' :
       h = stack[1].block \/ stack[1].block \in ancestors[h]]_vars

(* Every rollback comes to an end, with its target gone or refused because  *)
(* the target is cemented; it never aborts on a missing entry.              *)
RollbackEnds == stack # <<>> ~> stack = <<>>

=============================================================================
