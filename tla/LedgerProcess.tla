--------------------------- MODULE LedgerProcess ----------------------------
(***************************************************************************)
(* The ledger_processor of secure/ledger.cpp: the result code of a block of*)
(* each of the five types, and what processing it writes.                  *)
(***************************************************************************)
EXTENDS LedgerTables

(* Result codes of ledger_processor, the checks in the order of the code.   *)

work_threshold(epoch, is_receive, is_epoch) ==
  IF epoch < 2 THEN publish_thresholds.epoch_1
  ELSE IF is_receive \/ is_epoch THEN publish_thresholds.epoch_2_receive
  ELSE publish_thresholds.epoch_2

(* valid_predecessor of the legacy types: no legacy block on a state block. *)
valid_predecessor(h) == Block[h].type # "state"

(* Defect: the fork test comes before the test for a gap.                   *)
send_block_result_fork_first(b) ==
  LET B == Block[b]
  IN IF block_exists(b) THEN "old"
     ELSE IF B.previous \notin DOMAIN frontiers THEN "fork"
     ELSE IF B.signer # frontiers[B.previous] THEN "bad_signature"
     ELSE IF account_get(frontiers[B.previous]).balance < B.balance THEN "negative_spend"
     ELSE "progress"
send_block_result(b) ==
  LET B == Block[b]
      account == frontiers[B.previous]
  IN IF block_exists(b) THEN "old"
     ELSE IF ~block_exists(B.previous) THEN "gap_previous"
     ELSE IF ~valid_predecessor(B.previous) THEN "block_position"
     ELSE IF B.previous \notin DOMAIN frontiers THEN "fork"
     ELSE IF B.signer # account THEN "bad_signature"
     ELSE IF B.difficulty < work_threshold(0, FALSE, FALSE) THEN "insufficient_work"
     ELSE IF account_get(account).balance < B.balance THEN "negative_spend"
     ELSE "progress"

change_block_result(b) ==
  LET B == Block[b]
  IN IF block_exists(b) THEN "old"
     ELSE IF ~block_exists(B.previous) THEN "gap_previous"
     ELSE IF ~valid_predecessor(B.previous) THEN "block_position"
     ELSE IF B.previous \notin DOMAIN frontiers THEN "fork"
     ELSE IF B.signer # frontiers[B.previous] THEN "bad_signature"
     ELSE IF B.difficulty < work_threshold(0, FALSE, FALSE) THEN "insufficient_work"
     ELSE "progress"

receive_block_result(b) ==
  LET B == Block[b]
      account == frontiers[B.previous]
      key == <<account, B.link>>
  IN IF block_exists(b) THEN "old"
     ELSE IF ~block_exists(B.previous) THEN "gap_previous"
     ELSE IF ~valid_predecessor(B.previous) THEN "block_position"
     ELSE IF B.previous \notin DOMAIN frontiers THEN "fork"
     ELSE IF B.signer # account THEN "bad_signature"
     ELSE IF ~source_exists(B.link) THEN "gap_source"
     ELSE IF account_get(account).head # B.previous THEN "gap_previous"
     ELSE IF key \notin DOMAIN pending \/ pending[key].epoch # 0 THEN "unreceivable"
     ELSE IF B.difficulty < work_threshold(0, FALSE, FALSE) THEN "insufficient_work"
     ELSE "progress"

open_block_result(b) ==
  LET B == Block[b]
      key == <<B.account, B.link>>
  IN IF block_exists(b) THEN "old"
     ELSE IF B.signer # B.account THEN "bad_signature"
     ELSE IF ~source_exists(B.link) THEN "gap_source"
     ELSE IF B.account \in DOMAIN accounts THEN "fork"
     ELSE IF key \notin DOMAIN pending THEN "unreceivable"
     ELSE IF B.account = Zero THEN "opened_burn_account"
     ELSE IF pending[key].epoch # 0 THEN "unreceivable"
     ELSE IF B.difficulty < work_threshold(0, FALSE, FALSE) THEN "insufficient_work"
     ELSE "progress"

(* A state block lowering the balance of its account is a send; any other   *)
(* one with a link receives from the block the link names.                  *)
is_send(b) == Block[b].account \in DOMAIN accounts
              /\ Block[b].balance < accounts[Block[b].account].balance
is_receive(b) == ~is_send(b) /\ Block[b].link # Zero
pending_key(b) == <<Block[b].account, Block[b].link>>

(* Defect: a receive takes the epoch of its send even if it is lower.       *)
state_block_epoch_of_source(b) ==
  IF is_receive(b) THEN pending[pending_key(b)].epoch ELSE account_get(Block[b].account).epoch
(* The epoch a state block leaves its account in.                           *)
state_block_epoch(b) ==
  LET own == account_get(Block[b].account).epoch
  IN IF is_receive(b) /\ pending[pending_key(b)].epoch > own
     THEN pending[pending_key(b)].epoch ELSE own

state_block_impl_result(b) ==
  LET B == Block[b]
      opened == B.account \in DOMAIN accounts
      info == account_get(B.account)
  IN IF block_exists(b) THEN "old"
     ELSE IF B.signer # B.account THEN "bad_signature"
     ELSE IF B.account = Zero THEN "opened_burn_account"
     ELSE IF opened /\ B.previous = Zero THEN "fork"
     ELSE IF opened /\ ~block_exists(B.previous) THEN "gap_previous"
     ELSE IF opened /\ B.previous # info.head THEN "fork"
     ELSE IF ~opened /\ B.previous # Zero THEN "gap_previous"
     ELSE IF ~opened /\ B.link = Zero THEN "gap_source"
     ELSE IF is_receive(b) /\ ~source_exists(B.link) THEN "gap_source"
     ELSE IF is_receive(b) /\ pending_key(b) \notin DOMAIN pending THEN "unreceivable"
     ELSE IF is_receive(b) /\ B.balance - info.balance # pending[pending_key(b)].amount
          THEN "balance_mismatch"
     ELSE IF ~is_send(b) /\ B.link = Zero /\ B.balance # info.balance
          THEN "balance_mismatch"
     ELSE IF B.difficulty < work_threshold(state_block_epoch(b), is_receive(b), FALSE)
          THEN "insufficient_work"
     ELSE "progress"

epoch_block_impl_result(b) ==
  LET B == Block[b]
      opened == B.account \in DOMAIN accounts
      info == account_get(B.account)
      epoch == EpochOf[B.link]
  IN IF block_exists(b) THEN "old"
     ELSE IF B.signer # EpochSigner[B.link] THEN "bad_signature"
     ELSE IF B.account = Zero THEN "opened_burn_account"
     ELSE IF opened /\ B.previous # info.head THEN "fork"
     ELSE IF B.representative # info.representative THEN "representative_mismatch"
     ELSE IF ~opened /\ ~pending_any(B.account) THEN "block_position"
     ELSE IF opened /\ epoch # info.epoch + 1 THEN "block_position"
     ELSE IF B.balance # info.balance THEN "balance_mismatch"
     ELSE IF B.difficulty < work_threshold(epoch, FALSE, TRUE) THEN "insufficient_work"
     ELSE "progress"

(* Defect: the previous block is not looked up.                             *)
epoch_previous_unknown(b) == Block[b].link \in EpochLink /\ Block[b].previous # Zero
(* validate_epoch_block: an epoch link with an unchanged balance makes an   *)
(* epoch block; with an unknown previous block only the signature is judged.*)
epoch_previous_missing(b) ==
  Block[b].link \in EpochLink /\ Block[b].previous # Zero /\ ~block_exists(Block[b].previous)
is_epoch_block(b) ==
  Block[b].link \in EpochLink /\ ~epoch_previous_missing(b)
  /\ Block[b].balance = balance(Block[b].previous)

state_block_result(b) ==
  IF epoch_previous_missing(b)
  THEN IF Block[b].signer \in {Block[b].account, EpochSigner[Block[b].link]}
       THEN "gap_previous" ELSE "bad_signature"
  ELSE IF is_epoch_block(b) THEN epoch_block_impl_result(b)
  ELSE state_block_impl_result(b)

result(b) ==
  CASE Block[b].type = "send" -> send_block_result(b)
    [] Block[b].type = "receive" -> receive_block_result(b)
    [] Block[b].type = "open" -> open_block_result(b)
    [] Block[b].type = "change" -> change_block_result(b)
    [] Block[b].type = "state" -> state_block_result(b)

-----------------------------------------------------------------------------
(* ledger::process runs to completion inside one write transaction.         *)
process(b, type) ==
  /\ stack = <<>>
  /\ Block[b].type = type
  /\ result(b) = "progress"
  /\ block_count' = block_count + 1
  /\ UNCHANGED <<cemented_count, stack>>

send_block(b) ==
  LET B == Block[b]
      account == frontiers[B.previous]
      info == accounts[account]
      sent == info.balance - B.balance
  IN /\ process(b, "send")
     /\ rep_weights' = representation_add(rep_weights, info.representative, 0 - sent)
     /\ block_put(b, block_sideband(account, B.balance, info.block_count + 1, 0))
     /\ change_latest(account, info, account_info(b, info.representative,
          info.open_block, B.balance, info.block_count + 1, 0))
     /\ pending' = Put(pending, <<B.link, b>>, pending_info(account, sent, 0))
     /\ frontiers' = Put(Del(frontiers, B.previous), b, account)
     /\ UNCHANGED epoch_2_started

receive_block(b) ==
  LET B == Block[b]
      account == frontiers[B.previous]
      info == accounts[account]
      key == <<account, B.link>>
      new_balance == (info.balance + pending[key].amount) % Modulus
  IN /\ process(b, "receive")
     /\ pending' = Del(pending, key)
     /\ block_put(b, block_sideband(account, new_balance, info.block_count + 1, 0))
     /\ change_latest(account, info, account_info(b, info.representative,
          info.open_block, new_balance, info.block_count + 1, 0))
     /\ rep_weights' =
          representation_add(rep_weights, info.representative, pending[key].amount)
     /\ frontiers' = Put(Del(frontiers, B.previous), b, account)
     /\ UNCHANGED epoch_2_started

open_block(b) ==
  LET B == Block[b]
      key == <<B.account, B.link>>
      received == pending[key].amount
  IN /\ process(b, "open")
     /\ pending' = Del(pending, key)
     /\ block_put(b, block_sideband(B.account, received, 1, 0))
     /\ change_latest(B.account, NoInfo,
          account_info(b, B.representative, b, received, 1, 0))
     /\ rep_weights' = representation_add(rep_weights, B.representative, received)
     /\ frontiers' = Put(frontiers, b, B.account)
     /\ UNCHANGED epoch_2_started

change_block(b) ==
  LET B == Block[b]
      account == frontiers[B.previous]
      info == accounts[account]
      bal == balance(B.previous)
  IN /\ process(b, "change")
     /\ block_put(b, block_sideband(account, info.balance, info.block_count + 1, 0))
     /\ rep_weights' =
          representation_add(representation_add(rep_weights, B.representative, bal),
                             info.representative, 0 - bal)
     /\ change_latest(account, info, account_info(b, B.representative,
          info.open_block, info.balance, info.block_count + 1, 0))
     /\ frontiers' = Put(Del(frontiers, B.previous), b, account)
     /\ UNCHANGED <<pending, epoch_2_started>>

(* The first block of an account is its open block.                         *)
open_block_or(info, b) == IF info.open_block = Zero THEN b ELSE info.open_block

state_block_impl(b) ==
  LET B == Block[b]
      info == account_get(B.account)
      epoch == state_block_epoch(b)
      moved == IF info.head # Zero
               THEN representation_add(rep_weights, info.representative, 0 - info.balance)
               ELSE rep_weights
  IN /\ process(b, "state")
     /\ ~is_epoch_block(b)
     /\ block_put(b, block_sideband(B.account, 0, info.block_count + 1, epoch))
     /\ rep_weights' = representation_add(moved, B.representative, B.balance)
     /\ pending' = IF is_send(b)
                   THEN Put(pending, <<B.link, b>>,
                            pending_info(B.account, info.balance - B.balance, epoch))
                   ELSE Del(pending, pending_key(b))
     /\ change_latest(B.account, info, account_info(b, B.representative,
          open_block_or(info, b), B.balance, info.block_count + 1, epoch))
     /\ frontiers' = Del(frontiers, info.head)
     /\ UNCHANGED epoch_2_started

epoch_block_impl(b) ==
  LET B == Block[b]
      info == account_get(B.account)
      epoch == EpochOf[B.link]
  IN /\ process(b, "state")
     /\ is_epoch_block(b)
     /\ block_put(b, block_sideband(B.account, 0, info.block_count + 1, epoch))
     /\ change_latest(B.account, info, account_info(b, B.representative,
          open_block_or(info, b), info.balance, info.block_count + 1, epoch))
     /\ frontiers' = Del(frontiers, info.head)
     /\ epoch_2_started' = (epoch_2_started \/ epoch = 2)
     /\ UNCHANGED <<pending, rep_weights>>

(* Any other result leaves the ledger as it was.                            *)
process_refused(b) == stack = <<>> /\ result(b) # "progress" /\ UNCHANGED vars

Process(b) ==
  \/ send_block(b) \/ receive_block(b) \/ open_block(b) \/ change_block(b)
  \/ state_block_impl(b) \/ epoch_block_impl(b) \/ process_refused(b)

-----------------------------------------------------------------------------
(* A state block on a block of another account, and a block that must       *)
(* receive and names no source.  The code has no result code of its own for *)
(* either.                                                                  *)
foreign(b) == Block[b].previous # Zero /\ Block[Block[b].previous].account # Block[b].account
sourceless(b) ==
  /\ Block[b].link = Zero
  /\ \/ Block[b].type \in {"receive", "open"}
     \/ Block[b].type = "state" /\ Block[b].previous = Zero

(* A block reported as a fork has a stored rival for its root and in its    *)
(* account, and it is the one that forked_block finds for the election.     *)
(* Only a state block on another account's block is a fork for another      *)
(* reason: forked_block then finds that account's next block, and nothing   *)
(* in the one case that its previous block is the head there.               *)
ForkHasRival ==
  \A b \in Hash : stack = <<>> /\ result(b) = "fork" =>
    LET ours == forked_block(b)
    IN \/ /\ ours \in DOMAIN blocks \ {b}
          /\ Block[ours].previous = Block[b].previous
          /\ foreign(b) \/ block_account(ours) = Block[b].account
       \/ /\ foreign(b) /\ ours = Zero
          /\ account_get(Block[Block[b].previous].account).head = Block[b].previous

(* What the assertions of forked_block claim of every fork: the root is a   *)
(* block with a successor, or an open account.                              *)
ForkedBlockFound ==
  \A b \in Hash : stack = <<>> /\ result(b) = "fork" => forked_block(b) # Zero

(* A gap is reported of a block that is missing what it is parked under:    *)
(* its previous block, or a send to receive from.  Once that is stored, it  *)
(* is not parked again.  The exceptions are the blocks on another account's *)
(* block and those without a source: parked under what is there already, or *)
(* under no hash, they wait for nothing.  The ledger takes them at no time. *)
GapMissesDependency ==
  \A b \in Hash : stack = <<>> =>
    /\ result(b) = "gap_previous" =>
         \/ ~block_exists(Block[b].previous)
         \/ foreign(b) /\ Block[b].account \notin DOMAIN accounts
    /\ result(b) = "gap_source" =>
         ~source_exists(Block[b].link) /\ (Block[b].link = Zero => sourceless(b))
    /\ foreign(b) \/ sourceless(b) => result(b) # "progress"

=============================================================================
