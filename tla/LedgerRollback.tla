--------------------------- MODULE LedgerRollback ---------------------------
(***************************************************************************)
(* ledger::rollback and the rollback_visitor of secure/ledger.cpp.         *)
(*                                                                         *)
(* ledger::rollback is recursive.  Its call stack is the variable stack    *)
(* and each of its steps is an action; a write transaction is held         *)
(* throughout, so nothing else writes while the stack is not empty.        *)
(*                                                                         *)
(* A deletion of a missing key and a lookup that the code asserts to       *)
(* succeed are guards here: where the program would abort, the model is    *)
(* stuck with a stack that is not empty.                                   *)
(***************************************************************************)
EXTENDS LedgerTables

activation(h) ==
  [block |-> h, account |-> block_account(h), height |-> blocks[h].height,
   visit |-> Zero, info |-> NoInfo]

RollbackStart(h) ==
  /\ stack = <<>>
  /\ block_exists(h)
  /\ stack' = <<activation(h)>>
  /\ UNCHANGED <<tables, caches>>

(* The loop condition of rollback.                                          *)
unfinished == stack # <<>> /\ top.visit = Zero /\ block_exists(top.block)

(* The loop body visits the head of the account.                            *)
visits(h, type) ==
  /\ unfinished
  /\ above_confirmation_height(top)
  /\ h = accounts[top.account].head
  /\ Block[h].type = type

(* The undoing of a legacy block that has a previous one.                   *)
undo_legacy(h, account, representative, bal) ==
  LET info == accounts[account]
      previous == Block[h].previous
  IN /\ change_latest(account, info, account_info(previous, representative,
          info.open_block, bal, info.block_count - 1, 0))
     /\ block_del(h)
     /\ h \in DOMAIN frontiers
     /\ frontiers' = Put(Del(frontiers, h), previous, account)
     /\ block_count' = block_count - 1
     /\ UNCHANGED <<cemented_count, epoch_2_started>>

(* Defect: the receiving account for the sending one.                       *)
pending_from_receiver(account, source) ==
  Put(pending, <<account, source>>, pending_info(account, amount(source), 0))
(* The pending entry that an undone legacy receive or open puts back.       *)
pending_restored(account, source) ==
  Put(pending, <<account, source>>, pending_info(block_account(source), amount(source), 0))

rollback_receive(h) ==
  LET source == Block[h].link
      account == block_account(h)
      representative == accounts[account].representative
  IN /\ visits(h, "receive")
     /\ rep_weights' = representation_add(rep_weights, representative, 0 - amount(source))
     /\ undo_legacy(h, account, representative, balance(Block[h].previous))
     /\ pending' = pending_restored(account, source)
     /\ UNCHANGED stack

rollback_open(h) ==
  LET source == Block[h].link
      account == block_account(h)
  IN /\ visits(h, "open")
     /\ rep_weights' =
          representation_add(rep_weights, Block[h].representative, 0 - amount(source))
     /\ change_latest(account, NoInfo, NoInfo)
     /\ block_del(h)
     /\ pending' = pending_restored(account, source)
     /\ h \in DOMAIN frontiers
     /\ frontiers' = Del(frontiers, h)
     /\ block_count' = block_count - 1
     /\ UNCHANGED <<cemented_count, epoch_2_started, stack>>

rollback_change(h) ==
  LET account == block_account(Block[h].previous)
      bal == balance(Block[h].previous)
      before == representative_before(h)
  IN /\ visits(h, "change")
     /\ rep_weights' =
          representation_add(
            representation_add(rep_weights, Block[h].representative, 0 - bal), before, bal)
     /\ undo_legacy(h, account, before, accounts[account].balance)
     /\ UNCHANGED <<pending, stack>>

(* A send is undone once its pending entry is back; until then the block    *)
(* stays visited while its receiver is rolled back.                         *)
visit_send(h) ==
  /\ visits(h, "send")
  /\ stack' = [stack EXCEPT ![Len(stack)].visit = h]
  /\ UNCHANGED <<tables, caches>>

visited == top.visit
visited_key == <<Block[visited].link, visited>>

(* Defect: all of the receiving account that is not cemented is undone.     *)
rollback_receiving_account ==
  LET destination == Block[visited].link
  IN /\ stack # <<>> /\ visited # Zero
     /\ visited_key \notin DOMAIN pending
     /\ destination \in DOMAIN accounts
     /\ \E h \in DOMAIN blocks :
          /\ block_account(h) = destination
          /\ blocks[h].height = confirmation_height[destination].height + 1
          /\ stack' = Append(stack, activation(h))
     /\ UNCHANGED <<tables, caches>>
rollback_receiver ==
  LET destination == Block[visited].link
  IN /\ stack # <<>> /\ visited # Zero
     /\ visited_key \notin DOMAIN pending
     /\ destination \in DOMAIN accounts
     /\ stack' = Append(stack, activation(accounts[destination].head))
     /\ UNCHANGED <<tables, caches>>

unvisited == [stack EXCEPT ![Len(stack)].visit = Zero, ![Len(stack)].info = NoInfo]

rollback_send ==
  LET source == pending[visited_key].source
      info == accounts[source]
  IN /\ stack # <<>> /\ visited # Zero /\ Block[visited].type = "send"
     /\ visited_key \in DOMAIN pending
     /\ rep_weights' =
          representation_add(rep_weights, info.representative, pending[visited_key].amount)
     /\ undo_legacy(visited, source, info.representative, balance(Block[visited].previous))
     /\ pending' = Del(pending, visited_key)
     /\ stack' = unvisited

(* Defect: the representative before the block gets nothing back.           *)
undo_representation_half(h) ==
  rep_weights' = representation_add(rep_weights, Block[h].representative, 0 - Block[h].balance)
(* The state block visitor adjusts the weights and reads the account before *)
(* it looks for the pending entry; a block that sends nothing is undone at  *)
(* once.                                                                    *)
undo_representation(h) ==
  LET without == representation_add(rep_weights, Block[h].representative,
                                    0 - Block[h].balance)
  IN rep_weights' = IF Block[h].previous = Zero THEN without
                    ELSE representation_add(without, representative_before(h),
                                            balance(Block[h].previous))

(* Defect: it is not.                                                       *)
frontier_forgotten(previous, account) == frontiers
(* A legacy block that becomes the head again is a frontier again.          *)
frontier_restored(previous, account) ==
  IF previous # Zero /\ Block[previous].type # "state"
  THEN Put(frontiers, previous, account) ELSE frontiers

undo_state(h, info) ==
  LET previous == Block[h].previous
      account == Block[h].account
  IN /\ change_latest(account, info, account_info(previous, representative_before(h),
          info.open_block, balance(previous), info.block_count - 1,
          block_version(previous)))
     /\ frontiers' = frontier_restored(previous, account)
     /\ block_del(h)
     /\ block_count' = block_count - 1
     /\ UNCHANGED <<cemented_count, epoch_2_started>>

(* Defect: the account is not read before the nested rollback.              *)
visit_state_send_unread(h) ==
  /\ visits(h, "state")
  /\ sends(h)
  /\ undo_representation(h)
  /\ stack' = [stack EXCEPT ![Len(stack)].visit = h]
  /\ UNCHANGED <<tables, block_count, account_count, cemented_count, epoch_2_started>>
visit_state_send(h) ==
  /\ visits(h, "state")
  /\ sends(h)
  /\ undo_representation(h)
  /\ stack' = [stack EXCEPT ![Len(stack)].visit = h,
                            ![Len(stack)].info = accounts[Block[h].account]]
  /\ UNCHANGED <<tables, block_count, account_count, cemented_count, epoch_2_started>>

rollback_state_send ==
  /\ stack # <<>> /\ visited # Zero /\ Block[visited].type = "state"
  /\ visited_key \in DOMAIN pending
  /\ pending' = Del(pending, visited_key)
  /\ undo_state(visited, top.info)
  /\ stack' = unvisited
  /\ UNCHANGED rep_weights

rollback_state(h) ==
  LET B == Block[h]
  IN /\ visits(h, "state")
     /\ ~sends(h)
     /\ undo_representation(h)
     /\ pending' = IF B.link # Zero /\ B.link \notin EpochLink
                   THEN Put(pending, <<B.account, B.link>>,
                            pending_info(block_account(B.link),
                                         B.balance - balance(B.previous),
                                         block_version(B.link)))
                   ELSE pending
     /\ undo_state(h, accounts[B.account])
     /\ UNCHANGED stack

(* Defect: the loop does not notice that its target is gone.                *)
rollback_not_returning ==
  /\ stack # <<>> /\ top.visit = Zero /\ ~block_exists(top.block)
  /\ UNCHANGED vars
(* The target is gone: the activation returns to the loop of its caller.    *)
rollback_return ==
  /\ stack # <<>> /\ top.visit = Zero /\ ~block_exists(top.block)
  /\ stack' = SubSeq(stack, 1, Len(stack) - 1)
  /\ UNCHANGED <<tables, caches>>

(* The target is cemented: the activation fails.  The legacy send visitor   *)
(* passes the failure on, with what was undone so far left as it is; the    *)
(* state block visitor drops it and aborts deleting a missing pending entry.*)
rollback_refused ==
  /\ unfinished
  /\ ~above_confirmation_height(top)
  /\ \A i \in 1 .. Len(stack) - 1 : Block[stack[i].visit].type = "send"
  /\ stack' = <<>>
  /\ UNCHANGED <<tables, caches>>

RollbackStep ==
  \/ \E h \in Hash :
       \/ visit_send(h) \/ visit_state_send(h)
       \/ rollback_receive(h) \/ rollback_open(h) \/ rollback_change(h) \/ rollback_state(h)
  \/ rollback_receiver \/ rollback_send \/ rollback_state_send
  \/ rollback_return \/ rollback_refused

=============================================================================
