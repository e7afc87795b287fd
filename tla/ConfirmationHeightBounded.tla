--------------------- MODULE ConfirmationHeightBounded ---------------------
(***************************************************************************)
(* confirmation_height_bounded: it starts at the lowest block that is not  *)
(* cemented and walks upwards to the next receive, follows its source, and *)
(* so on; the receives on the way are kept in a circular buffer, and since *)
(* that forgets the oldest ones, the hashes to come back to are kept as    *)
(* checkpoints.  Writing is done in batches.                               *)
(* Operators marked "Defect" are not used by the specification.            *)
(***************************************************************************)
EXTENDS ConfirmationHeightProcessor

empty_bounded ==
  [accounts_confirmed_info |-> << >>,      \* by account: [height, frontier]
   pending_writes |-> << >>,
   next_in_receive_chain |-> [top |-> Zero],
   checkpoints |-> << >>,
   receive_source_pairs |-> << >>,
   unwritten |-> Zero]                     \* cement_blocks: the block to go on with

(* process: the start, for the hash set_next_hash took.                     *)
bounded_start ==
  [bounded EXCEPT !.accounts_confirmed_info = IF bounded.pending_writes = << >> THEN << >> ELSE @,
                  !.next_in_receive_chain = [top |-> Zero],
                  !.checkpoints = << >>, !.receive_source_pairs = << >>]

(* boost::circular_buffer: the oldest element makes room.                   *)
push_back(s, x) == Append(IF Len(s) = max_items THEN Tail(s) ELSE s, x)

updated(f, x, y) == [z \in DOMAIN f \cup {x} |-> IF z = x THEN y ELSE f[z]]

(* get_next_block: where to go on, by priority.                             *)
get_next_block(b) ==
  IF b.next_in_receive_chain.top # Zero THEN b.next_in_receive_chain
  ELSE IF b.receive_source_pairs # << >>
  THEN LET receive == Last(b.receive_source_pairs)
       IN [top |-> receive.source_hash, next |-> receive.next, next_height |-> receive.height + 1]
  ELSE IF b.checkpoints # << >> THEN [top |-> Last(b.checkpoints), next |-> Zero, next_height |-> 0]
  ELSE [top |-> original_hash, next |-> Zero, next_height |-> 0]

open_block(a) == CHOOSE h \in stored : Block[h].account = a /\ Block[h].previous = Zero

get_least_unconfirmed_hash_from_top_level(account, info) ==
  IF info.height # 0
  THEN [hash |-> successor(info.frontier), height |-> height[info.frontier] + 1]
  ELSE [hash |-> open_block(account), height |-> 1]

(* Defect: receives do not stop the walk.                                   *)
iterated_to_top(bottom, top_level) ==
  LET to[h \in Hash] == IF h = top_level \/ successor(h) = Zero THEN h ELSE to[successor(h)]
  IN to[bottom]
(* iterate: from the bottom upwards to the first receive or to the top.     *)
iterated_to(bottom, top_level) ==
  LET to[h \in Hash] == IF is_receive(h) \/ h = top_level \/ successor(h) = Zero THEN h
                        ELSE to[successor(h)]
  IN to[bottom]

(* prepare_iterated_blocks_for_cementing: a pending write for the blocks    *)
(* below the receive that stopped the walk, or up to the top, and one for   *)
(* the receive whose source was followed.                                   *)
prepare_iterated_blocks_for_cementing(b, x) ==
  LET top_height == height[x.top_most]
      writes == ~x.already_cemented /\ top_height > x.info.height
      receiving == x.receive # << >>
      receive == x.receive[1]
      info == IF writes THEN updated(b.accounts_confirmed_info, x.account,
                                     [height |-> top_height, frontier |-> x.top_most])
              ELSE b.accounts_confirmed_info
      done == (IF writes THEN {x.top_most} ELSE {})
              \cup (IF receiving /\ receive.next = Zero THEN {receive.hash} ELSE {})
  IN [b EXCEPT
        !.accounts_confirmed_info =
          IF receiving THEN updated(info, receive.account,
                                    [height |-> receive.height, frontier |-> receive.hash])
          ELSE info,
        !.checkpoints = SelectSeq(@, LAMBDA h : h \notin done),
        !.next_in_receive_chain =
          IF receiving /\ receive.next # Zero
          THEN [top |-> receive.top_level, next |-> receive.next,
                next_height |-> receive.height + 1]
          ELSE [top |-> Zero],
        !.pending_writes =
          @ \o (IF writes
                THEN <<[account |-> x.account, bottom_height |-> x.bottom_height,
                        bottom_hash |-> x.bottom, top_height |-> top_height,
                        top_hash |-> x.top_most]>> ELSE << >>)
            \o (IF receiving
                THEN <<[account |-> receive.account, bottom_height |-> receive.bottom_height,
                        bottom_hash |-> receive.bottom_most, top_height |-> receive.height,
                        top_hash |-> receive.hash]>> ELSE << >>)]

-----------------------------------------------------------------------------
(* process: one pass of the loop, up to the decision whether to write.      *)
iterate_bounded ==
  /\ control = "bounded"
  /\ LET b == bounded
         next == get_next_block(b)
         is_set == b.next_in_receive_chain.top # Zero
         receive == IF ~is_set /\ b.receive_source_pairs # << >>
                    THEN <<Last(b.receive_source_pairs)>> ELSE << >>
         top_level == next.top
         account == Block[top_level].account
         known == account \in DOMAIN b.accounts_confirmed_info
         info == IF known THEN b.accounts_confirmed_info[account] ELSE confirmation_height[account]
         distance == height[top_level] - info.height
         already_cemented == distance <= 0
         least == IF distance <= 1 THEN [hash |-> top_level, height |-> height[top_level]]
                  ELSE IF distance = 2
                  THEN [hash |-> Block[top_level].previous, height |-> height[top_level] - 1]
                  ELSE IF ~is_set THEN get_least_unconfirmed_hash_from_top_level(account, info)
                  ELSE [hash |-> next.next, height |-> next.next_height]
         bottom == least.hash
         target == iterated_to(bottom, top_level)
         hit_receive == ~already_cemented /\ is_receive(target)
         top_most == IF already_cemented \/ target = bottom THEN bottom
                     ELSE IF hit_receive THEN Block[target].previous ELSE target
         pair == [account |-> account, height |-> height[target], hash |-> target,
                  top_level |-> top_level,
                  next |-> IF successor(target) = top_level THEN Zero ELSE successor(target),
                  bottom_height |-> least.height, bottom_most |-> bottom,
                  source_hash |-> Block[target].source]
         pushed == IF hit_receive THEN push_back(b.receive_source_pairs, pair)
                   ELSE b.receive_source_pairs
         walked == [b EXCEPT
                      !.receive_source_pairs = pushed,
                      !.checkpoints = IF hit_receive /\ Len(pushed) % max_items = 0
                                      THEN push_back(@, top_level) ELSE @,
                      !.next_in_receive_chain = [top |-> Zero]]
         prepares == ~hit_receive \/ (Len(pushed) = 1 /\ top_most # bottom)
         prepared == prepare_iterated_blocks_for_cementing(walked,
                       [account |-> account, info |-> info, bottom |-> bottom,
                        bottom_height |-> least.height, top_most |-> top_most,
                        already_cemented |-> already_cemented, receive |-> receive])
         found == top_level \in stored /\ bottom \in stored
     IN /\ current' = bottom
        /\ failed' = ~found
        /\ notify_already_cemented(/\ ~known /\ first_iter /\ already_cemented
                                   /\ top_level = original_hash)
        /\ bounded' = IF ~found THEN b
                      ELSE IF ~prepares THEN walked
                      ELSE [prepared EXCEPT !.receive_source_pairs =
                              IF ~is_set /\ @ # << >> THEN Front(@) ELSE @]
        /\ control' = IF found /\ prepares THEN "output_bounded" ELSE "bounded"
        /\ first_iter' = (first_iter /\ found /\ prepares)
  /\ UNCHANGED <<ledger_vars, mode, given_vars, batch_write_size, cemented_blocks, unbounded,
                 flushing, history_vars>>

(* process: the decision, and the end of the loop, where no checkpoint may  *)
(* be left.                                                                 *)
(* Defect: the loop ends with the last receive, below the original hash.    *)
more_bounded_receives == bounded.receive_source_pairs # << >>
more_bounded == bounded.receive_source_pairs # << >> \/ current # original_hash

total_pending_bounded ==
  FoldSeq(LAMBDA w, n : w.top_height - w.bottom_height + 1 + n, 0, bounded.pending_writes)

output_bounded ==
  /\ control = "output_bounded"
  /\ \E min_time_exceeded, let_in \in BOOLEAN :
       LET max_batch_write_size_reached == total_pending_bounded >= batch_write_size
           finished_iterating == current = original_hash
           should_output == /\ finished_iterating
                            /\ awaiting_processing = << >> \/ min_time_exceeded
           force_write == \/ Len(bounded.pending_writes) >= pending_writes_max_size
                          \/ Cardinality(DOMAIN bounded.accounts_confirmed_info)
                               >= pending_writes_max_size
           write == /\ max_batch_write_size_reached \/ should_output \/ force_write
                    /\ bounded.pending_writes # << >>
                    /\ let_in \/ force_write
       IN control' = IF write THEN "cement_bounded"
                     ELSE IF more_bounded THEN "bounded" ELSE "return_bounded"
  /\ first_iter' = FALSE
  /\ UNCHANGED <<ledger_vars, mode, given_vars, batch_write_size, current, cemented_blocks,
                 unbounded, bounded, flushing, history_vars, unanswered, failed>>

return_bounded ==
  /\ control = "return_bounded"
  /\ failed' = (bounded.checkpoints # << >>)
  /\ control' = "run"
  /\ UNCHANGED <<ledger_vars, mode, given_vars, batch_write_size, local_vars, cemented_blocks,
                 unbounded, bounded, flushing, history_vars, unanswered>>

-----------------------------------------------------------------------------
(* cement_blocks: one pending write of the transaction, or what of it fits  *)
(* in the batch.  A full batch is committed, the guard released and the     *)
(* size of the next one adjusted; the rest of the write goes on from the    *)
(* successor that was read before.                                          *)
batch_limit == batch_write_size + batch_write_size \div 10

(* Defect: what another write has cemented meanwhile is cemented again.     *)
start_at_bottom(pending, info) ==
  IF bounded.unwritten # Zero
  THEN [hash |-> bounded.unwritten, num_blocks |-> pending.top_height - info.height]
  ELSE [hash |-> pending.bottom_hash,
        num_blocks |-> pending.top_height - pending.bottom_height + 1]
start(pending, info) ==
  IF bounded.unwritten # Zero
  THEN [hash |-> bounded.unwritten, num_blocks |-> pending.top_height - info.height]
  ELSE IF pending.bottom_height > info.height
  THEN [hash |-> pending.bottom_hash,
        num_blocks |-> pending.top_height - pending.bottom_height + 1]
  ELSE [hash |-> successor(info.frontier), num_blocks |-> pending.top_height - info.height]

cement_bounded ==
  /\ control = "cement_bounded" /\ bounded.pending_writes # << >>
  /\ LET pending == Head(bounded.pending_writes)
         info == confirmation_height[pending.account]
         higher == pending.top_height > info.height
         left == start(pending, info).num_blocks
         room == batch_limit + 1 - Len(cemented_blocks)
         n == IF ~higher THEN 0 ELSE IF left < room THEN left ELSE room
         blocks == upwards(start(pending, info).hash, n)
         last == n = left \/ ~higher
         flush == higher /\ n = room
         found == Range(blocks) \subseteq stored
         ok == \/ ~higher
               \/ /\ found
                  /\ height[blocks[n]] = info.height + n
                  /\ last => blocks[n] = pending.top_hash
     IN /\ failed' = ~ok
        /\ confirmation_height' =
             IF ~higher \/ ~ok THEN confirmation_height
             ELSE [confirmation_height EXCEPT ![pending.account] =
                     [height |-> info.height + n, frontier |-> blocks[n]]]
        /\ cemented_count' = cemented_count + n
        /\ cemented_blocks' = cemented_blocks \o blocks
        /\ bounded' = [bounded EXCEPT
             !.unwritten = IF last \/ ~ok THEN Zero ELSE successor(blocks[n]),
             !.pending_writes = IF last THEN Tail(@) ELSE @,
             !.accounts_confirmed_info =
               [a \in {a \in DOMAIN @ : ~( /\ last /\ a = pending.account
                                           /\ @[a].height = pending.top_height)} |-> @[a]]]
        /\ IF flush THEN /\ control' = "notify_bounded"
                         /\ batch_write_size' \in BatchWriteSizes
                    ELSE UNCHANGED <<control, batch_write_size>>
  /\ UNCHANGED <<stored, mode, given_vars, local_vars, unbounded, flushing, history_vars,
                 unanswered>>

(* All is written: commit, and call the observers if there is anything to   *)
(* tell them.  After the observers, a batch that was flushed early queues   *)
(* again for the rest; otherwise the caller goes on.                        *)
committed_bounded ==
  /\ \/ /\ control = "cement_bounded" /\ bounded.pending_writes = << >>
        /\ control' = "notify_bounded"
        /\ batch_write_size' \in BatchWriteSizes
     \/ /\ control = "notify_bounded" /\ cemented_blocks = << >>
        /\ control' = IF bounded.pending_writes # << >> THEN "cement_bounded"
                      ELSE IF flushing THEN "cleanup"
                      ELSE IF more_bounded THEN "bounded" ELSE "return_bounded"
        /\ UNCHANGED batch_write_size
  /\ UNCHANGED <<ledger_vars, mode, given_vars, local_vars, cemented_blocks, unbounded, bounded,
                 flushing, history_vars, unanswered, failed>>

=============================================================================
