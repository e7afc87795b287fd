-------------------- MODULE ConfirmationHeightUnbounded --------------------
(***************************************************************************)
(* confirmation_height_unbounded: it walks down from the hash it is given, *)
(* keeps every receive it meets on a stack together with the blocks that   *)
(* will be cemented with it, and turns the stack into pending writes from  *)
(* the bottom of the ledger upwards.  The details of a receive are shared  *)
(* by the stack and, weakly, by the map of the blocks below it; here they  *)
(* live in the stack and the map names the receive.                        *)
(* Operators marked "Defect" are not used by the specification.            *)
(***************************************************************************)
EXTENDS ConfirmationHeightProcessor

empty_unbounded ==
  [confirmed_iterated_pairs |-> << >>,          \* by account
   implicit_receive_cemented_mapping |-> << >>, \* by hash: the receive above it
   block_cache |-> {},
   pending_writes |-> << >>,
   receive_source_pairs |-> << >>,
   orig_block_callback_data |-> << >>]

with(f, x, y) == [z \in DOMAIN f \cup {x} |-> IF z = x THEN y ELSE f[z]]
first_of(s, n) == SubSeq(s, 1, n)

(* Defect: what is known of accounts with pending writes is forgotten.      *)
unbounded_start_cleared == [empty_unbounded EXCEPT !.pending_writes = unbounded.pending_writes]
(* process: the start, for the hash set_next_hash took.                     *)
unbounded_start ==
  IF unbounded.pending_writes = << >> THEN empty_unbounded
  ELSE [unbounded EXCEPT !.receive_source_pairs = << >>, !.orig_block_callback_data = << >>]

-----------------------------------------------------------------------------
(* collect_unconfirmed_receive_and_sources_for_account: segment holds the   *)
(* blocks from the top of the part to confirm downwards.  Those above the   *)
(* first receive are called back for the original hash or, if there is no   *)
(* receive, for this part (required), otherwise for the receive whose       *)
(* source this part was reached from; the rest go with the receive above.   *)
collect(u, segment, top_height, original) ==
  LET n == Len(segment)
      receives == {i \in 1 .. n : is_receive(segment[i])}
      first == IF receives = {} THEN n + 1 ELSE Min(receives)
      above == first_of(segment, first - 1)
      next(i) == IF \E j \in receives : j > i THEN Min({j \in receives : j > i}) ELSE n + 1
      details(i) == [account |-> Block[segment[i]].account, hash |-> segment[i],
                     height |-> top_height - i + 1,
                     num_blocks_confirmed |-> next(i) - i,
                     block_callback_data |-> SubSeq(segment, i, next(i) - 1),
                     source_hash |-> Block[segment[i]].source,
                     source_block_callback_data |-> << >>]
      receive_above(j) == segment[Max({i \in receives : i < j})]
      under == {j \in first .. n : j \notin receives}
      stack == u.receive_source_pairs
  IN [u |-> [u EXCEPT
        !.block_cache = @ \cup Range(segment),
        !.orig_block_callback_data = IF original THEN @ \o above ELSE @,
        !.receive_source_pairs =
          (IF original \/ receives = {} \/ above = << >> THEN @
           ELSE [@ EXCEPT ![Len(@)].source_block_callback_data = above])
          \o [k \in 1 .. Cardinality(receives) |->
                details(CHOOSE i \in receives :
                          Cardinality({j \in receives : j < i}) = k - 1)],
        !.implicit_receive_cemented_mapping =
          [h \in DOMAIN @ \cup {segment[j] : j \in under} |->
             IF \E j \in under : segment[j] = h
             THEN receive_above(CHOOSE j \in under : segment[j] = h) ELSE @[h]]],
      required |-> IF original \/ receives # {} THEN << >> ELSE above,
      ok |-> original \/ receives = {} \/ above = << >> \/ stack # << >>]

(* prepare_iterated_blocks_for_cementing: pending writes for the blocks of  *)
(* this account and for the receive they are the source of.  Callback data  *)
(* is stored from the top downwards, so that what is confirmed already is   *)
(* at its end.  The iterators of the code must stay inside the vectors.     *)
prepare(u, x) ==
  LET stack == u.receive_source_pairs
      receiving == stack # << >>
      receive == Last(stack)
      pairs == u.confirmed_iterated_pairs
      writes == x.block_height > x.confirmed
      num == x.block_height - x.confirmed
      inherits == x.already_traversed /\ receive.source_block_callback_data = << >>
      mapped == /\ x.current \in DOMAIN u.implicit_receive_cemented_mapping
                /\ \E i \in DOMAIN stack :
                     stack[i].hash = u.implicit_receive_cemented_mapping[x.current]
      above == CHOOSE d \in Range(stack) :
                 d.hash = u.implicit_receive_cemented_mapping[x.current]
      end == Len(above.block_callback_data)
             - (above.num_blocks_confirmed - (above.height - x.confirmed))
      data == IF x.required # << >> THEN x.required
              ELSE IF ~receiving THEN u.orig_block_callback_data
              ELSE IF inherits THEN SubSeq(above.block_callback_data, end - num + 1, end)
              ELSE first_of(receive.source_block_callback_data, num)
      data_ok == \/ ~writes \/ x.required # << >> \/ ~receiving
                 \/ inherits /\ mapped /\ end >= num
                    /\ end <= Len(above.block_callback_data)
                 \/ ~inherits /\ Len(receive.source_block_callback_data) >= num
      pairs_source ==
        IF ~writes THEN pairs
        ELSE with(pairs, x.account,
                  [confirmed |-> x.block_height,
                   iterated |-> IF x.account \in DOMAIN pairs /\ x.block_height <= x.iterated
                                THEN pairs[x.account].iterated ELSE x.block_height])
      seen == receive.account \in DOMAIN pairs_source
      receive_num == IF seen THEN receive.height - pairs_source[receive.account].confirmed
                     ELSE receive.num_blocks_confirmed
      receive_write == [account |-> receive.account, hash |-> receive.hash,
                        height |-> receive.height, num_blocks_confirmed |-> receive_num,
                        block_callback_data |-> first_of(receive.block_callback_data, receive_num)]
      write == [account |-> x.account, hash |-> x.current, height |-> x.block_height,
                num_blocks_confirmed |-> num, block_callback_data |-> data]
  IN IF ~data_ok \/ (receiving /\ receive_num \notin 0 .. Len(receive.block_callback_data))
     THEN [u |-> u, ok |-> FALSE]
     ELSE [u |-> [u EXCEPT
             !.confirmed_iterated_pairs =
               IF ~receiving THEN pairs_source
               ELSE with(pairs_source, receive.account,
                         [confirmed |-> receive.height,
                          iterated |-> IF seen THEN pairs_source[receive.account].iterated
                                       ELSE receive.height]),
             !.pending_writes = @ \o (IF writes THEN <<write>> ELSE << >>)
                                  \o (IF receiving THEN <<receive_write>> ELSE << >>),
             !.receive_source_pairs = IF receiving THEN Front(@) ELSE @],
           ok |-> TRUE]

(* process: one pass of the loop, up to the decision whether to write.      *)
iterate_unbounded ==
  /\ control = "unbounded"
  /\ LET u == unbounded
         stack == u.receive_source_pairs
         here == IF stack # << >> THEN Last(stack).source_hash ELSE original_hash
         account == Block[here].account
         known == account \in DOMAIN u.confirmed_iterated_pairs
         block_height == height[here]
         confirmed == IF known THEN u.confirmed_iterated_pairs[account].confirmed
                      ELSE confirmation_height[account].height
         iterated == IF known THEN Max({confirmed, u.confirmed_iterated_pairs[account].iterated})
                     ELSE confirmed
         already_traversed == iterated >= block_height
         segment == IF already_traversed THEN << >>
                    ELSE downwards(here, block_height - iterated)
         collected == collect([u EXCEPT !.block_cache = @ \cup {here}], segment,
                              block_height, here = original_hash)
         receives_pending == Len(collected.u.receive_source_pairs) # Len(stack)
         prepared == prepare(collected.u,
                             [current |-> here, account |-> account, block_height |-> block_height,
                              confirmed |-> confirmed, iterated |-> iterated,
                              already_traversed |-> already_traversed,
                              required |-> collected.required])
         found == here \in stored \cup u.block_cache
     IN /\ current' = here
        /\ notify_already_cemented(/\ ~known /\ first_iter /\ confirmed >= block_height
                                   /\ here = original_hash)
        /\ IF receives_pending
           THEN /\ unbounded' = [collected.u EXCEPT !.confirmed_iterated_pairs =
                                   with(@, account, [confirmed |-> confirmed,
                                                     iterated |-> block_height])]
                /\ failed' = ~(found /\ collected.ok)
           ELSE /\ unbounded' = prepared.u
                /\ failed' = ~(found /\ collected.ok /\ prepared.ok)
  /\ control' = "output_unbounded"
  /\ UNCHANGED <<ledger_vars, mode, given_vars, batch_write_size, first_iter,
                 cemented_blocks, bounded, flushing, history_vars>>

(* process: the decision.  Whether the minimum time has passed is left      *)
(* open, and so is whether the queue lets a writer in at once; a forced     *)
(* write waits for it.                                                      *)
(* Defect: the loop ends with the last receive, below the original hash.    *)
more_unbounded_receives == unbounded.receive_source_pairs # << >>
more_unbounded == unbounded.receive_source_pairs # << >> \/ current # original_hash

total_pending_unbounded ==
  FoldSeq(LAMBDA w, n : w.num_blocks_confirmed + n, 0, unbounded.pending_writes)

output_unbounded ==
  /\ control = "output_unbounded"
  /\ \E min_time_exceeded, let_in \in BOOLEAN :
       LET max_write_size_reached == Len(unbounded.pending_writes) >= unbounded_cutoff
           finished_iterating == unbounded.receive_source_pairs = << >>
           should_output == /\ finished_iterating
                            /\ awaiting_processing = << >> \/ min_time_exceeded
           force_write == total_pending_unbounded > batch_write_size
           write == /\ max_write_size_reached \/ should_output \/ force_write
                    /\ unbounded.pending_writes # << >>
                    /\ let_in \/ force_write
       IN control' = IF write THEN "cement_unbounded"
                     ELSE IF more_unbounded THEN "unbounded" ELSE "run"
  /\ first_iter' = FALSE
  /\ UNCHANGED <<ledger_vars, mode, given_vars, batch_write_size, current, cemented_blocks,
                 unbounded, bounded, flushing, history_vars, unanswered, failed>>

(* cement_blocks: one pending write of the transaction.                     *)
cement_unbounded ==
  /\ control = "cement_unbounded" /\ unbounded.pending_writes # << >>
  /\ LET pending == Head(unbounded.pending_writes)
         confirmed == confirmation_height[pending.account].height
         higher == pending.height > confirmed
     IN /\ confirmation_height' =
             IF higher THEN [confirmation_height EXCEPT ![pending.account] =
                               [height |-> pending.height, frontier |-> pending.hash]]
             ELSE confirmation_height
        /\ cemented_count' = IF higher THEN cemented_count + pending.num_blocks_confirmed
                             ELSE cemented_count
        /\ cemented_blocks' = IF higher
                              THEN cemented_blocks \o Reverse(pending.block_callback_data)
                              ELSE cemented_blocks
        /\ failed' = (failed \/ (higher /\ ~( /\ pending.hash \in stored
                                              /\ height[pending.hash] = pending.height
                                              /\ pending.num_blocks_confirmed
                                                   = pending.height - confirmed
                                              /\ Range(pending.block_callback_data)
                                                   \subseteq unbounded.block_cache)))
  /\ unbounded' = [unbounded EXCEPT !.pending_writes = Tail(@)]
  /\ UNCHANGED <<stored, mode, given_vars, batch_write_size, local_vars, bounded, control,
                 flushing, history_vars, unanswered>>

(* The transaction is committed and the guard released; the observers are   *)
(* called, and the caller goes on.                                          *)
committed_unbounded ==
  /\ \/ /\ control = "cement_unbounded" /\ unbounded.pending_writes = << >>
        /\ control' = "notify_unbounded"
     \/ /\ control = "notify_unbounded" /\ cemented_blocks = << >>
        /\ control' = IF flushing THEN "cleanup"
                      ELSE IF more_unbounded THEN "unbounded" ELSE "run"
  /\ UNCHANGED <<ledger_vars, mode, given_vars, batch_write_size, local_vars,
                 cemented_blocks, unbounded, bounded, flushing, history_vars, unanswered,
                 failed>>

=============================================================================
