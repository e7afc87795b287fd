----------------------------- MODULE Elections -----------------------------
(***************************************************************************)
(* active_transactions and election: one election for each contested root, *)
(* fed by votes, started and stopped by the block processor, the request   *)
(* loop and the observers of cemented blocks, and settled by handing its   *)
(* winner to the confirmation height processor, of which Cementer says     *)
(* what it promises.                                                       *)
(* An election is idle, ongoing (passive, active, broadcasting or          *)
(* backtracking, which differ in what is asked of the network), or         *)
(* confirmed.  The node does not vote itself.                              *)
(* Operators marked "Defect" are not used by the specification.            *)
(***************************************************************************)
EXTENDS BlockProcessor

CONSTANTS
  Rep,
  weight,                 \* the voting weight of each representative
  online_weight_minimum, delta,
  HashOrder,              \* the numeric order of the hashes, as a sequence
  MaxSequence,            \* bound: the highest sequence number of a vote
  MaxVotes,               \* bound: how many votes arrive
  Candidates,             \* bound: the blocks each representative may vote for
  max_blocks,             \* how many blocks an election takes freely
  tenth,                  \* online_stake / 10, the weight a further block needs
  recently_confirmed_size

ASSUME ElectionsAssumption ==
  /\ weight \in [Rep -> Nat]
  /\ online_weight_minimum \in Nat /\ delta \in Nat
  /\ {HashOrder[i] : i \in DOMAIN HashOrder} = Hash
  /\ MaxSequence \in Nat /\ MaxVotes \in Nat /\ tenth \in Nat
  /\ Candidates \in [Rep -> SUBSET (Hash \ {Genesis})]
  /\ max_blocks > 0 /\ recently_confirmed_size > 0

VARIABLES
  roots,                  \* the active elections, by root
  inactive_votes_cache,   \* the voters seen for a block that has no election
  recently_confirmed,     \* sequence of <<root, hash>>
  election_winner_details,
  retrying,               \* winners process_confirmed waits for
  duty,                   \* what each thread is about to do with an election
  activating,             \* how far block_cemented_callback has come
  requested, waiting, announced,   \* the confirmation height processor's side
  received,               \* how many votes have arrived
  reported,               \* history: calls of the observers of confirmed blocks
  passed_over,            \* history: cemented blocks that lost in their election
  elected,                \* history: stored blocks an election was asked for
  aborted                 \* the processor met a block that is not in the ledger

active_vars == <<roots, inactive_votes_cache, recently_confirmed>>
winner_vars == <<election_winner_details, retrying>>
cementer_vars == <<requested, waiting, announced>>
history_vars == <<reported, passed_over, elected, aborted>>
(* What only the block processor's own steps change.                        *)
processor_vars == <<ledger_vars, unchecked, blocks, batch, post_events, arrivals>>
vars == <<ledger_vars, queue_vars, active_vars, winner_vars, duty, activating,
          cementer_vars, received, history_vars>>

requires == [h \in Hash |-> dependencies(h)]
excludes == {p \in Hash \X Hash : rivals(p[1], p[2])}
Processor == INSTANCE Cementer WITH
  Vertex <- Hash, Requires <- requires, Excludes <- excludes, Below <- below,
  stored <- committed

Thread == {"processor", "observer", "loop"}
NoDuty == [step |-> "none", hash |-> Zero, publish |-> Zero]
NoVote == [sequence |-> 0, hash |-> Zero]
Idle == [step |-> "none", hash |-> Zero, accounts |-> << >>]
free(t) == duty[t] = NoDuty
observers_done == activating = Idle /\ free("observer")

Init ==
  /\ BlockProcessorInit
  /\ roots = << >> /\ inactive_votes_cache = [h \in Hash |-> {}]
  /\ recently_confirmed = << >>
  /\ election_winner_details = {} /\ retrying = {}
  /\ duty = [t \in Thread |-> NoDuty]
  /\ observers_done
  /\ requested = {} /\ waiting = {} /\ announced = [h \in Hash |-> 0]
  /\ received = 0
  /\ reported = [h \in Hash |-> 0] /\ passed_over = {} /\ elected = {}
  /\ aborted = FALSE

active(r) == r \in DOMAIN roots
(* active_transactions::blocks: the blocks of the elections.                *)
has_election(h) == active(root(h)) /\ h \in roots[root(h)].blocks
is_processing_block(h) == h \in waiting
rank(h) == CHOOSE i \in DOMAIN HashOrder : HashOrder[i] = h
total(reps) == SumFunctionOnSet(weight, reps)
votes_for(e, h) == total({p \in Rep : e.votes[p].hash = h})

(* election::tally: a map from weights to blocks, in which of the blocks    *)
(* with equal weight only one is kept.                                      *)
tallies(e) ==
  LET voted == {h \in e.blocks : h = e.first \/ \E p \in Rep : e.votes[p].hash = h}
  IN {kept \in SUBSET voted :
        /\ {votes_for(e, h) : h \in kept} = {votes_for(e, h) : h \in voted}
        /\ \A h, k \in kept : h # k => votes_for(e, h) # votes_for(e, k)}

-----------------------------------------------------------------------------
(* node::process_confirmed: the winner goes to the confirmation height      *)
(* processor, or an alarm looks again until the block is in the ledger.     *)
process_confirmed(h) ==
  IF h \in committed
  THEN Processor!Request(h) /\ UNCHANGED retrying
  ELSE retrying' = retrying \cup {h} /\ UNCHANGED cementer_vars

add_recently_confirmed(r, h) ==
  LET added == Append(recently_confirmed, <<r, h>>)
  IN recently_confirmed' = IF Len(added) > recently_confirmed_size THEN Tail(added) ELSE added

NoVotes == [p \in Rep |-> NoVote]
with_election(r, e) == [q \in DOMAIN roots \cup {r} |-> IF q = r THEN e ELSE roots[q]]
(* Defect: the winner goes to the processor but not to the winner details.  *)
confirm_once_unrecorded(r, e) ==
  /\ roots' = with_election(r, [e EXCEPT !.state = "confirmed", !.votes = NoVotes])
  /\ IF e.state # "confirmed"
     THEN /\ add_recently_confirmed(r, e.winner)
          /\ process_confirmed(e.winner)
          /\ UNCHANGED election_winner_details
     ELSE UNCHANGED <<recently_confirmed, winner_vars, cementer_vars>>
confirm_once(r, e) ==
  /\ roots' = with_election(r, [e EXCEPT !.state = "confirmed", !.votes = NoVotes])
  /\ IF e.state # "confirmed" /\ e.winner \notin election_winner_details
     THEN /\ election_winner_details' = election_winner_details \cup {e.winner}
          /\ add_recently_confirmed(r, e.winner)
          /\ process_confirmed(e.winner)
     ELSE UNCHANGED <<recently_confirmed, winner_vars, cementer_vars>>

have_quorum(e, kept, top, sum) ==
  /\ sum >= online_weight_minimum
  /\ \A second \in {0} \cup {votes_for(e, h) : h \in kept \ {top}} :
       votes_for(e, top) > second + delta

(* A new leader replaces the winner and is forced into the ledger.          *)
confirm_if_quorum(r, e) ==
  \E kept \in tallies(e) : \E top \in kept :
    LET sum == SumFunction([h \in kept |-> votes_for(e, h)])
        changes == sum >= online_weight_minimum /\ top # e.winner
        updated == IF changes THEN [e EXCEPT !.winner = top] ELSE e
    IN /\ \A h \in kept : votes_for(e, top) >= votes_for(e, h)
       /\ forced' = IF changes THEN Append(forced, top) ELSE forced
       /\ IF have_quorum(e, kept, top, sum)
          THEN confirm_once(r, updated)
          ELSE /\ roots' = with_election(r, updated)
               /\ UNCHANGED <<recently_confirmed, winner_vars, cementer_vars>>

-----------------------------------------------------------------------------
(* Votes.  A vote carries the hash of a block or the block; the first finds *)
(* the election by the block, the second by its root.  A vote for a block   *)
(* without election waits in the cache.  Nothing reads the votes of a       *)
(* confirmed election: they are left out.                                   *)
newer(v, last) ==
  \/ last.hash = Zero
  \/ last.sequence < v.sequence
  \/ last.sequence = v.sequence /\ rank(last.hash) < rank(v.hash)

(* A voter is added unless the votes of the block suffice already.          *)
add_inactive_votes_cache(h, p) ==
  /\ p \notin inactive_votes_cache[h]
  /\ total(inactive_votes_cache[h]) < online_weight_minimum
  /\ inactive_votes_cache' = [inactive_votes_cache EXCEPT ![h] = @ \cup {p}]

vote(p, v, carries_block) ==
  LET r == root(v.hash)
      found == IF carries_block THEN active(r) ELSE has_election(v.hash)
  IN /\ \/ /\ found /\ roots[r].state # "confirmed" /\ newer(v, roots[r].votes[p])
           /\ confirm_if_quorum(r, [roots[r] EXCEPT !.votes[p] = v])
           /\ UNCHANGED inactive_votes_cache
        \/ /\ ~found
           /\ \A i \in DOMAIN recently_confirmed : recently_confirmed[i][2] # v.hash
           /\ add_inactive_votes_cache(v.hash, p)
           /\ UNCHANGED <<forced, roots, recently_confirmed, winner_vars, cementer_vars>>
     /\ UNCHANGED <<processor_vars, duty, activating, history_vars>>

with_cached_votes(e, h) ==
  [e EXCEPT !.votes = [p \in Rep |->
     IF @[p].hash = Zero /\ p \in inactive_votes_cache[h]
     THEN [sequence |-> 0, hash |-> h] ELSE @[p]]]

-----------------------------------------------------------------------------
(* Starting an election: a thread has read the block from the ledger, then  *)
(* inserts the election, then makes it leave the idle state, each under     *)
(* the mutex and with other threads in between.                             *)
starts(h) == [NoDuty EXCEPT !.step = "insert", !.hash = h]
next_step(t) == IF duty[t].publish # Zero THEN [duty[t] EXCEPT !.step = "publish"] ELSE NoDuty

insert(t) ==
  LET h == duty[t].hash
      r == root(h)
      e == with_cached_votes(
             [winner |-> h, first |-> h, blocks |-> {h}, state |-> "idle", by |-> t,
              votes |-> NoVotes], h)
      refused == \/ active(r)
                 \/ \E i \in DOMAIN recently_confirmed : recently_confirmed[i][1] = r
  IN /\ duty[t].step = "insert"
     /\ IF refused
        THEN /\ duty' = [duty EXCEPT ![t] = next_step(t)]
             /\ UNCHANGED <<forced, roots, recently_confirmed, winner_vars, cementer_vars>>
        ELSE /\ duty' = [duty EXCEPT ![t].step = "transition"]
             /\ IF inactive_votes_cache[h] # {}
                THEN confirm_if_quorum(r, e)
                ELSE /\ roots' = with_election(r, e)
                     /\ UNCHANGED <<forced, recently_confirmed, winner_vars, cementer_vars>>
     /\ elected' = elected \cup {h}
     /\ UNCHANGED <<processor_vars, inactive_votes_cache, activating, reported, passed_over,
                    aborted>>

(* Defect: the new state is stored whatever the state was.                  *)
state_change_unchecked(e) == [e EXCEPT !.state = "ongoing"]
(* election::state_change from idle, a compare and exchange.                *)
state_change(e) == IF e.state = "idle" THEN [e EXCEPT !.state = "ongoing"] ELSE e

transition(t) ==
  LET r == root(duty[t].hash)
  IN /\ duty[t].step = "transition"
     /\ duty' = [duty EXCEPT ![t] = next_step(t)]
     /\ roots' = IF active(r) /\ roots[r].by = t
                 THEN with_election(r, [state_change(roots[r]) EXCEPT !.by = "none"]) ELSE roots
     /\ UNCHANGED <<processor_vars, forced, inactive_votes_cache, recently_confirmed,
                    winner_vars, activating, cementer_vars, history_vars>>

(* active_transactions::publish: a rival joins the election of its root.    *)
publish(t) ==
  LET h == duty[t].publish
      r == root(h)
      e == roots[r]
      joins == /\ active(r) /\ e.state # "confirmed" /\ h \notin e.blocks
               /\ Cardinality(e.blocks) < max_blocks \/ votes_for(e, h) >= tenth
  IN /\ duty[t].step = "publish"
     /\ duty' = [duty EXCEPT ![t] = NoDuty]
     /\ IF joins
        THEN confirm_if_quorum(r, with_cached_votes([e EXCEPT !.blocks = @ \cup {h}], h))
        ELSE UNCHANGED <<forced, roots, recently_confirmed, winner_vars, cementer_vars>>
     /\ UNCHANGED <<processor_vars, inactive_votes_cache, activating, history_vars>>

-----------------------------------------------------------------------------
(* Stopping elections: cleanup and removal from the container.              *)
stop_elections(stopped) ==
  /\ roots' = [r \in DOMAIN roots \ stopped |-> roots[r]]
  /\ inactive_votes_cache' = [h \in Hash |->
       IF root(h) \in stopped /\ has_election(h) THEN {} ELSE inactive_votes_cache[h]]

(* request_confirm: a confirmed election ends after a while; one that is    *)
(* not ends after five minutes, or earlier when there are too many, whether *)
(* or not it has left the idle state.                                       *)
request_confirm(r) ==
  /\ free("loop")
  /\ active(r)
  /\ stop_elections({r})
  /\ UNCHANGED <<processor_vars, forced, recently_confirmed, winner_vars, duty, activating,
                 cementer_vars, history_vars>>

(* The blocks of an account above its confirmation height.                  *)
uncemented(a) == {h \in committed \ cemented : Block[h].account = a}
head(a) == CHOOSE h \in uncemented(a) : \A k \in uncemented(a) : height[k] <= height[h]
first_unconfirmed(a) ==
  CHOOSE h \in uncemented(a) : \A k \in uncemented(a) : height[h] <= height[k]

(* The request loop reads the ledger at one moment, asks the processor at a *)
(* later one whether it has the block already, and inserts after that.      *)
checks(h) == [NoDuty EXCEPT !.step = "check", !.hash = h]

confirm_prioritized_frontiers(a) ==
  /\ free("loop")
  /\ uncemented(a) # {}
  /\ duty' = [duty EXCEPT !["loop"] = checks(head(a))]
  /\ UNCHANGED <<processor_vars, forced, active_vars, winner_vars, activating, cementer_vars,
                 history_vars>>

(* activate_dependencies, for an election that was not confirmed in time:   *)
(* the first block of the chain that is not cemented, one half way to it,   *)
(* and the source.                                                          *)
activated(w) ==
  LET missing_blocks == {h \in uncemented(Block[w].account) : height[h] <= height[w]}
      lacking == Cardinality(missing_blocks)
      jumps == IF lacking \div 2 > 128 THEN 128 ELSE lacking \div 2
      chain == IF Block[w].previous = Zero THEN {} ELSE missing_blocks
  IN {checks(h) : h \in {k \in chain : lacking > 1 /\ height[k] = height[w] - lacking + 1}}
     \cup {starts(h) : h \in {k \in chain : lacking > 2 /\ height[k] = height[w] - jumps}}
     \cup {checks(h) : h \in {k \in {Block[w].source} \cap (committed \ cemented) :
                                 k # Block[w].previous /\ ~has_election(k)}}

activate_dependencies(r) ==
  /\ free("loop")
  /\ active(r) /\ roots[r].state = "ongoing" /\ roots[r].winner \in committed
  /\ \E start \in activated(roots[r].winner) : duty' = [duty EXCEPT !["loop"] = start]
  /\ UNCHANGED <<processor_vars, forced, active_vars, winner_vars, activating, cementer_vars,
                 history_vars>>

check_processing ==
  /\ duty["loop"].step = "check"
  /\ duty' = [duty EXCEPT !["loop"] =
                IF is_processing_block(@.hash) THEN NoDuty ELSE starts(@.hash)]
  /\ UNCHANGED <<processor_vars, forced, active_vars, winner_vars, activating, cementer_vars,
                 history_vars>>

-----------------------------------------------------------------------------
(* The block processor's thread.  A fork starts an election of the ledger's *)
(* block, if there is one, it is not settled, and it may be voted on or the *)
(* fork is not live, and takes the fork to the election; the elections of   *)
(* what a forced block rolled back are stopped, except that of its own      *)
(* root.                                                                    *)
process_block ==
  /\ free("processor") /\ process_one
  /\ stop_elections({root(h) : h \in rolled_back \ {successor(taken, stored)}})
  /\ IF outcome = "fork"
     THEN LET ours == successor(taken, stored \ rolled_back)
              starting == /\ ours # Zero
                          /\ ~is_processing_block(ours) /\ ours \notin cemented
                          /\ can_vote(ours) \/ taken \notin Live
          IN duty' = [duty EXCEPT !["processor"] =
                        [step |-> IF starting THEN "insert" ELSE "publish",
                         hash |-> ours, publish |-> taken]]
     ELSE UNCHANGED duty
  /\ elected' = elected \ rolled_back
  /\ UNCHANGED <<recently_confirmed, winner_vars, activating, cementer_vars,
                 reported, passed_over, aborted>>

live_block ==
  /\ free("processor") /\ process_live
  /\ duty' = IF can_vote(Head(post_events))
             THEN [duty EXCEPT !["processor"] = starts(Head(post_events))] ELSE duty
  /\ UNCHANGED <<active_vars, winner_vars, activating, cementer_vars, history_vars>>

process_blocks ==
  \/ process_block
  \/ live_block
  \/ /\ free("processor")
     /\ process_batch \/ commit \/ end_batch
     /\ UNCHANGED <<active_vars, winner_vars, duty, activating, cementer_vars, history_vars>>

-----------------------------------------------------------------------------
(* The alarm of process_confirmed.  It gives up after some twenty seconds.  *)
(* A confirmed election ends after five, and the model takes it that it has *)
(* ended by then.                                                           *)
alarm(h) ==
  /\ h \in retrying
  /\ \/ h \in committed /\ Processor!Request(h) /\ UNCHANGED election_winner_details
     \/ /\ h \notin committed /\ ~has_election(h)
        /\ election_winner_details' = election_winner_details \ {h}
        /\ UNCHANGED cementer_vars
  /\ retrying' = retrying \ {h}
  /\ UNCHANGED <<processor_vars, forced, active_vars, duty, activating, history_vars>>

(* The confirmation height processor's thread: it cements in a transaction  *)
(* of its own, calls the observers, or finds that a block is missing.       *)
cement(S) ==
  /\ batch = "idle" /\ observers_done
  /\ Processor!CementRequested(S)
  /\ \A h \in S : \E k \in requested \cap committed : h \in below[k]
  /\ UNCHANGED <<stored, queue_vars, active_vars, winner_vars, duty, activating, history_vars>>

release_assert ==
  /\ observers_done
  /\ ~(waiting \subseteq committed)
  /\ aborted' = TRUE
  /\ UNCHANGED <<ledger_vars, queue_vars, active_vars, winner_vars, duty, activating,
                 cementer_vars, reported, passed_over, elected>>

(* Defect: a winner that was cemented before it was elected is kept.        *)
block_already_cemented_callback_ignored(h) ==
  /\ observers_done
  /\ Processor!AlreadyCemented(h)
  /\ UNCHANGED <<stored, queue_vars, active_vars, winner_vars, duty, activating, history_vars>>
block_already_cemented_callback(h) ==
  /\ observers_done
  /\ Processor!AlreadyCemented(h)
  /\ election_winner_details' = election_winner_details \ {h}
  /\ UNCHANGED <<stored, queue_vars, active_vars, retrying, duty, activating, history_vars>>

notify_observers(h) ==
  /\ observers_done
  /\ Processor!Announce(h)
  /\ activating' = [Idle EXCEPT !.step = IF is_processing_block(h) THEN "settle" ELSE "confirm",
                                !.hash = h]
  /\ UNCHANGED <<stored, queue_vars, active_vars, winner_vars, duty, history_vars>>

(* The rest of block_cemented_callback: confirm_block, for a block nobody   *)
(* asked to cement; the report to the observers; then the next block of the *)
(* account and that of the account it sends to.                             *)
(* Defect: the destination of a send is left out.                           *)
activations_own(h) == <<Block[h].account>>
activations(h) ==
  <<Block[h].account>> \o listed({Block[k].account : k \in {b \in Hash : Block[b].source = h}})
activate_next(h) == [Idle EXCEPT !.step = "activate", !.accounts = activations(h)]

confirm_block ==
  LET h == activating.hash
      r == root(h)
  IN /\ activating.step = "confirm"
     /\ \/ /\ ~has_election(h)
           /\ reported' = [reported EXCEPT ![h] = @ + 1]
           /\ activating' = activate_next(h)
           /\ UNCHANGED <<roots, recently_confirmed, winner_vars, cementer_vars, passed_over>>
        \/ /\ has_election(h) /\ roots[r].winner = h
           /\ confirm_once(r, roots[r])
           /\ activating' = [activating EXCEPT !.step = "settle"]
           /\ UNCHANGED <<reported, passed_over>>
        \/ /\ has_election(h) /\ roots[r].winner # h
           /\ passed_over' = passed_over \cup {h}
           /\ activating' = Idle
           /\ UNCHANGED <<roots, recently_confirmed, winner_vars, cementer_vars, reported>>
     /\ UNCHANGED <<processor_vars, forced, inactive_votes_cache, duty, elected, aborted>>

(* The election found in election_winner_details is confirmed with this     *)
(* winner, for which ConfirmedStays is the reason: the code's test of it    *)
(* always passes.                                                           *)
settle ==
  LET h == activating.hash
  IN /\ activating.step = "settle"
     /\ reported' = IF h \in election_winner_details
                    THEN [reported EXCEPT ![h] = @ + 1] ELSE reported
     /\ election_winner_details' = election_winner_details \ {h}
     /\ activating' = activate_next(h)
     /\ UNCHANGED <<processor_vars, forced, active_vars, retrying, duty, cementer_vars,
                    passed_over, elected, aborted>>

activate ==
  LET a == Head(activating.accounts)
      left == Tail(activating.accounts)
  IN /\ activating.step = "activate" /\ free("observer")
     /\ duty' = IF uncemented(a) # {} /\ can_vote(first_unconfirmed(a))
                THEN [duty EXCEPT !["observer"] = starts(first_unconfirmed(a))] ELSE duty
     /\ activating' = IF left = << >> THEN Idle ELSE [activating EXCEPT !.accounts = left]
     /\ UNCHANGED <<processor_vars, forced, active_vars, winner_vars, cementer_vars,
                    history_vars>>

-----------------------------------------------------------------------------
arrive(h) ==
  /\ add(h)
  /\ UNCHANGED <<active_vars, winner_vars, duty, activating, cementer_vars, history_vars>>

(* The steps of the threads, which take no vote.                            *)
Threads ==
  \/ \E h \in Hash \ {Genesis} : \/ arrive(h) \/ alarm(h)
                                \/ block_already_cemented_callback(h) \/ notify_observers(h)
  \/ \E t \in Thread : insert(t) \/ transition(t) \/ publish(t)
  \/ \E r \in DOMAIN roots : request_confirm(r) \/ activate_dependencies(r)
  \/ \E a \in Account : confirm_prioritized_frontiers(a)
  \/ check_processing
  \/ process_blocks
  \/ \E S \in SUBSET (committed \ cemented) : cement(S)
  \/ release_assert
  \/ confirm_block \/ settle \/ activate

Next ==
  /\ ~aborted
  /\ \/ /\ received < MaxVotes /\ received' = received + 1
        /\ \E p \in Rep, s \in 1 .. MaxSequence, carries_block \in BOOLEAN :
             \E h \in Candidates[p] : vote(p, [sequence |-> s, hash |-> h], carries_block)
     \/ Threads /\ UNCHANGED received

Spec == Init /\ [][Next]_vars

-----------------------------------------------------------------------------
(* A block in the unchecked table waits for a block it depends on and the   *)
(* ledger does not have, in whatever order blocks arrive, are forced and    *)
(* rolled back; so queue_unchecked wakes it when that block comes, and it   *)
(* is not stranded.  The exceptions are blocks no ledger takes, which are   *)
(* parked too: under a previous block of another account that is there, or  *)
(* under no hash at all.                                                    *)
never_taken(h) == \A ledger \in SUBSET Hash : result(h, ledger) # "progress"
NoBlockStranded ==
  \A u \in unchecked : u[1] \in dependencies(u[2]) \ stored \/ never_taken(u[2])

(* election_winner_details never keeps a winner nobody will remove: the     *)
(* processor still owes an answer for it, process_confirmed still retries,  *)
(* or its callback is under way; and confirm_block's debug_assert holds,    *)
(* the winner of a confirmed election being there when its block turns out  *)
(* cemented.                                                                *)
WinnersOwned ==
  /\ \A h \in election_winner_details :
       \/ h \in waiting \cup retrying
       \/ activating.step \in {"confirm", "settle"} /\ activating.hash = h
  /\ activating.step = "confirm" =>
       LET h == activating.hash
       IN has_election(h) /\ roots[root(h)].winner = h /\ roots[root(h)].state = "confirmed"
            => h \in election_winner_details

(* The observers hear of every cemented block exactly once, whether it was  *)
(* elected, found in an election, or had none, and whatever happened to the *)
(* election since; the one exception is a block whose election then has     *)
(* another winner, which block_cemented_callback passes over.               *)
CementedReported ==
  \A h \in Hash \ passed_over :
    /\ reported[h] <= announced[h]
    /\ reported[h] < announced[h] =>
         activating.step \in {"confirm", "settle"} /\ activating.hash = h

(* A confirmed election stays confirmed and keeps its winner until it ends, *)
(* though the thread that started it may be about to make it active.        *)
ConfirmedStays ==
  [][\A r \in DOMAIN roots \cap DOMAIN roots' :
       roots[r].state = "confirmed" =>
         roots'[r].state = "confirmed" /\ roots'[r].winner = roots[r].winner]_vars

(* A live block that may be voted on has been proposed for election once    *)
(* the threads are done: by process_live if its dependencies were cemented  *)
(* first, by the callback of the last of them if they were not.             *)
NoMissedActivation ==
  observers_done /\ batch = "idle" /\ free("processor") =>
    \A h \in (committed \ cemented) \cap Live :
      (\A d \in dependencies(h) : d = Genesis \/ reported[d] > 0) => h \in elected

(* What release_assert (block) claims in both processors: a block given to  *)
(* the confirmation height processor is in the ledger until it is answered. *)
RequestedStay == waiting \subseteq committed

=============================================================================
