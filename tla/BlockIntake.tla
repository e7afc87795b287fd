---------------------------- MODULE BlockIntake ----------------------------
(***************************************************************************)
(* How blocks come to the block processor and how flush and stop wait for  *)
(* it: the adding thread, the thread of state_block_signature_verification *)
(* and the processing thread, with block_processor's mutex and condition   *)
(* variable, which flush shares with the processing thread.  Everything    *)
(* done in one critical section is one action; only flush keeps the mutex  *)
(* over several, since it looks into the verification in between.  One     *)
(* thread flushes at a time, as with the one bootstrap thread a node has   *)
(* by default: flushing is a flag, not a count, and notify_one wakes one.  *)
(* Operators marked "Defect" are not used by the specification.            *)
(***************************************************************************)
EXTENDS Naturals, FiniteSets

CONSTANTS
  Block,                    \* the blocks that arrive, each once
  Unverified,               \* those whose signature is checked in batches
  max_verification_batch

ASSUME IntakeAssumption == Unverified \subseteq Block /\ max_verification_batch \in Nat \ {0}

VARIABLES
  added,                    \* history: the blocks that have arrived
  handled,                  \* history: the blocks processed or found invalid
  queued,                   \* blocks and forced
  active,                   \* block_processor::active
  bp_stopped,
  flushing,
  mutex,                    \* whether flush holds block_processor's mutex
  processing,               \* the processing thread
  in_hand,                  \* the block it has taken
  adding,                   \* the adding thread
  flush,                    \* the thread in flush
  owed,                     \* history: the blocks under way when it called
  stopping,                 \* the thread in stop
  state_blocks, items,      \* waiting for verification, and being verified
  v_active, v_stopped,
  verifying                 \* the verification thread

bp_vars == <<queued, active, processing, in_hand>>
v_vars == <<state_blocks, items, v_active, verifying>>
flush_vars == <<flush, flushing, owed, mutex>>
stop_vars == <<stopping, bp_stopped, v_stopped>>
intake_vars == <<added, handled, adding, bp_vars, v_vars, flush_vars, stop_vars>>

IntakeInit ==
  /\ added = {} /\ handled = {} /\ adding = "ready"
  /\ queued = {} /\ active = FALSE /\ processing = "loop" /\ in_hand = {}
  /\ state_blocks = {} /\ items = {} /\ v_active = FALSE /\ verifying = "loop"
  /\ flush = "idle" /\ flushing = FALSE /\ owed = {} /\ mutex = FALSE
  /\ stopping = "no" /\ bp_stopped = FALSE /\ v_stopped = FALSE

awake(thread) == IF thread = "asleep" THEN "woken" ELSE thread
(* condition.notify_all: the processing thread and flush may be waiting.    *)
condition_notify_all == processing' = awake(processing) /\ flush' = awake(flush)

-----------------------------------------------------------------------------
(* add and force.                                                           *)
add(b) ==
  /\ adding = "ready" /\ b \notin added
  /\ added' = added \cup {b}
  /\ IF b \in Unverified
     THEN /\ state_blocks' = state_blocks \cup {b} /\ adding' = "notify_one"
          /\ UNCHANGED queued
     ELSE /\ ~mutex
          /\ queued' = queued \cup {b} /\ adding' = "notify_all"
          /\ UNCHANGED state_blocks
  /\ UNCHANGED <<handled, active, processing, in_hand, items, v_active, verifying, flush_vars,
                 stop_vars>>

add_notify ==
  /\ adding # "ready" /\ adding' = "ready"
  /\ IF adding = "notify_one"
     THEN verifying' = awake(verifying) /\ UNCHANGED <<processing, flush>>
     ELSE condition_notify_all /\ UNCHANGED verifying
  /\ UNCHANGED <<added, handled, queued, active, in_hand, state_blocks, items, v_active,
                 flushing, owed, mutex, stop_vars>>

-----------------------------------------------------------------------------
(* process_blocks: the mutex is held from the end of one batch to the start *)
(* of the next or to the wait, before which one waiting thread is notified. *)
processing_loop ==
  /\ processing \in {"loop", "woken"} /\ ~mutex
  /\ \/ /\ bp_stopped
        /\ processing' = "done" /\ active' = FALSE /\ UNCHANGED flush
     \/ /\ ~bp_stopped /\ queued # {}
        /\ processing' = "batch" /\ active' = TRUE /\ UNCHANGED flush
     \/ /\ ~bp_stopped /\ queued = {}
        /\ processing' = "asleep" /\ active' = FALSE /\ flush' = awake(flush)
  /\ UNCHANGED <<added, handled, adding, queued, in_hand, v_vars, flushing, owed, mutex, stop_vars>>

(* process_batch takes blocks one by one and ends when there are none or    *)
(* its time is up.                                                          *)
take_and_process ==
  /\ processing = "batch"
  /\ \/ /\ in_hand = {} /\ queued # {} /\ ~mutex
        /\ \E b \in queued : in_hand' = {b} /\ queued' = queued \ {b}
        /\ UNCHANGED <<processing, handled>>
     \/ /\ in_hand # {}
        /\ handled' = handled \cup in_hand /\ in_hand' = {}
        /\ processing' \in {"batch", "loop"}
        /\ UNCHANGED queued
     \/ /\ in_hand = {} /\ queued = {} /\ ~mutex
        /\ processing' = "loop"
        /\ UNCHANGED <<handled, in_hand, queued>>
  /\ UNCHANGED <<added, adding, active, v_vars, flush_vars, stop_vars>>

-----------------------------------------------------------------------------
(* The verification thread: run takes batches of items until none is left,  *)
(* passes each on, and tells flush when it becomes inactive.                *)
setup_items ==
  \E taken \in SUBSET state_blocks :
    /\ IF Cardinality(state_blocks) <= max_verification_batch
       THEN taken = state_blocks ELSE Cardinality(taken) = max_verification_batch
    /\ items' = taken /\ state_blocks' = state_blocks \ taken

verification_loop ==
  /\ verifying \in {"loop", "woken"}
  /\ \/ /\ v_stopped
        /\ verifying' = "done" /\ UNCHANGED <<state_blocks, items, v_active>>
     \/ /\ ~v_stopped /\ state_blocks # {}
        /\ v_active' = TRUE /\ setup_items /\ verifying' = "verify"
     \/ /\ ~v_stopped /\ state_blocks = {}
        /\ verifying' = "asleep" /\ UNCHANGED <<state_blocks, items, v_active>>
  /\ UNCHANGED <<added, handled, adding, bp_vars, flush_vars, stop_vars>>

(* verify_state_blocks, with process_verified_state_blocks at its end; what *)
(* is not valid goes to lazy bootstrap.                                     *)
process_verified_state_blocks ==
  /\ verifying = "verify" /\ ~mutex
  /\ \E valid \in SUBSET items :
       /\ queued' = queued \cup valid
       /\ handled' = handled \cup (items \ valid)
  /\ items' = {} /\ verifying' = "notify"
  /\ UNCHANGED <<added, adding, active, processing, in_hand, state_blocks, v_active, flush_vars,
                 stop_vars>>

verified_notify ==
  /\ verifying = "notify" /\ verifying' = "verified"
  /\ condition_notify_all
  /\ UNCHANGED <<added, handled, adding, queued, active, in_hand, state_blocks, items, v_active,
                 flushing, owed, mutex, stop_vars>>

verify_more ==
  /\ verifying = "verified"
  /\ IF state_blocks # {} /\ ~v_stopped
     THEN setup_items /\ verifying' = "verify" /\ UNCHANGED v_active
     ELSE v_active' = FALSE /\ verifying' = "inactive" /\ UNCHANGED <<state_blocks, items>>
  /\ UNCHANGED <<added, handled, adding, bp_vars, flush_vars, stop_vars>>

(* Defect: flush is not told.                                               *)
transition_inactive_callback_silent ==
  /\ verifying = "inactive" /\ verifying' = "loop"
  /\ UNCHANGED <<added, handled, adding, bp_vars, state_blocks, items, v_active, flush_vars,
                 stop_vars>>
transition_inactive_callback ==
  /\ \/ /\ verifying = "inactive"
        /\ verifying' = (IF flushing THEN "guard" ELSE "loop") /\ UNCHANGED <<processing, flush>>
     \/ verifying = "guard" /\ ~mutex /\ verifying' = "tell" /\ UNCHANGED <<processing, flush>>
     \/ verifying = "tell" /\ verifying' = "loop" /\ condition_notify_all
  /\ UNCHANGED <<added, handled, adding, queued, active, in_hand, state_blocks, items, v_active,
                 flushing, owed, mutex, stop_vars>>

-----------------------------------------------------------------------------
(* flush.                                                                   *)
flush_start ==
  /\ flush \in {"idle", "returned"}
  /\ flush' = "lock" /\ flushing' = TRUE /\ owed' = added \ handled
  /\ UNCHANGED <<added, handled, adding, bp_vars, v_vars, mutex, stop_vars>>

(* The condition of its loop, read piece by piece with the mutex held.      *)
flush_return == flush' = "returned" /\ flushing' = FALSE /\ mutex' = FALSE
flush_wait == flush' = "asleep" /\ mutex' = FALSE /\ UNCHANGED flushing
flush_holding(next) == flush' = next /\ mutex' = TRUE /\ UNCHANGED flushing

(* Defect: what is in the hands of the verification thread is forgotten.    *)
flush_check_unverified ==
  /\ \/ /\ flush \in {"lock", "woken"} /\ ~mutex
        /\ IF bp_stopped THEN flush_return
           ELSE IF queued # {} THEN flush_wait ELSE flush_holding("size")
     \/ /\ flush = "size"
        /\ IF state_blocks # {} \/ active THEN flush_wait ELSE flush_return
  /\ UNCHANGED <<added, handled, adding, bp_vars, v_vars, owed, stop_vars>>
flush_check ==
  /\ \/ /\ flush \in {"lock", "woken"} /\ ~mutex
        /\ IF bp_stopped THEN flush_return
           ELSE IF queued # {} THEN flush_wait ELSE flush_holding("size")
     \/ /\ flush = "size"
        /\ IF state_blocks # {} \/ active THEN flush_wait ELSE flush_holding("is_active")
     \/ /\ flush = "is_active"
        /\ IF v_active THEN flush_holding("wait") ELSE flush_return
     \/ flush = "wait" /\ flush_wait
  /\ UNCHANGED <<added, handled, adding, bp_vars, v_vars, owed, stop_vars>>

-----------------------------------------------------------------------------
(* stop, which joins the verification thread.                               *)
joinable == stopping = "join" /\ verifying = "done" /\ processing = "done"
stop_both ==
  /\ \/ /\ stopping = "no" /\ ~mutex
        /\ bp_stopped' = TRUE /\ stopping' = "notify"
        /\ UNCHANGED <<v_stopped, processing, flush, verifying>>
     \/ /\ stopping = "notify" /\ condition_notify_all
        /\ stopping' = "verification" /\ UNCHANGED <<bp_stopped, v_stopped, verifying>>
     \/ /\ stopping = "verification"
        /\ v_stopped' = TRUE /\ stopping' = "notify_one"
        /\ UNCHANGED <<bp_stopped, processing, flush, verifying>>
     \/ /\ stopping = "notify_one" /\ verifying' = awake(verifying)
        /\ stopping' = "join" /\ UNCHANGED <<bp_stopped, v_stopped, processing, flush>>
     \/ /\ joinable
        /\ stopping' = "joined" /\ UNCHANGED <<bp_stopped, v_stopped, processing, flush, verifying>>
  /\ UNCHANGED <<added, handled, adding, queued, active, in_hand, state_blocks, items, v_active,
                 flushing, owed, mutex>>

Processing == processing_loop \/ take_and_process
Verifying ==
  \/ verification_loop \/ process_verified_state_blocks \/ verified_notify \/ verify_more
  \/ transition_inactive_callback

IntakeNext ==
  \/ \E b \in Block : add(b)
  \/ add_notify \/ Processing \/ Verifying \/ flush_start \/ flush_check \/ stop_both

(* Every thread keeps running once it has something to do; blocks, flush    *)
(* and stop need not come.  This is the weak fairness of add_notify,        *)
(* Processing, Verifying, flush_check and a stop that has begun, written    *)
(* out for TLC: a thread that is neither asleep nor done nor kept out by    *)
(* the mutex for ever takes a step, and only a notification moves a thread  *)
(* that is asleep.                                                          *)
IntakeFairness ==
  /\ []<>(adding = "ready") \/ []<><<adding' = "ready">>_adding
  /\ \/ []<>(processing \in {"asleep", "done"} \/ (mutex /\ in_hand = {}))
     \/ []<><<processing # "asleep">>_<<processing, in_hand>>
  /\ \/ []<>(verifying \in {"asleep", "done"} \/ (mutex /\ verifying \in {"verify", "guard"}))
     \/ []<><<verifying # "asleep">>_verifying
  /\ \/ []<>(flush \in {"idle", "asleep", "returned"} \/ (mutex /\ flush \in {"lock", "woken"}))
     \/ []<><<flush \notin {"idle", "asleep", "returned"}>>_flush
  /\ \/ []<>(stopping \in {"no", "join", "joined"} /\ ~joinable)
     \/ []<><<stopping # "no">>_stopping

IntakeSpec == IntakeInit /\ [][IntakeNext]_intake_vars /\ IntakeFairness

-----------------------------------------------------------------------------
(* When flush returns and the node is not stopping, every block that had    *)
(* arrived when it was called has been processed or found invalid, though   *)
(* on its way it is in turn in the verification's queue, in its hands, in   *)
(* the processor's queue and in its hands, and flush looks at them one      *)
(* after the other.                                                         *)
FlushComplete == flush = "returned" /\ ~bp_stopped => owed \subseteq handled

(* flush always returns, although the last thing it may wait for is the     *)
(* verification thread finding nothing valid, and stop ends both threads,   *)
(* wherever they wait: no notification comes in the gap before a wait.      *)
FlushAndStopEnd ==
  /\ flush = "lock" ~> flush = "returned"
  /\ stopping = "notify" ~> stopping = "joined"

=============================================================================
