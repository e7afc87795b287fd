---------------------------- MODULE NodeWriters ----------------------------
(***************************************************************************)
(* The threads of a node that write to the ledger, and how they share the  *)
(* write queue and the one write transaction of the store: the block       *)
(* processor, the confirmation height processor, and threads that process  *)
(* a local block without joining the queue.  What a batch does to the      *)
(* ledger is left to Ledger; here a batch is a number of blocks, and what  *)
(* the confirmation height processor gathers a number of pending writes,   *)
(* each of Pieces parts that a full batch may separate.                    *)
(* Operators marked "Defect" are not used by the specification.            *)
(***************************************************************************)
EXTENDS WriteDatabaseQueue

CONSTANTS
  process_batch, confirmation_height,  \* the two writers
  local,                               \* a thread in node::process_local
  none,
  MaxBlocks, MaxHashes, MaxLocal,      \* bounds: what arrives in a behaviour
  MaxWrites,                           \* bound: pending writes one hash leads to
  Pieces,                              \* bound: batches a pending write may take
  batch_write_size,                    \* pending writes that are worth a try
  pending_writes_max_size              \* pending writes that force a write

ASSUME WritersAssumption ==
  /\ Writer = {process_batch, confirmation_height} /\ process_batch # confirmation_height
  /\ local \notin Writer /\ none \notin Writer \cup {local}
  /\ {MaxBlocks, MaxHashes, MaxLocal, MaxWrites, Pieces, batch_write_size,
      pending_writes_max_size} \subseteq Nat
  /\ Pieces > 0 /\ batch_write_size > 0 /\ pending_writes_max_size > 0

VARIABLES
  arrived,         \* how much of each bound is used up
  blocks,          \* block_processor: blocks and forced
  batch,           \* control of process_blocks
  processed,       \* number_of_blocks_processed # 0 in this batch
  awaiting_write,
  callers,         \* threads in process_local before tx_begin_write
  awaiting,        \* awaiting_processing
  pending_writes,
  piece,           \* parts of the first pending write that are cemented
  left,            \* pending writes the current hash will still lead to
  cementing,       \* control of confirmation_height_processor::run
  transaction,     \* who has the write transaction of the store
  stopped          \* the threads told to stop

processor_vars == <<blocks, batch, processed, awaiting_write, callers>>
height_vars == <<awaiting, pending_writes, piece, left, cementing>>
vars == <<queue_vars, arrived, processor_vars, height_vars, transaction, stopped>>

Init ==
  /\ QueueInit
  /\ arrived = [kind \in {"block", "hash", "local"} |-> 0]
  /\ blocks = 0 /\ batch = "idle" /\ processed = FALSE
  /\ awaiting_write = FALSE /\ callers = 0
  /\ awaiting = 0 /\ pending_writes = 0 /\ piece = 0 /\ left = 0 /\ cementing = "run"
  /\ transaction = none
  /\ stopped = {}

arrives(kind, bound) == arrived[kind] < bound /\ arrived' = [arrived EXCEPT ![kind] = @ + 1]

-----------------------------------------------------------------------------
(* block_processor.                                                         *)
add_block ==
  /\ arrives("block", MaxBlocks)
  /\ blocks' = blocks + 1
  /\ UNCHANGED <<queue_vars, batch, processed, awaiting_write, callers, height_vars,
                 transaction, stopped>>

batch_wait ==
  /\ batch = "idle" /\ blocks > 0 /\ process_batch \notin stopped
  /\ wait(process_batch)
  /\ batch' = "wait"
  /\ UNCHANGED <<arrived, blocks, processed, awaiting_write, callers, height_vars,
                 transaction, stopped>>

batch_begin ==
  /\ batch = "wait" /\ guard[process_batch] = "owned" /\ transaction = none
  /\ transaction' = process_batch
  /\ batch' = "write" /\ processed' = FALSE
  /\ UNCHANGED <<queue_vars, arrived, blocks, awaiting_write, callers, height_vars, stopped>>

batch_process ==
  /\ batch = "write" /\ blocks > 0 /\ ~awaiting_write
  /\ blocks' = blocks - 1 /\ processed' = TRUE
  /\ UNCHANGED <<queue_vars, arrived, batch, awaiting_write, callers, height_vars,
                 transaction, stopped>>

(* Defect: the flag is left for the next batch.                             *)
batch_end_awaited ==
  /\ batch = "write"
  /\ blocks = 0 \/ awaiting_write \/ processed
  /\ transaction' = none
  /\ batch' = "release"
  /\ UNCHANGED <<queue_vars, arrived, blocks, processed, awaiting_write, callers,
                 height_vars, stopped>>
(* The queues are empty, a write is awaited or, some blocks later, the      *)
(* deadline has passed: the transaction ends first, then the events run,    *)
(* then the guard ends.                                                     *)
batch_end ==
  /\ batch = "write"
  /\ blocks = 0 \/ awaiting_write \/ processed
  /\ awaiting_write' = FALSE
  /\ transaction' = none
  /\ batch' = "release"
  /\ UNCHANGED <<queue_vars, arrived, blocks, processed, callers, height_vars, stopped>>

batch_release ==
  /\ \/ batch = "release" /\ release(process_batch) /\ batch' = "notify"
     \/ batch = "notify" /\ notify_all(process_batch) /\ batch' = "idle"
  /\ UNCHANGED <<arrived, blocks, processed, awaiting_write, callers, height_vars,
                 transaction, stopped>>

batch_exit ==
  /\ batch = "idle" /\ process_batch \in stopped
  /\ batch' = "exit"
  /\ UNCHANGED <<queue_vars, arrived, blocks, processed, awaiting_write, callers,
                 height_vars, transaction, stopped>>

-----------------------------------------------------------------------------
(* confirmation_height_processor::run and the process functions.  A         *)
(* notification reaches the thread only if it waits; it has overslept if it *)
(* began to wait when the notification of stop was over.                    *)
notified_thread == IF cementing \in {"asleep", "overslept"} THEN "run" ELSE cementing

add_hash ==
  /\ arrives("hash", MaxHashes)
  /\ awaiting' = awaiting + 1
  /\ cementing' = notified_thread
  /\ UNCHANGED <<queue_vars, processor_vars, pending_writes, piece, left, transaction, stopped>>

running == cementing = "run" /\ confirmation_height \notin stopped

(* Nothing waits and nothing is pending: the mutex is unlocked and locked   *)
(* again for the cleanup, and the thread sleeps without another look.       *)
fall_asleep ==
  /\ \/ running /\ awaiting = 0 /\ pending_writes = 0 /\ cementing' = "unlocked"
     \/ /\ cementing = "unlocked"
        /\ cementing' = IF confirmation_height \in stopped THEN "overslept" ELSE "asleep"
  /\ UNCHANGED <<queue_vars, arrived, processor_vars, awaiting, pending_writes, piece, left,
                 transaction, stopped>>

set_next_hash ==
  /\ running /\ awaiting > 0
  /\ awaiting' = awaiting - 1
  /\ left' \in 0 .. MaxWrites
  /\ cementing' = "iterate"
  /\ UNCHANGED <<queue_vars, arrived, processor_vars, pending_writes, piece, transaction, stopped>>

(* One iteration: a pending writes are prepared, and when the last one of   *)
(* the hash is, or enough are pending, the processor tries for the queue.   *)
(* It need not try after the last one while more hashes are waiting and the *)
(* minimum time has not passed.                                             *)
iterated(a) ==
  /\ cementing = "iterate" /\ confirmation_height \notin stopped
  /\ a = IF left = 0 THEN 0 ELSE 1
  /\ pending_writes' = pending_writes + a
  /\ left' = left - a
  /\ UNCHANGED <<arrived, processor_vars, awaiting, piece, transaction, stopped>>
max_write_size_reached == pending_writes' >= batch_write_size
force_write == pending_writes' >= pending_writes_max_size
after_iteration == IF left' = 0 THEN "run" ELSE "iterate"

iterate ==
  \E a \in {0, 1} :
    /\ iterated(a)
    /\ \/ pending_writes' = 0
       \/ ~max_write_size_reached /\ ~force_write /\ (left' = 0 => awaiting > 0)
    /\ cementing' = after_iteration
    /\ UNCHANGED queue_vars

iterate_and_write ==
  \E a \in {0, 1} :
    /\ iterated(a)
    /\ pending_writes' > 0
    /\ left' = 0 \/ max_write_size_reached \/ force_write
    /\ process(confirmation_height)
    /\ cementing' = IF guard'[confirmation_height] = "owned" THEN "wait"
                    ELSE IF force_write THEN "force" ELSE after_iteration

(* The write is forced, or the last hash is done with writes still pending. *)
must_wait == cementing = "force" \/ (running /\ awaiting = 0 /\ pending_writes > 0)
(* Defect: the writes left over are not flushed.                            *)
wait_when_forced ==
  /\ cementing = "force"
  /\ wait(confirmation_height)
  /\ cementing' = "wait"
  /\ UNCHANGED <<arrived, processor_vars, awaiting, pending_writes, piece, left, transaction, stopped>>
wait_to_cement ==
  /\ must_wait
  /\ wait(confirmation_height)
  /\ cementing' = "wait"
  /\ UNCHANGED <<arrived, processor_vars, awaiting, pending_writes, piece, left, transaction, stopped>>

stop_iterating ==
  /\ cementing = "iterate" /\ confirmation_height \in stopped
  /\ cementing' = "run"
  /\ UNCHANGED <<queue_vars, arrived, processor_vars, awaiting, pending_writes, piece, left,
                 transaction, stopped>>

height_exit ==
  /\ cementing = "run" /\ confirmation_height \in stopped
  /\ cementing' = "exit"
  /\ UNCHANGED <<queue_vars, arrived, processor_vars, awaiting, pending_writes, piece, left,
                 transaction, stopped>>

-----------------------------------------------------------------------------
(* cement_blocks.                                                           *)
cement_begin ==
  /\ cementing = "wait" /\ guard[confirmation_height] = "owned" /\ transaction = none
  /\ transaction' = confirmation_height
  /\ cementing' = "write"
  /\ UNCHANGED <<queue_vars, arrived, processor_vars, awaiting, pending_writes, piece, left, stopped>>

cement_pending ==
  /\ cementing = "write" /\ pending_writes > 0
  /\ pending_writes' = pending_writes - 1
  /\ piece' = 0
  /\ UNCHANGED <<queue_vars, arrived, processor_vars, awaiting, left, cementing, transaction, stopped>>

(* Defect: the guard is released and the transaction is not committed.      *)
cement_flush_uncommitted ==
  /\ cementing = "write" /\ pending_writes > 0
  /\ release(confirmation_height)
  /\ piece < Pieces - 1 /\ piece' = piece + 1 /\ cementing' = "flushed"
  /\ UNCHANGED <<arrived, processor_vars, awaiting, pending_writes, left, transaction, stopped>>
(* The batch is full after some blocks of a pending write: commit and let   *)
(* the others in; queue again unless this was the last block of the last    *)
(* write.                                                                   *)
cement_flush ==
  /\ cementing = "write" /\ pending_writes > 0
  /\ transaction' = none
  /\ release(confirmation_height)
  /\ \/ piece < Pieces - 1 /\ piece' = piece + 1 /\ cementing' = "flushed"
        /\ UNCHANGED pending_writes
     \/ pending_writes > 1 /\ pending_writes' = pending_writes - 1 /\ piece' = 0
        /\ cementing' = "flushed"
     \/ pending_writes = 1 /\ pending_writes' = 0 /\ piece' = 0 /\ cementing' = "notify"
  /\ UNCHANGED <<arrived, processor_vars, awaiting, left, stopped>>

cement_renew ==
  /\ \/ cementing = "flushed" /\ notify_all(confirmation_height) /\ cementing' = "renew"
     \/ cementing = "renew" /\ wait(confirmation_height) /\ cementing' = "wait"
  /\ UNCHANGED <<arrived, processor_vars, awaiting, pending_writes, piece, left, transaction, stopped>>

cement_end ==
  /\ cementing = "write" /\ pending_writes = 0
  /\ transaction' = none
  /\ cementing' = "release"
  /\ UNCHANGED <<queue_vars, arrived, processor_vars, awaiting, pending_writes, piece, left, stopped>>

cement_release ==
  /\ \/ cementing = "release" /\ release(confirmation_height) /\ cementing' = "notify"
     \/ /\ cementing = "notify" /\ notify_all(confirmation_height)
        /\ cementing' = IF left = 0 THEN "run" ELSE "iterate"
  /\ UNCHANGED <<arrived, processor_vars, awaiting, pending_writes, piece, left, transaction, stopped>>

-----------------------------------------------------------------------------
(* process_local asks the batch to end and takes the write transaction      *)
(* without joining the queue.                                               *)
wait_write ==
  /\ arrives("local", MaxLocal)
  /\ awaiting_write' = TRUE
  /\ callers' = callers + 1
  /\ UNCHANGED <<queue_vars, blocks, batch, processed, height_vars, transaction, stopped>>
(* Defect: the thread waits for a batch to take notice of it.               *)
process_local_noticed ==
  /\ \/ callers > 0 /\ ~awaiting_write /\ transaction = none
        /\ transaction' = local /\ callers' = callers - 1
     \/ transaction = local /\ transaction' = none /\ UNCHANGED callers
  /\ UNCHANGED <<queue_vars, arrived, blocks, batch, processed, awaiting_write, height_vars,
                 stopped>>
process_local ==
  /\ \/ callers > 0 /\ transaction = none /\ transaction' = local /\ callers' = callers - 1
     \/ transaction = local /\ transaction' = none /\ UNCHANGED callers
  /\ UNCHANGED <<queue_vars, arrived, blocks, batch, processed, awaiting_write, height_vars,
                 stopped>>

woken == (\E w \in Writer : wake(w))
         /\ UNCHANGED <<arrived, processor_vars, height_vars, transaction, stopped>>

(* Defect: the confirmation height processor is not notified.               *)
stop_silently ==
  /\ \/ stopped = {} /\ stopped' = {process_batch}
     \/ stopped = {process_batch} /\ batch = "exit" /\ stopped' = Writer
  /\ UNCHANGED <<queue_vars, arrived, processor_vars, height_vars, transaction>>
(* node::stop joins the block processor before it stops the other one.      *)
stop ==
  /\ \/ stopped = {} /\ stopped' = {process_batch} /\ UNCHANGED cementing
     \/ /\ stopped = {process_batch} /\ batch = "exit"
        /\ stopped' = Writer /\ cementing' = notified_thread
  /\ UNCHANGED <<queue_vars, arrived, processor_vars, awaiting, pending_writes, piece, left,
                 transaction>>

process_blocks == batch_wait \/ batch_begin \/ batch_process \/ batch_end \/ batch_release
                  \/ batch_exit
run == fall_asleep \/ set_next_hash \/ iterate \/ iterate_and_write \/ wait_to_cement \/ stop_iterating
       \/ height_exit \/ cement_begin \/ cement_pending \/ cement_flush \/ cement_renew
       \/ cement_end \/ cement_release

Next == add_block \/ add_hash \/ process_blocks \/ run \/ wait_write \/ process_local \/ woken
        \/ stop

(* The threads run: each takes its next step if it stays able to.  The node *)
(* need not be stopped, but stop goes on once it has begun.                 *)
Fairness ==
  /\ WF_vars(process_blocks) /\ WF_vars(run) /\ WF_vars(woken)
  /\ WF_vars(process_local)
  /\ WF_vars(stopped # {} /\ stop)

Spec == Init /\ [][Next]_vars /\ Fairness

-----------------------------------------------------------------------------
(* The ticket that a refused process leaves in the queue blocks the block   *)
(* processor, so somebody must come back for it: there are writes pending   *)
(* that the confirmation height processor will flush.                       *)
TicketsRedeemed ==
  contains(confirmation_height) /\ guard[confirmation_height] = "none" => pending_writes > 0

(* A writer of the queue is in a write transaction only with its guard, so  *)
(* that it never keeps the store locked while it waits for its turn.        *)
TransactionsGuarded ==
  transaction \in Writer => guard[transaction] = "owned"

(* Blocks that arrived are processed although every local block ends the    *)
(* batch, or the next one: an awaited write stops no more than one batch.   *)
BlocksProcessed == blocks > 0 ~> (blocks = 0 \/ process_batch \in stopped)

(* A local block gets the write transaction.                                *)
LocalWritten == callers > 0 ~> callers = 0

(* What the confirmation height processor gathered is written, or the node  *)
(* is stopping.                                                             *)
PendingWritten == pending_writes > 0 ~> (pending_writes = 0 \/ confirmation_height \in stopped)

(* A node that is told to stop gets through to its threads: the block       *)
(* processor ends and does not wait for a ticket of a thread that has gone, *)
(* and the other one ends whatever it was doing, asleep or in a write, with *)
(* one exception: stop came between its look at stopped and the wait, which *)
(* has no predicate, and found nobody to notify.                            *)
StopReaches == stopped # {} ~> (batch = "exit" /\ cementing \in {"exit", "overslept"})

=============================================================================
