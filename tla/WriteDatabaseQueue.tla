------------------------- MODULE WriteDatabaseQueue -------------------------
(***************************************************************************)
(* write_database_queue and write_guard: writers take turns in the order   *)
(* they joined.  wait blocks until the writer is in front; process joins   *)
(* but does not block, so a refused writer leaves its ticket in the queue. *)
(* A guard pops the front of the queue when it ends, whoever is there.     *)
(*                                                                         *)
(* Every operation runs under the mutex, except that notify_all follows    *)
(* the pop after the mutex was released.  Each writer is one thread.       *)
(* Operators marked "Defect" are not used by the specification.            *)
(***************************************************************************)
EXTENDS Naturals, Sequences

CONSTANT Writer  \* enum class writer

VARIABLES
  queue,  \* tickets, the front first
  guard   \* where each writer is in its use of the queue

queue_vars == <<queue, guard>>

(* "none": no guard and not waiting; "asleep": in cv.wait; "woken": notified *)
(* and about to look at the front again; "owned": has a guard; "popped": the *)
(* guard has ended and notify_all is still to come.                          *)
Guard == {"none", "asleep", "woken", "owned", "popped"}

contains(w) == \E i \in 1 .. Len(queue) : queue[i] = w

(* Defect: a writer joins again although its ticket is there.                *)
rejoined(w) == Append(queue, w)
joined(w) == IF contains(w) THEN queue ELSE Append(queue, w)

QueueInit == queue = <<>> /\ guard = [w \in Writer |-> "none"]

wait(w) ==
  /\ guard[w] = "none"
  /\ queue' = joined(w)
  /\ guard' = [guard EXCEPT ![w] = IF Head(joined(w)) = w THEN "owned" ELSE "asleep"]

(* The loop in wait after a notification.                                    *)
wake(w) ==
  /\ guard[w] = "woken"
  /\ guard' = [guard EXCEPT ![w] = IF Head(queue) = w THEN "owned" ELSE "asleep"]
  /\ UNCHANGED queue

(* Defect: any ticket in the queue will do.                                  *)
process_joined(w) ==
  /\ guard[w] = "none"
  /\ queue' = joined(w)
  /\ guard' = [guard EXCEPT ![w] = "owned"]
(* process and, when it succeeds, the pop() that makes the guard.  The       *)
(* notification of a refused writer wakes the others for nothing.            *)
process(w) ==
  /\ guard[w] = "none"
  /\ queue' = joined(w)
  /\ IF Head(joined(w)) = w
     THEN guard' = [guard EXCEPT ![w] = "owned"]
     ELSE guard' = [v \in Writer |-> IF guard[v] = "asleep" THEN "woken" ELSE guard[v]]

(* Defect: the pop is not followed by a notification.                        *)
release_silently(w) ==
  /\ guard[w] = "owned"
  /\ queue' = Tail(queue)
  /\ guard' = [guard EXCEPT ![w] = "none"]
(* guard_finish_callback, from release or from the destructor of the guard.  *)
release(w) ==
  /\ guard[w] = "owned"
  /\ queue' = Tail(queue)
  /\ guard' = [guard EXCEPT ![w] = "popped"]

notify_all(w) ==
  /\ guard[w] = "popped"
  /\ guard' = [v \in Writer |->
                 IF v = w THEN "none" ELSE IF guard[v] = "asleep" THEN "woken" ELSE guard[v]]
  /\ UNCHANGED queue

QueueNext ==
  \E w \in Writer : wait(w) \/ wake(w) \/ process(w) \/ release(w) \/ notify_all(w)

QueueSpec == QueueInit /\ [][QueueNext]_queue_vars

-----------------------------------------------------------------------------
QueueTypeOK == queue \in Seq(Writer) /\ guard \in [Writer -> Guard]

(* Two writers never have a guard at once, also when a refused process left  *)
(* a ticket behind, and the one that has it is in front, so that the pop of  *)
(* its guard removes its own ticket and nobody else's.                       *)
GuardsExclusive ==
  \A w \in Writer : guard[w] = "owned" =>
    /\ queue # <<>> /\ queue[1] = w
    /\ \A v \in Writer : guard[v] = "owned" => v = w

(* A writer holds one ticket at most, and a waiting one holds one: wait and  *)
(* process find the ticket an earlier refused process left.                  *)
OneTicketEach ==
  /\ \A i, j \in 1 .. Len(queue) : queue[i] = queue[j] => i = j
  /\ \A w \in Writer : guard[w] \in {"asleep", "woken"} => contains(w)

(* No wakeup is lost between the pop and the notification: a writer sleeps   *)
(* at the front only while the writer that popped has yet to notify.         *)
NoLostWakeup ==
  \A w \in Writer : guard[w] = "asleep" /\ queue # <<>> /\ queue[1] = w =>
    \E v \in Writer : guard[v] = "popped"

=============================================================================
