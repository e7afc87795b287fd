----------------------------- MODULE NodeProofs -----------------------------
(***************************************************************************)
(* What the ledger's surroundings rely on: the promises of Lattice and of  *)
(* Cementer hold for every set of blocks and every relation of             *)
(* requirements and exclusions, and the write queue keeps its promises for *)
(* every set of writers, on its own and as the threads of a node use it;   *)
(* flush keeps its promise for every set of blocks and every batch size.   *)
(***************************************************************************)
EXTENDS Cementer, NodeWriters, BlockIntake, TLAPS

(* Enough time for a step on a busy machine.                                *)
USE ZenonT(60)

LatticeInv == LatticeTypeOK /\ Consistent

(* Every step keeps the blocks and the cemented ones consistent.            *)
LEMMA LatticeStep ==
  ASSUME LatticeAssumption
  PROVE  LatticeInv /\ [LatticeNext]_lattice_vars => LatticeInv'
<1> SUFFICES ASSUME LatticeInv, [LatticeNext]_lattice_vars PROVE LatticeInv'
  OBVIOUS
<1> USE DEF LatticeAssumption, LatticeInv, LatticeTypeOK, Consistent
<1>1. ASSUME NEW v \in Vertex, Add(v) PROVE LatticeInv'
  BY <1>1 DEF Add
<1>2. ASSUME NEW v \in Vertex, Remove(v) PROVE LatticeInv'
  BY SMTT(60), <1>2 DEF Remove
<1>3. ASSUME NEW S \in SUBSET (stored \ cemented), Cement(S) PROVE LatticeInv'
  BY <1>3 DEF Cement
<1>4. CASE UNCHANGED lattice_vars
  BY <1>4 DEF lattice_vars
<1> QED
  BY <1>1, <1>2, <1>3, <1>4 DEF LatticeNext

(* The set of blocks the ledger is said to hold is consistent in every      *)
(* reachable state: closed under dependencies, cemented or not, and without *)
(* forks or double receives.                                                *)
THEOREM LatticeConsistent ==
  ASSUME LatticeAssumption
  PROVE  LatticeSpec => []Consistent
<1>1. LatticeInit => LatticeInv
  BY DEF LatticeAssumption, LatticeInit, LatticeInv, LatticeTypeOK, Consistent
<1>2. LatticeInv => Consistent
  BY DEF LatticeInv
<1> QED
  BY <1>1, <1>2, LatticeStep, PTL DEF LatticeSpec

(* Cementing is final: no step takes a cemented block out.                  *)
THEOREM LatticeFinal ==
  ASSUME LatticeAssumption
  PROVE  LatticeSpec => Final
<1>1. LatticeInit => LatticeInv
  BY DEF LatticeAssumption, LatticeInit, LatticeInv, LatticeTypeOK, Consistent
<1>2. LatticeInv /\ LatticeInv' /\ [LatticeNext]_lattice_vars
        => [cemented \subseteq cemented' /\ cemented' \subseteq stored']_lattice_vars
  BY DEF LatticeInv, LatticeTypeOK, LatticeNext, Add, Remove, Cement, lattice_vars
<1> QED
  BY <1>1, <1>2, LatticeStep, PTL DEF LatticeSpec, Final

-----------------------------------------------------------------------------
(* Cementer adds to Lattice and changes nothing in it: every step of the    *)
(* confirmation height processor's contract is a step of the lattice.       *)
THEOREM CementerIsLattice == CementerSpec => LatticeSpec
<1>1. CementerInit => LatticeInit
  BY DEF CementerInit
<1>2. [CementerNext]_cementer_vars => [LatticeNext]_lattice_vars
  <2> SUFFICES ASSUME [CementerNext]_cementer_vars PROVE [LatticeNext]_lattice_vars
    OBVIOUS
  <2>1. ASSUME NEW v \in Vertex, Process(v) \/ Rollback(v) PROVE LatticeNext
    BY <2>1 DEF Process, Rollback, LatticeNext
  <2>2. ASSUME NEW v \in Vertex, Request(v) \/ Announce(v) \/ AlreadyCemented(v)
        PROVE  UNCHANGED lattice_vars
    BY <2>2 DEF Request, Announce, AlreadyCemented
  <2>3. ASSUME NEW S \in SUBSET (stored \ cemented), CementRequested(S) PROVE LatticeNext
    BY <2>3 DEF CementRequested, LatticeNext
  <2>4. CASE UNCHANGED cementer_vars
    BY <2>4 DEF cementer_vars
  <2> QED BY <2>1, <2>2, <2>3, <2>4 DEF CementerNext
<1> QED
  BY <1>1, <1>2, PTL DEF CementerSpec, LatticeSpec

-----------------------------------------------------------------------------
QueueInv == QueueTypeOK /\ GuardsExclusive /\ OneTicketEach /\ NoLostWakeup

(* What joining does to the queue: the writer has one ticket afterwards,    *)
(* and those that had one keep their place.                                 *)
LEMMA QueueJoined ==
  ASSUME QueueTypeOK, OneTicketEach, NEW w \in Writer, queue' = joined(w)
  PROVE  /\ queue' \in Seq(Writer) /\ queue' # <<>> /\ Len(queue) <= Len(queue')
         /\ Head(joined(w)) = queue'[1]
         /\ \A i \in 1 .. Len(queue) : queue'[i] = queue[i]
         /\ \A i, j \in 1 .. Len(queue') : queue'[i] = queue'[j] => i = j
         /\ \E i \in 1 .. Len(queue') : queue'[i] = w
         /\ queue = <<>> => queue'[1] = w
<1>1. queue \in Seq(Writer)
  BY DEF QueueTypeOK
<1>2. CASE contains(w)
  BY SMTT(60), <1>1, <1>2 DEF joined, contains, OneTicketEach
<1>3. CASE ~contains(w)
  <2>1. queue' = Append(queue, w) /\ Len(queue') = Len(queue) + 1
    BY SMTT(60), <1>1, <1>3 DEF joined
  <2>2. /\ \A i \in 1 .. Len(queue) : queue'[i] = queue[i] /\ queue[i] # w
        /\ queue'[Len(queue) + 1] = w
    BY SMTT(60), <1>1, <1>3, <2>1 DEF contains
  <2>3. \A i, j \in 1 .. Len(queue') : queue'[i] = queue'[j] => i = j
    BY SMTT(60), <1>1, <2>1, <2>2 DEF OneTicketEach
  <2>4. queue' \in Seq(Writer) /\ queue' # <<>> /\ Head(queue') = queue'[1]
    BY SMTT(60), <1>1, <2>1
  <2> QED BY SMTT(60), <1>1, <2>1, <2>2, <2>3, <2>4
<1> QED BY <1>2, <1>3

(* wait and process on success: the writer joins, and has the guard or      *)
(* sleeps.                                                                  *)
LEMMA WaitKeepsQueueInv == ASSUME QueueInv, NEW w \in Writer, wait(w) PROVE QueueInv'
<1> USE DEF QueueInv
<1>1. /\ queue' = joined(w) /\ guard[w] = "none"
      /\ guard' = [guard EXCEPT ![w] = IF queue'[1] = w THEN "owned" ELSE "asleep"]
  BY QueueJoined DEF wait
<1>2. /\ queue' \in Seq(Writer) /\ queue' # <<>> /\ Len(queue) <= Len(queue')
      /\ \A i \in 1 .. Len(queue) : queue'[i] = queue[i]
      /\ \A i, j \in 1 .. Len(queue') : queue'[i] = queue'[j] => i = j
      /\ \E i \in 1 .. Len(queue') : queue'[i] = w
      /\ queue = <<>> => queue'[1] = w
  BY <1>1, QueueJoined
<1>3. QueueTypeOK'
  BY <1>1, <1>2 DEF QueueTypeOK, Guard
<1>4. queue # <<>> => queue'[1] = queue[1]
  BY SMTT(60), <1>2 DEF QueueTypeOK
<1>5. GuardsExclusive'
  BY SMTT(60), <1>1, <1>2, <1>4 DEF QueueTypeOK, GuardsExclusive
<1>6. \A v \in Writer : contains(v) => contains(v)'
  BY SMTT(60), <1>2 DEF contains, QueueTypeOK
<1>7. OneTicketEach'
  <2>1. contains(w)'
    BY <1>2 DEF contains
  <2> QED BY <1>1, <1>2, <1>6, <2>1 DEF OneTicketEach, QueueTypeOK
<1>8. NoLostWakeup'
  BY <1>1, <1>2, <1>4 DEF NoLostWakeup, QueueTypeOK
<1> QED BY <1>3, <1>5, <1>7, <1>8

(* The loop in wait: the writer looks at the front again.                   *)
LEMMA WakeKeepsQueueInv == ASSUME QueueInv, NEW w \in Writer, wake(w) PROVE QueueInv'
<1> USE DEF QueueInv
<1>1. queue # <<>> /\ Head(queue) = queue[1]
  BY SMTT(60) DEF wake, OneTicketEach, contains, QueueTypeOK
<1>2. QueueTypeOK'
  BY DEF wake, QueueTypeOK, Guard
<1>3. GuardsExclusive'
  BY <1>1 DEF wake, GuardsExclusive, QueueTypeOK
<1>4. OneTicketEach'
  BY DEF wake, OneTicketEach, contains, QueueTypeOK
<1>5. NoLostWakeup'
  BY <1>1 DEF wake, NoLostWakeup, QueueTypeOK
<1> QED BY <1>2, <1>3, <1>4, <1>5

(* process: the writer joins; refused, it leaves its ticket and notifies.   *)
LEMMA ProcessKeepsQueueInv == ASSUME QueueInv, NEW w \in Writer, process(w) PROVE QueueInv'
<1> USE DEF QueueInv
<1>1. CASE Head(joined(w)) = w
  BY <1>1, WaitKeepsQueueInv DEF process, wait
<1>2. CASE Head(joined(w)) # w
  <2>1. /\ queue' = joined(w)
        /\ guard' = [v \in Writer |-> IF guard[v] = "asleep" THEN "woken" ELSE guard[v]]
    BY <1>2 DEF process
  <2>2. /\ queue' \in Seq(Writer) /\ Len(queue) <= Len(queue')
        /\ \A i \in 1 .. Len(queue) : queue'[i] = queue[i]
        /\ \A i, j \in 1 .. Len(queue') : queue'[i] = queue'[j] => i = j
    BY <2>1, QueueJoined
  <2>3. QueueTypeOK'
    BY <2>1, <2>2 DEF QueueTypeOK, Guard
  <2>4. GuardsExclusive'
    BY SMTT(60), <2>1, <2>2 DEF GuardsExclusive, QueueTypeOK, Guard
  <2>5. \A v \in Writer : contains(v) => contains(v)'
    BY SMTT(60), <2>2 DEF contains, QueueTypeOK
  <2>6. OneTicketEach'
    BY <2>1, <2>2, <2>5 DEF OneTicketEach, QueueTypeOK, Guard
  <2>7. NoLostWakeup'
    BY <2>1 DEF NoLostWakeup, QueueTypeOK, Guard
  <2> QED BY <2>3, <2>4, <2>6, <2>7
<1> QED BY <1>1, <1>2

(* The pop removes the ticket of the writer whose guard ends.               *)
LEMMA ReleaseKeepsQueueInv == ASSUME QueueInv, NEW w \in Writer, release(w) PROVE QueueInv'
<1> USE DEF QueueInv
<1>1. /\ queue # <<>> /\ queue[1] = w /\ queue' = Tail(queue)
      /\ guard' = [guard EXCEPT ![w] = "popped"]
      /\ \A v \in Writer : guard[v] = "owned" => v = w
  BY DEF release, GuardsExclusive
<1>2. /\ queue' \in Seq(Writer) /\ Len(queue') = Len(queue) - 1 /\ Len(queue) \in Nat
      /\ \A i \in 1 .. Len(queue') : queue'[i] = queue[i + 1]
  BY SMTT(60), <1>1 DEF QueueTypeOK
<1>3. QueueTypeOK'
  BY <1>1, <1>2 DEF QueueTypeOK, Guard
<1>4. GuardsExclusive'
  BY <1>1 DEF GuardsExclusive, QueueTypeOK
<1>5. \A v \in Writer : v # w /\ contains(v) => contains(v)'
  <2> SUFFICES ASSUME NEW v \in Writer, v # w, NEW i \in 1 .. Len(queue), queue[i] = v
               PROVE  contains(v)'
    BY DEF contains
  <2>1. i # 1 /\ i - 1 \in 1 .. Len(queue') /\ queue'[i - 1] = v
    BY SMTT(60), <1>1, <1>2
  <2> QED BY <2>1 DEF contains
<1>6. \A i, j \in 1 .. Len(queue') : queue'[i] = queue'[j] => i = j
  <2> SUFFICES ASSUME NEW i \in 1 .. Len(queue'), NEW j \in 1 .. Len(queue'),
                      queue'[i] = queue'[j]
               PROVE  i = j
    OBVIOUS
  <2>1. queue[i + 1] = queue[j + 1] /\ i + 1 \in 1 .. Len(queue) /\ j + 1 \in 1 .. Len(queue)
    BY SMTT(60), <1>2
  <2> QED BY SMTT(60), <2>1 DEF OneTicketEach
<1>7. OneTicketEach'
  BY <1>1, <1>5, <1>6 DEF OneTicketEach, QueueTypeOK
<1>8. NoLostWakeup'
  BY <1>1 DEF NoLostWakeup, QueueTypeOK
<1> QED BY <1>3, <1>4, <1>7, <1>8

(* The notification after the pop lets no writer sleep on at the front.     *)
LEMMA NotifyKeepsQueueInv == ASSUME QueueInv, NEW w \in Writer, notify_all(w) PROVE QueueInv'
<1> USE DEF QueueInv
<1>1. QueueTypeOK'
  BY DEF notify_all, QueueTypeOK, Guard
<1>2. GuardsExclusive'
  BY DEF notify_all, GuardsExclusive, QueueTypeOK, Guard
<1>3. OneTicketEach'
  BY DEF notify_all, OneTicketEach, contains, QueueTypeOK, Guard
<1>4. NoLostWakeup'
  BY DEF notify_all, NoLostWakeup, QueueTypeOK, Guard
<1> QED BY <1>1, <1>2, <1>3, <1>4

(* The queue starts empty and without guards.                               *)
LEMMA QueueInit_QueueInv == QueueInit => QueueInv
BY SMTT(60) DEF QueueInit, QueueInv, QueueTypeOK, GuardsExclusive, OneTicketEach, NoLostWakeup,
       contains, Guard

(* Every operation of the queue keeps its invariant.                        *)
LEMMA QueueStep == QueueInv /\ [QueueNext]_queue_vars => QueueInv'
<1> SUFFICES ASSUME QueueInv, [QueueNext]_queue_vars PROVE QueueInv'
  OBVIOUS
<1>1. CASE QueueNext
  BY <1>1, WaitKeepsQueueInv, WakeKeepsQueueInv, ProcessKeepsQueueInv, ReleaseKeepsQueueInv,
     NotifyKeepsQueueInv DEF QueueNext
<1>2. CASE UNCHANGED queue_vars
  BY <1>2 DEF queue_vars, QueueInv, QueueTypeOK, GuardsExclusive, OneTicketEach,
              NoLostWakeup, contains
<1> QED BY <1>1, <1>2

(* Every step of a node is a step of the write queue, or leaves it alone.   *)
LEMMA NextIsQueueStep == ASSUME [Next]_vars PROVE [QueueNext]_queue_vars
<1> USE DEF QueueNext
<1>0. process_batch \in Writer /\ confirmation_height \in Writer
  BY WritersAssumption
<1>1. CASE process_blocks
  BY <1>0, <1>1 DEF process_blocks, batch_wait, batch_begin, batch_process, batch_end,
                    batch_release, batch_exit
<1>2. CASE run
  <2>1. CASE fall_asleep \/ set_next_hash \/ stop_iterating \/ height_exit
    BY <2>1 DEF fall_asleep, set_next_hash, stop_iterating, height_exit
  <2>2. CASE iterate \/ iterate_and_write \/ wait_to_cement
    BY <1>0, <2>2 DEF iterate, iterate_and_write, wait_to_cement
  <2>3. CASE cement_begin \/ cement_pending \/ cement_end
    BY <2>3 DEF cement_begin, cement_pending, cement_end
  <2>4. CASE cement_flush \/ cement_renew \/ cement_release
    BY <1>0, <2>4 DEF cement_flush, cement_renew, cement_release
  <2> QED BY <1>2, <2>1, <2>2, <2>3, <2>4 DEF run
<1>3. CASE add_block \/ add_hash \/ wait_write \/ process_local \/ stop
  BY <1>3 DEF add_block, add_hash, wait_write, process_local, stop
<1>4. CASE woken
  BY <1>4 DEF woken
<1>5. CASE UNCHANGED vars
  BY <1>5 DEF vars, queue_vars
<1> QED BY <1>1, <1>2, <1>3, <1>4, <1>5 DEF Next

(* The queue alone, for every set of writers that use it in any order: one  *)
(* guard at a time, one ticket each, no lost wakeup.                        *)
THEOREM QueueCorrect == QueueSpec => [](GuardsExclusive /\ OneTicketEach /\ NoLostWakeup)
<1>1. QueueInv => GuardsExclusive /\ OneTicketEach /\ NoLostWakeup
  BY DEF QueueInv
<1> QED BY <1>1, QueueInit_QueueInv, QueueStep, PTL DEF QueueSpec

-----------------------------------------------------------------------------
(* Where the two threads are says which guard and transaction they have.    *)
ControlMatches ==
  /\ \/ batch \in {"idle", "exit"} /\ guard[process_batch] = "none"
     \/ batch = "wait" /\ guard[process_batch] \in {"asleep", "woken", "owned"}
     \/ batch \in {"write", "release"} /\ guard[process_batch] = "owned"
     \/ batch = "notify" /\ guard[process_batch] = "popped"
  /\ \/ /\ cementing \in {"run", "unlocked", "asleep", "overslept", "iterate", "force", "renew",
                          "exit"}
        /\ guard[confirmation_height] = "none"
     \/ cementing = "wait" /\ guard[confirmation_height] \in {"asleep", "woken", "owned"}
     \/ cementing \in {"write", "release"} /\ guard[confirmation_height] = "owned"
     \/ cementing \in {"flushed", "notify"} /\ guard[confirmation_height] = "popped"
  /\ transaction = process_batch <=> batch = "write"
  /\ transaction = confirmation_height <=> cementing = "write"

(* TicketsRedeemed from the moment the guard ends.                          *)
TicketsOwed ==
  /\ pending_writes \in Nat
  /\ contains(confirmation_height) /\ guard[confirmation_height] \in {"none", "popped"} =>
       pending_writes > 0

WritersInv == QueueInv /\ ControlMatches /\ TicketsOwed

(* A notification, for a writer that is not the one that notifies.          *)
notified(v) == guard'[v] = guard[v] \/ (guard[v] = "asleep" /\ guard'[v] = "woken")

(* What each operation of the queue does to the guards and tickets.         *)
LEMMA QueueEffects ==
  ASSUME QueueInv, NEW w \in Writer
  PROVE  /\ wait(w) => /\ guard[w] = "none" /\ guard'[w] \in {"asleep", "owned"}
                       /\ \A v \in Writer \ {w} : guard'[v] = guard[v]
                       /\ \A v \in Writer \ {w} : contains(v)' => contains(v)
         /\ process(w) => /\ guard[w] = "none" /\ guard'[w] \in {"none", "owned"}
                          /\ \A v \in Writer \ {w} : notified(v)
                          /\ \A v \in Writer \ {w} : contains(v)' => contains(v)
         /\ release(w) => /\ guard[w] = "owned" /\ guard'[w] = "popped" /\ ~contains(w)'
                          /\ \A v \in Writer \ {w} : guard'[v] = guard[v]
                          /\ \A v \in Writer : contains(v)' => contains(v)
         /\ notify_all(w) => /\ guard[w] = "popped" /\ guard'[w] = "none"
                             /\ \A v \in Writer \ {w} : notified(v)
                             /\ \A v \in Writer : contains(v)' = contains(v)
         /\ wake(w) => /\ guard[w] = "woken" /\ guard'[w] \in {"asleep", "owned"}
                       /\ \A v \in Writer \ {w} : guard'[v] = guard[v]
                       /\ \A v \in Writer : contains(v)' = contains(v)
<1> USE DEF QueueInv
<1>1. ASSUME queue' = joined(w) PROVE \A v \in Writer \ {w} : contains(v)' => contains(v)
  <2>1. queue' = queue \/ queue' = Append(queue, w)
    BY <1>1 DEF joined
  <2> QED BY SMTT(60), <2>1 DEF QueueTypeOK, contains
<1>2. ASSUME release(w)
      PROVE  ~contains(w)' /\ \A v \in Writer : contains(v)' => contains(v)
  <2>1. queue # <<>> /\ queue[1] = w /\ queue' = Tail(queue)
    BY <1>2 DEF release, GuardsExclusive
  <2>2. /\ Len(queue) \in Nat /\ Len(queue') = Len(queue) - 1
        /\ \A i \in 1 .. Len(queue') : queue'[i] = queue[i + 1]
    BY SMTT(60), <2>1 DEF QueueTypeOK
  <2>3. \A i \in 1 .. Len(queue') : i + 1 \in 1 .. Len(queue) /\ queue[i + 1] # w
    BY SMTT(60), <2>1, <2>2 DEF OneTicketEach
  <2> QED BY <2>2, <2>3 DEF contains
<1>3. /\ guard \in [Writer -> Guard]
      /\ \A v \in Writer : notify_all(w) \/ wake(w) => contains(v)' = contains(v)
  BY DEF QueueTypeOK, notify_all, wake, contains
<1>4. wait(w) => /\ guard[w] = "none" /\ guard'[w] \in {"asleep", "owned"}
                 /\ \A v \in Writer \ {w} : guard'[v] = guard[v]
  BY <1>3 DEF wait
<1>5. process(w) => /\ guard[w] = "none" /\ guard'[w] \in {"none", "owned"}
                    /\ \A v \in Writer \ {w} : notified(v)
  BY <1>3 DEF process, notified
<1>6. release(w) => /\ guard[w] = "owned" /\ guard'[w] = "popped"
                    /\ \A v \in Writer \ {w} : guard'[v] = guard[v]
  BY <1>3 DEF release
<1>7. notify_all(w) => /\ guard[w] = "popped" /\ guard'[w] = "none"
                       /\ \A v \in Writer \ {w} : notified(v)
  BY <1>3 DEF notify_all, notified
<1>8. wake(w) => /\ guard[w] = "woken" /\ guard'[w] \in {"asleep", "owned"}
                 /\ \A v \in Writer \ {w} : guard'[v] = guard[v]
  BY <1>3 DEF wake
<1>9. (wait(w) => queue' = joined(w)) /\ (process(w) => queue' = joined(w))
  BY DEF wait, process
<1> QED BY <1>1, <1>2, <1>3, <1>4, <1>5, <1>6, <1>7, <1>8, <1>9

(* Before the threads start.                                                *)
LEMMA WritersInit == Init => WritersInv
<1> SUFFICES ASSUME Init PROVE WritersInv
  OBVIOUS
<1>1. QueueInv
  BY QueueInit_QueueInv DEF Init
<1>2. ControlMatches
  BY WritersAssumption DEF Init, QueueInit, ControlMatches
<1>3. TicketsOwed
  BY SMTT(60) DEF Init, QueueInit, TicketsOwed, contains
<1> QED BY <1>1, <1>2, <1>3 DEF WritersInv

(* A step of the block processor.                                           *)
LEMMA BatchKeepsWritersInv == ASSUME WritersInv, process_blocks PROVE WritersInv'
<1> USE DEF WritersInv
<1>0. /\ process_batch \in Writer /\ confirmation_height \in Writer
      /\ process_batch # confirmation_height /\ none \notin Writer
      /\ QueueInv /\ guard \in [Writer -> Guard]
  BY WritersAssumption DEF QueueInv, QueueTypeOK
<1>1. QueueInv'
  BY NextIsQueueStep, QueueStep DEF Next
<1>2. CASE batch_begin \/ batch_process \/ batch_end \/ batch_exit
  <2>1. ControlMatches'
    BY <1>0, <1>2 DEF batch_begin, batch_process, batch_end, batch_exit, ControlMatches,
                      height_vars, queue_vars
  <2>2. TicketsOwed'
    BY <1>2 DEF batch_begin, batch_process, batch_end, batch_exit, TicketsOwed, contains,
                height_vars, queue_vars
  <2> QED BY <1>1, <2>1, <2>2
<1>3. CASE batch_wait
  <2>1. ControlMatches'
    BY <1>0, <1>3, QueueEffects DEF batch_wait, ControlMatches, height_vars
  <2>2. TicketsOwed'
    BY <1>0, <1>3, QueueEffects DEF batch_wait, TicketsOwed, height_vars
  <2> QED BY <1>1, <2>1, <2>2
<1>4. CASE batch_release
  <2>1. ASSUME batch = "release", release(process_batch) PROVE ControlMatches'
    BY <1>0, <1>4, <2>1, QueueEffects DEF batch_release, ControlMatches, height_vars
  <2>2. ASSUME batch = "notify", notify_all(process_batch) PROVE ControlMatches'
    BY <1>0, <1>4, <2>2, QueueEffects DEF batch_release, ControlMatches, height_vars, notified
  <2>3. TicketsOwed'
    BY <1>0, <1>4, QueueEffects DEF batch_release, TicketsOwed, height_vars, notified
  <2> QED BY <1>1, <1>4, <2>1, <2>2, <2>3 DEF batch_release
<1> QED BY <1>2, <1>3, <1>4 DEF process_blocks

(* A step of the confirmation height processor.                             *)
LEMMA HeightKeepsWritersInv == ASSUME WritersInv, run PROVE WritersInv'
<1> USE DEF WritersInv
<1>0. /\ process_batch \in Writer /\ confirmation_height \in Writer
      /\ process_batch # confirmation_height /\ none \notin Writer
      /\ QueueInv /\ guard \in [Writer -> Guard]
  BY WritersAssumption DEF QueueInv, QueueTypeOK
<1>1. QueueInv'
  BY NextIsQueueStep, QueueStep DEF Next
<1>2. CASE fall_asleep \/ set_next_hash \/ stop_iterating \/ height_exit
  BY <1>0, <1>1, <1>2
     DEF fall_asleep, set_next_hash, running, stop_iterating, height_exit, ControlMatches, TicketsOwed,
         contains, processor_vars, queue_vars
<1>3. CASE iterate
  <2>1. /\ cementing = "iterate" /\ cementing' \in {"run", "iterate"}
        /\ \E a \in {0, 1} : pending_writes' = pending_writes + a
        /\ UNCHANGED <<queue, guard, batch, transaction>>
    BY <1>3 DEF iterate, iterated, after_iteration, processor_vars, queue_vars
  <2>2. ControlMatches'
    BY <1>0, <2>1 DEF ControlMatches
  <2> QED BY SMTT(60), <1>0, <1>1, <2>1, <2>2 DEF TicketsOwed, contains
<1>4. CASE iterate_and_write
  <2>1. /\ cementing = "iterate" /\ process(confirmation_height) /\ pending_writes' > 0
        /\ \E a \in {0, 1} : pending_writes' = pending_writes + a
        /\ cementing' \in IF guard'[confirmation_height] = "owned" THEN {"wait"}
                          ELSE {"force", "run", "iterate"}
        /\ UNCHANGED <<batch, transaction>>
    BY <1>4 DEF iterate_and_write, iterated, after_iteration, processor_vars
  <2>2. ControlMatches'
    BY <1>0, <2>1, QueueEffects DEF ControlMatches, notified
  <2> QED BY SMTT(60), <1>1, <2>1, <2>2 DEF TicketsOwed
<1>5. CASE wait_to_cement
  <2>1. ControlMatches'
    BY <1>0, <1>5, QueueEffects
       DEF wait_to_cement, must_wait, running, ControlMatches, processor_vars
  <2> QED BY <1>0, <1>1, <1>5, <2>1, QueueEffects DEF wait_to_cement, TicketsOwed
<1>6. CASE cement_begin \/ cement_pending \/ cement_end
  <2>1. ControlMatches'
    BY SMTT(60), <1>0, <1>6 DEF cement_begin, cement_pending, cement_end, ControlMatches,
                      processor_vars, queue_vars
  <2>2. /\ guard[confirmation_height] = "owned" /\ UNCHANGED <<queue, guard>>
        /\ pending_writes' \in Nat
    BY SMTT(60), <1>6 DEF cement_begin, cement_pending, cement_end, ControlMatches, TicketsOwed,
                queue_vars
  <2> QED BY <1>1, <2>1, <2>2 DEF TicketsOwed
<1>7. CASE cement_flush
  <2>1. /\ cementing = "write" /\ release(confirmation_height) /\ transaction' = none
        /\ cementing' \in {"flushed", "notify"} /\ UNCHANGED batch
        /\ pending_writes' \in Nat
    BY SMTT(60), <1>7 DEF cement_flush, TicketsOwed, processor_vars
  <2>2. ControlMatches'
    BY <1>0, <2>1, QueueEffects DEF ControlMatches
  <2> QED BY <1>0, <1>1, <2>1, <2>2, QueueEffects DEF TicketsOwed
<1>8. CASE cement_renew
  <2>1. ASSUME cementing = "flushed", notify_all(confirmation_height) PROVE WritersInv'
    BY <1>0, <1>1, <1>8, <2>1, QueueEffects
       DEF cement_renew, ControlMatches, TicketsOwed, processor_vars, notified
  <2>2. ASSUME cementing = "renew", wait(confirmation_height) PROVE WritersInv'
    BY <1>0, <1>1, <1>8, <2>2, QueueEffects
       DEF cement_renew, ControlMatches, TicketsOwed, processor_vars
  <2> QED BY <1>8, <2>1, <2>2 DEF cement_renew
<1>9. CASE cement_release
  <2>1. ASSUME cementing = "release", release(confirmation_height) PROVE WritersInv'
    BY <1>0, <1>1, <1>9, <2>1, QueueEffects
       DEF cement_release, ControlMatches, TicketsOwed, processor_vars
  <2>2. ASSUME cementing = "notify", notify_all(confirmation_height) PROVE WritersInv'
    BY <1>0, <1>1, <1>9, <2>2, QueueEffects
       DEF cement_release, ControlMatches, TicketsOwed, processor_vars, notified
  <2> QED BY <1>9, <2>1, <2>2 DEF cement_release
<1> QED BY <1>2, <1>3, <1>4, <1>5, <1>6, <1>7, <1>8, <1>9 DEF run

(* Every step of the node keeps the invariant of its writers.               *)
LEMMA WritersStep == WritersInv /\ [Next]_vars => WritersInv'
<1> SUFFICES ASSUME WritersInv, [Next]_vars PROVE WritersInv'
  OBVIOUS
<1> USE DEF WritersInv
<1>0. /\ process_batch \in Writer /\ confirmation_height \in Writer
      /\ process_batch # confirmation_height
      /\ local \notin Writer /\ none \notin Writer
      /\ Writer = {process_batch, confirmation_height}
  BY WritersAssumption
<1>1. QueueInv'
  BY NextIsQueueStep, QueueStep
<1>2. CASE add_block \/ add_hash \/ wait_write \/ stop \/ UNCHANGED vars
  <2>1. CASE add_block \/ add_hash
    <3>1. /\ queue' = queue /\ guard' = guard /\ batch' = batch /\ transaction' = transaction
          /\ pending_writes' = pending_writes
          /\ cementing' = cementing \/ (cementing \in {"asleep", "overslept"} /\ cementing' = "run")
      <4>1. CASE add_block
        BY <4>1 DEF add_block, height_vars, queue_vars
      <4>2. CASE add_hash
        BY <4>2 DEF add_hash, notified_thread, processor_vars, queue_vars
      <4> QED BY <2>1, <4>1, <4>2
    <3> QED BY <1>1, <3>1 DEF ControlMatches, TicketsOwed, contains
  <2>2. CASE wait_write \/ stop \/ UNCHANGED vars
    BY <1>1, <2>2 DEF wait_write, stop, notified_thread, vars, ControlMatches, TicketsOwed,
                      contains, processor_vars, height_vars, queue_vars
  <2> QED BY <1>2, <2>1, <2>2
<1>3. CASE process_local
  <2>1. /\ transaction \notin Writer /\ transaction' \notin Writer
        /\ UNCHANGED <<queue, guard, batch, cementing, pending_writes>>
    BY <1>0, <1>3 DEF process_local, height_vars, queue_vars
  <2> QED BY <1>0, <1>1, <2>1 DEF ControlMatches, TicketsOwed, contains
<1>4. CASE woken
  <2>1. PICK w \in Writer : wake(w)
    BY <1>4 DEF woken
  <2>2. ControlMatches'
    BY <1>0, <1>4, <2>1, QueueEffects DEF woken, ControlMatches, processor_vars, height_vars
  <2> QED BY <1>0, <1>1, <1>4, <2>1, <2>2, QueueEffects DEF woken, TicketsOwed, height_vars
<1> QED BY <1>2, <1>3, <1>4, BatchKeepsWritersInv, HeightKeepsWritersInv DEF Next

(* In a node the guards exclude each other, and a writer of the queue is in *)
(* a write transaction only with its guard, however many blocks, hashes and *)
(* local blocks arrive and whatever the batch sizes are.                    *)
THEOREM NodeTransactionsGuarded == Spec => [](GuardsExclusive /\ TransactionsGuarded)
<1>1. WritersInv => GuardsExclusive /\ TransactionsGuarded
  BY WritersAssumption DEF WritersInv, QueueInv, ControlMatches, TransactionsGuarded
<1> QED BY <1>1, WritersInit, WritersStep, PTL DEF Spec

(* Nor is a wakeup lost between the two writers of a node: the one in front *)
(* sleeps only while the other has popped its ticket and is yet to notify,  *)
(* also when process was refused or the node is stopping.                   *)
THEOREM NodeWakeupsKept == Spec => []NoLostWakeup
<1>1. WritersInv => NoLostWakeup
  BY DEF WritersInv, QueueInv
<1> QED BY <1>1, WritersInit, WritersStep, PTL DEF Spec

(* The ticket a refused write left always has pending writes behind it,     *)
(* which bring the confirmation height processor back to the queue.         *)
THEOREM NodeTicketsRedeemed == Spec => []TicketsRedeemed
<1>1. WritersInv => TicketsRedeemed
  BY DEF WritersInv, TicketsOwed, TicketsRedeemed
<1> QED BY <1>1, WritersInit, WritersStep, PTL DEF Spec

-----------------------------------------------------------------------------
(* Every block that has arrived and is not handled is in one of four places. *)
BlocksAccounted ==
  /\ owed \subseteq added
  /\ added \ handled \subseteq state_blocks \cup items \cup queued \cup in_hand

(* What a thread has in its hands shows in the flag flush reads.            *)
FlagsTell ==
  /\ in_hand # {} => processing = "batch"
  /\ processing = "batch" => active
  /\ items # {} => verifying = "verify"
  /\ verifying \in {"verify", "notify", "verified"} => v_active

(* What flush has learnt so far stays true while it holds the mutex: only   *)
(* what is being verified can still be owed once it has looked at the two   *)
(* queues and at active.                                                    *)
FlushProgress ==
  /\ flush \in {"size", "is_active", "wait"} => mutex
  /\ flush = "size" => queued = {}
  /\ flush = "is_active" => owed \ handled \subseteq items

IntakeInv == BlocksAccounted /\ FlagsTell /\ FlushProgress /\ FlushComplete

(* A batch of items is taken from the queue.                                *)
LEMMA ItemsTaken ==
  ASSUME setup_items
  PROVE  state_blocks \subseteq state_blocks' \cup items' /\ state_blocks' \subseteq state_blocks
  BY DEF setup_items

(* The adding thread keeps the invariant: what it adds is not owed.         *)
LEMMA AddKeeps ==
  ASSUME IntakeInv, (\E b \in Block : add(b)) \/ add_notify
  PROVE  IntakeInv'
<1> USE DEF IntakeInv, BlocksAccounted, FlagsTell, FlushProgress, FlushComplete
<1>1. ASSUME NEW b \in Block, add(b) PROVE IntakeInv'
  BY <1>1 DEF add, flush_vars, stop_vars
<1>2. CASE add_notify
  BY <1>2 DEF add_notify, condition_notify_all, awake, stop_vars
<1> QED BY <1>1, <1>2

(* The processing thread keeps it: it takes no block while flush has the    *)
(* mutex.                                                                   *)
LEMMA ProcessingKeeps == ASSUME IntakeInv, Processing PROVE IntakeInv'
<1> USE DEF IntakeInv, BlocksAccounted, FlagsTell, FlushProgress, FlushComplete
<1>1. CASE processing_loop
  BY <1>1 DEF processing_loop, awake, v_vars, stop_vars
<1>2. CASE take_and_process
  <2>1. CASE /\ in_hand = {} /\ ~mutex
             /\ \E b \in queued : in_hand' = {b} /\ queued' = queued \ {b}
    BY <1>2, <2>1 DEF take_and_process, v_vars, flush_vars, stop_vars
  <2>2. CASE in_hand # {}
    BY <1>2, <2>2 DEF take_and_process, v_vars, flush_vars, stop_vars
  <2>3. CASE in_hand = {} /\ queued = {} /\ ~mutex
    BY <1>2, <2>3 DEF take_and_process, v_vars, flush_vars, stop_vars
  <2> QED BY <1>2, <2>1, <2>2, <2>3 DEF take_and_process
<1> QED BY <1>1, <1>2 DEF Processing

(* The verification thread keeps it: what it takes it has in its hands with *)
(* v_active set, and it passes nothing on while flush has the mutex.        *)
LEMMA VerifyingKeeps == ASSUME IntakeInv, Verifying PROVE IntakeInv'
<1> USE DEF IntakeInv, BlocksAccounted, FlagsTell, FlushProgress, FlushComplete
<1>1. CASE verification_loop
  BY <1>1, ItemsTaken DEF verification_loop, bp_vars, flush_vars, stop_vars
<1>2. CASE process_verified_state_blocks
  BY <1>2 DEF process_verified_state_blocks, flush_vars, stop_vars
<1>3. CASE verified_notify
  BY <1>3 DEF verified_notify, condition_notify_all, awake, stop_vars
<1>4. CASE verify_more
  BY <1>4, ItemsTaken DEF verify_more, bp_vars, flush_vars, stop_vars
<1>5. CASE transition_inactive_callback
  BY <1>5 DEF transition_inactive_callback, condition_notify_all, awake, stop_vars
<1> QED BY <1>1, <1>2, <1>3, <1>4, <1>5 DEF Verifying

(* flush itself: each look at a queue or a flag narrows down where an owed  *)
(* block can be, until there is no place left.                              *)
LEMMA FlushKeeps == ASSUME IntakeInv, flush_start \/ flush_check PROVE IntakeInv'
<1> USE DEF IntakeInv, BlocksAccounted, FlagsTell, FlushProgress, FlushComplete
<1>1. CASE flush_start
  BY <1>1 DEF flush_start, bp_vars, v_vars, stop_vars
<1>2. CASE flush_check
  <2> USE DEF flush_return, flush_wait, flush_holding, bp_vars, v_vars, stop_vars
  <2>1. CASE flush \in {"lock", "woken"}
    BY <1>2, <2>1 DEF flush_check
  <2>2. CASE flush = "size"
    BY <1>2, <2>2 DEF flush_check
  <2>3. CASE flush \in {"is_active", "wait"}
    BY <1>2, <2>3 DEF flush_check
  <2> QED BY <1>2, <2>1, <2>2, <2>3 DEF flush_check
<1> QED BY <1>1, <1>2

(* Every step keeps the invariant.                                          *)
LEMMA IntakeStep == IntakeInv /\ [IntakeNext]_intake_vars => IntakeInv'
<1> SUFFICES ASSUME IntakeInv, [IntakeNext]_intake_vars PROVE IntakeInv'
  OBVIOUS
<1>1. CASE stop_both
  BY <1>1 DEF stop_both, condition_notify_all, awake, IntakeInv, BlocksAccounted, FlagsTell,
              FlushProgress, FlushComplete
<1>2. CASE UNCHANGED intake_vars
  BY <1>2 DEF intake_vars, bp_vars, v_vars, flush_vars, stop_vars, IntakeInv, BlocksAccounted,
              FlagsTell, FlushProgress, FlushComplete
<1> QED BY <1>1, <1>2, AddKeeps, ProcessingKeeps, VerifyingKeeps, FlushKeeps DEF IntakeNext

(* Whatever arrives, in whatever batches it is verified, and wherever its   *)
(* threads are interrupted: when flush returns and the node is not          *)
(* stopping, every block that had arrived when it was called is handled.    *)
THEOREM FlushAlwaysComplete == IntakeSpec => []FlushComplete
<1>1. IntakeInit => IntakeInv
  BY DEF IntakeInit, IntakeInv, BlocksAccounted, FlagsTell, FlushProgress, FlushComplete
<1>2. IntakeInv => FlushComplete
  BY DEF IntakeInv
<1> QED BY <1>1, <1>2, IntakeStep, PTL DEF IntakeSpec

=============================================================================
