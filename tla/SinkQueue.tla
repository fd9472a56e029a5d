----------------------------- MODULE SinkQueue -----------------------------
(***************************************************************************)
(* The queue between the threads that log and the worker of one SLS sink:  *)
(* SinkQueue, ActiveEnqueue and SlsSink::enqueue of sls/sink.rs.  Each     *)
(* record is one call of enqueue, and any number of calls are in progress  *)
(* at once; every atomic access of the code is a step of its own.  The     *)
(* worker pops, runs the recv loop on tokio's Notify, and at the end calls *)
(* close, which spins until the calls in progress have left.               *)
(***************************************************************************)
EXTENDS Naturals, Sequences, FiniteSets

CONSTANTS Record, Capacity, DropOldest

ASSUME SinkQueueAssumption ==
  /\ Capacity \in Nat \ {0}
  /\ DropOldest \in BOOLEAN

VARIABLES ring,         \* SinkQueue::ring
          closed,       \* SinkQueue::closed
          active,       \* SinkQueue::active_enqueues
          call,         \* control point of the enqueue call of each record
          queueFull,    \* DropCounters::queue_full
          workerClosed, \* DropCounters::worker_closed
          permit,       \* the permit Notify stores when nobody waits on it
          recv,         \* control point of the worker
          fate          \* history: what became of each record (ClosableQueue)

vars == <<ring, closed, active, call, queueFull, workerClosed, permit, recv, fate>>

(* The worker closes the queue only after its last recv, so that recv      *)
(* never finds closed set: "idle" is before the first pop of recv, or out  *)
(* of recv; "recheck" before its second pop; "poll" before the first poll  *)
(* of the notification; "asleep" waiting for it, "woken" chosen by it;     *)
(* "spin" inside close, "drain" after close has returned.                  *)
WorkerPoint == {"idle", "recheck", "poll", "asleep", "woken", "spin", "drain"}

CallPoint == {"new", "checked", "registered", "backout", "refused", "inside",
              "full", "evicted", "wake", "leave", "done"}

(* The calls close waits for: counted in active_enqueues.                  *)
Registered == {"registered", "backout", "inside", "full", "evicted", "wake", "leave"}

(* The calls that passed both closed checks and hold an ActiveEnqueue.     *)
Inside == {"inside", "full", "evicted", "wake", "leave"}

Phase == IF recv = "drain" THEN "closed" ELSE IF closed THEN "closing" ELSE "open"

Contract == INSTANCE ClosableQueue WITH phase <- Phase

TypeOK ==
  /\ ring \in Seq(Record)
  /\ closed \in BOOLEAN
  /\ active \in Nat
  /\ call \in [Record -> CallPoint]
  /\ queueFull \in Nat
  /\ workerClosed \in Nat
  /\ permit \in BOOLEAN
  /\ recv \in WorkerPoint
  /\ fate \in [Record -> Contract!QueueFate]

Init ==
  /\ ring = <<>>
  /\ closed = FALSE
  /\ active = 0
  /\ call = [r \in Record |-> "new"]
  /\ queueFull = 0
  /\ workerClosed = 0
  /\ permit = FALSE
  /\ recv = "idle"
  /\ fate = [r \in Record |-> "fresh"]

Goto(r, point) == call' = [call EXCEPT ![r] = point]

-----------------------------------------------------------------------------
(* SlsSink::enqueue, one action per shared access.                         *)

(* The fast path of ActiveEnqueue::enter.                                  *)
CheckClosed(r) ==
  /\ call[r] = "new"
  /\ Goto(r, IF closed THEN "refused" ELSE "checked")
  /\ fate' = IF closed THEN [fate EXCEPT ![r] = "worker_closed"] ELSE fate
  /\ UNCHANGED <<ring, closed, active, queueFull, workerClosed, permit, recv>>

Register(r) ==
  /\ call[r] = "checked"
  /\ active' = active + 1
  /\ Goto(r, "registered")
  /\ UNCHANGED <<ring, closed, queueFull, workerClosed, permit, recv, fate>>

(* Mutant of Recheck: closed is looked at once only.                       *)
RecheckSkipped(r) ==
  /\ call[r] = "registered"
  /\ Goto(r, "inside")
  /\ UNCHANGED <<ring, closed, active, queueFull, workerClosed, permit, recv, fate>>

(* The second look at closed, after the call has been counted.             *)
Recheck(r) ==
  /\ call[r] = "registered"
  /\ Goto(r, IF closed THEN "backout" ELSE "inside")
  /\ fate' = IF closed THEN [fate EXCEPT ![r] = "worker_closed"] ELSE fate
  /\ UNCHANGED <<ring, closed, active, queueFull, workerClosed, permit, recv>>

(* Mutant of Unregister: a call that backs out leaves its count behind.    *)
UnregisterLeaks(r) ==
  /\ call[r] \in {"backout", "leave"}
  /\ active' = IF call[r] = "backout" THEN active ELSE active - 1
  /\ Goto(r, IF call[r] = "backout" THEN "refused" ELSE "done")
  /\ UNCHANGED <<ring, closed, queueFull, workerClosed, permit, recv, fate>>

(* fetch_sub: of a call that backs out, or by Drop for ActiveEnqueue.      *)
Unregister(r) ==
  /\ call[r] \in {"backout", "leave"}
  /\ active' = active - 1
  /\ Goto(r, IF call[r] = "backout" THEN "refused" ELSE "done")
  /\ UNCHANGED <<ring, closed, queueFull, workerClosed, permit, recv, fate>>

CountRefused(r) ==
  /\ call[r] = "refused"
  /\ workerClosed' = workerClosed + 1
  /\ Goto(r, "done")
  /\ UNCHANGED <<ring, closed, active, queueFull, permit, recv, fate>>

(* push (DropNewest) or force_push (DropOldest).                           *)
PushFree(r) ==
  /\ call[r] = "inside"
  /\ Len(ring) < Capacity
  /\ ring' = Append(ring, r)
  /\ Goto(r, "wake")
  /\ fate' = [fate EXCEPT ![r] = "queued"]
  /\ UNCHANGED <<closed, active, queueFull, workerClosed, permit, recv>>

PushRejected(r) ==
  /\ ~DropOldest
  /\ call[r] = "inside"
  /\ Len(ring) = Capacity
  /\ Goto(r, "full")
  /\ fate' = [fate EXCEPT ![r] = "queue_full"]
  /\ UNCHANGED <<ring, closed, active, queueFull, workerClosed, permit, recv>>

PushEvicting(r) ==
  /\ DropOldest
  /\ call[r] = "inside"
  /\ Len(ring) = Capacity
  /\ ring' = Append(Tail(ring), r)
  /\ Goto(r, "evicted")
  /\ fate' = [fate EXCEPT ![r] = "queued", ![Head(ring)] = "queue_full"]
  /\ UNCHANGED <<closed, active, queueFull, workerClosed, permit, recv>>

(* inc_queue_full: a rejected call then returns without a notification.    *)
CountFull(r) ==
  /\ call[r] \in {"full", "evicted"}
  /\ queueFull' = queueFull + 1
  /\ Goto(r, IF call[r] = "full" THEN "leave" ELSE "wake")
  /\ UNCHANGED <<ring, closed, active, workerClosed, permit, recv, fate>>

(* Mutant of Wake: notify_waiters, which leaves no permit.                 *)
WakeWaiters(r) ==
  /\ call[r] = "wake"
  /\ Goto(r, "leave")
  /\ recv' = IF recv = "asleep" THEN "woken" ELSE recv
  /\ UNCHANGED <<ring, closed, active, queueFull, workerClosed, permit, fate>>

(* notify_one: chooses the waiter, or leaves a permit.                     *)
Wake(r) ==
  /\ call[r] = "wake"
  /\ Goto(r, "leave")
  /\ IF recv = "asleep"
     THEN recv' = "woken" /\ UNCHANGED permit
     ELSE permit' = TRUE /\ UNCHANGED recv
  /\ UNCHANGED <<ring, closed, active, queueFull, workerClosed, fate>>

CallStep(r) ==
  \/ Register(r) \/ Recheck(r) \/ Unregister(r) \/ CountRefused(r)
  \/ PushFree(r) \/ PushRejected(r) \/ PushEvicting(r) \/ CountFull(r) \/ Wake(r)

-----------------------------------------------------------------------------
(* The worker: recv, its cancellation by another branch of select!, close, *)
(* and the pops of the final drain.                                        *)

Pop ==
  /\ recv \in {"idle", "recheck", "drain"}
  /\ ring # <<>>
  /\ ring' = Tail(ring)
  /\ fate' = [fate EXCEPT ![Head(ring)] = "taken"]
  /\ recv' = IF recv = "drain" THEN "drain" ELSE "idle"
  /\ UNCHANGED <<closed, active, call, queueFull, workerClosed, permit>>

PopEmpty ==
  /\ recv \in {"idle", "recheck"}
  /\ ring = <<>>
  /\ recv' = IF recv = "idle" THEN "recheck" ELSE "poll"
  /\ UNCHANGED <<ring, closed, active, call, queueFull, workerClosed, permit, fate>>

(* The first poll of the notification takes a stored permit.               *)
PollNotified ==
  /\ recv = "poll"
  /\ recv' = IF permit THEN "idle" ELSE "asleep"
  /\ permit' = FALSE
  /\ UNCHANGED <<ring, closed, active, call, queueFull, workerClosed, fate>>

Resume ==
  /\ recv = "woken"
  /\ recv' = "idle"
  /\ UNCHANGED <<ring, closed, active, call, queueFull, workerClosed, permit, fate>>

(* select! completes another branch and drops recv; a notification that    *)
(* had chosen this waiter goes back to the Notify.                         *)
CancelRecv ==
  /\ recv \in {"asleep", "woken"}
  /\ recv' = "idle"
  /\ permit' = (permit \/ recv = "woken")
  /\ UNCHANGED <<ring, closed, active, call, queueFull, workerClosed, fate>>

CloseBegin ==
  /\ recv = "idle"
  /\ closed' = TRUE
  /\ recv' = "spin"
  /\ UNCHANGED <<ring, active, call, queueFull, workerClosed, permit, fate>>

(* Mutant of CloseReturn: close does not wait for the calls in progress.   *)
CloseReturnAtOnce ==
  /\ recv = "spin"
  /\ recv' = "drain"
  /\ UNCHANGED <<ring, closed, active, call, queueFull, workerClosed, permit, fate>>

(* The spin ends; notify_waiters finds no waiter, the worker is here.      *)
CloseReturn ==
  /\ recv = "spin"
  /\ active = 0
  /\ recv' = "drain"
  /\ UNCHANGED <<ring, closed, active, call, queueFull, workerClosed, permit, fate>>

RecvStep == Pop \/ PopEmpty \/ PollNotified \/ Resume \/ CloseReturn

(* Everything has been logged and drained: the system rests.               *)
Finished ==
  /\ recv = "drain"
  /\ ring = <<>>
  /\ \A r \in Record : call[r] = "done"
  /\ UNCHANGED vars

Next ==
  \/ \E r \in Record : CheckClosed(r) \/ CallStep(r)
  \/ RecvStep \/ CancelRecv \/ CloseBegin
  \/ Finished

Spec == Init /\ [][Next]_vars

(* A thread inside enqueue and the worker's thread keep running; nothing   *)
(* makes the application log, a timer fire or the guard shut down.         *)
Fairness ==
  /\ \A r \in Record : WF_vars(CallStep(r))
  /\ WF_vars(RecvStep)

FairSpec == Spec /\ Fairness

-----------------------------------------------------------------------------
Calls(points) == {r \in Record : call[r] \in points}

Fated(f) == {r \in Record : fate[r] = f}

(* close waits for every call that passed the closed checks: once it has   *)
(* returned no call is between its second check and its Drop, although     *)
(* neither side takes a lock (the Dekker argument of the comment on        *)
(* close).                                                                 *)
NobodyInsideAfterClose == recv = "drain" => Calls(Inside) = {}

(* After close has returned the ring only shrinks, so the worker's drain   *)
(* and its final ring.len() miss nothing.                                  *)
RingOnlyDrains ==
  [][recv = "drain" => \/ ring' = ring
                       \/ ring # <<>> /\ ring' = Tail(ring)]_vars

(* An increment of queue_full is made before Drop for ActiveEnqueue, hence *)
(* seen by whoever reads the counters once close has returned.             *)
FullCountSettled == recv = "drain" => queueFull = Cardinality(Fated("queue_full"))

(* No lost wake-up: the worker sleeps on a non-empty ring only while some  *)
(* call still has its notify_one to make.                                  *)
NoLostWakeup ==
  recv = "asleep" /\ ring # <<>> => Calls({"evicted", "wake"}) # {}

(* SinkQueue implements the atomic closable queue.                         *)
ImplementsContract == Contract!QueueSpec

(* close does not spin for ever.                                           *)
CloseTerminates == recv = "spin" ~> recv = "drain"

(* A queued record is taken or evicted: the worker does not sleep on it,   *)
(* with no timer and no further call to help.                              *)
QueuedIsServed == \A r \in Record : fate[r] = "queued" ~> fate[r] # "queued"
=============================================================================
