------------------------------ MODULE SlsSink ------------------------------
(***************************************************************************)
(* One SLS delivery pipeline (sls/sink.rs): the worker thread that batches *)
(* records (run_pipeline), the permits and send tasks with their retries   *)
(* (spawn_flush, send_with_retry), and the shutdown under a deadline.  The *)
(* queue is the contract ClosableQueue, which SinkQueue implements.        *)
(*                                                                         *)
(* The worker's runtime has one thread: an action is what the worker or a  *)
(* send task runs between two awaits.  Instants are not modelled; whether  *)
(* a deadline has passed is a flag that a step of its own raises.          *)
(***************************************************************************)
EXTENDS ClosableQueue, SequencesExt

CONSTANTS Slot,        \* the permits of the semaphore: max_inflight of them
          MaxBatch,    \* max_batch_size
          MaxBytes,    \* max_batch_bytes
          Overhead,    \* LOG_GROUP_PROTO_OVERHEAD_BYTES
          Sizes,       \* the values record_byte_size may take
          MaxRetries   \* max_retries

ASSUME SinkAssumption ==
  /\ Record \subseteq Nat
  /\ MaxBatch \in Nat \ {0}
  /\ MaxBytes \in Nat \ {0}
  /\ Overhead \in Nat
  /\ Sizes \subseteq Nat /\ Sizes # {}
  /\ MaxRetries \in Nat

VARIABLES size,        \* record_byte_size of each record, chosen when it is logged
          worker,      \* where run_sink and run_pipeline stand
          batch,       \* Batch::records
          batchBytes,  \* Batch::bytes
          hand,        \* the record popped but not yet pushed (deferred_record)
          task,        \* the send task that holds each permit
          pending,     \* Pipeline::pending_records
          dropped,     \* DropCounters
          shutdown,    \* the watch channel of the guard
          late,        \* the worker's shutdown deadline has passed
          outcome      \* history: how each accepted record ended

pipeVars == <<size, worker, batch, batchBytes, hand, task, pending, dropped,
              shutdown, late, outcome>>
vars == <<queueVars, pipeVars>>

Causes == {"queue_full", "worker_closed", "send_failed", "shutdown_dropped"}

Outcomes == {"none", "acked", "send_failed", "shutdown_dropped", "worker_closed"}

WorkerPoint == {"boot", "select", "flush", "spin", "deferred", "drain", "tailflush",
                "wait", "done", "failspin", "faildrain"}

(* deadline: "none" in normal operation, "worker" when spawned during the  *)
(* shutdown, "own" when the task itself heard the shutdown, "past" when    *)
(* its own deadline has passed.                                            *)
Task == [at : {"idle", "start", "encode", "put", "backoff"},
         group : Seq(Record),
         deadline : {"none", "worker", "own", "past"},
         attempt : Nat]

NoTask == [at |-> "idle", group |-> <<>>, deadline |-> "none", attempt |-> 0]

(* The counters are unsigned in the code; CountersExact shows that none    *)
(* goes below zero.                                                        *)
TypeOK ==
  /\ QueueTypeOK
  /\ size \in [Record -> Nat]
  /\ worker \in WorkerPoint
  /\ batch \in Seq(Record)
  /\ batchBytes \in Nat
  /\ hand \in Seq(Record) /\ Len(hand) <= 1
  /\ task \in [Slot -> Task]
  /\ pending \in Int
  /\ dropped \in [Causes -> Int]
  /\ shutdown \in BOOLEAN
  /\ late \in BOOLEAN
  /\ outcome \in [Record -> Outcomes]

Init ==
  /\ QueueInit
  /\ size = [r \in Record |-> 0]
  /\ worker = "boot"
  /\ batch = <<>>
  /\ batchBytes = 0
  /\ hand = <<>>
  /\ task = [s \in Slot |-> NoTask]
  /\ pending = 0
  /\ dropped = [c \in Causes |-> 0]
  /\ shutdown = FALSE
  /\ late = FALSE
  /\ outcome = [r \in Record |-> "none"]

Drop(cause, n) == dropped' = [dropped EXCEPT ![cause] = @ + n]

Settle(recs, o) ==
  outcome' = [r \in Record |-> IF r \in recs THEN o ELSE outcome[r]]

-----------------------------------------------------------------------------
(* The application and the guard.                                          *)

(* Records are numbered in the order in which they are logged.             *)
IsNext(r) == \A q \in Record : q < r => fate[q] # "fresh"

Enqueue(r) ==
  /\ IsNext(r)
  /\ Offer(r)
  /\ \E z \in Sizes : size' = [size EXCEPT ![r] = z]
  /\ IF Full THEN Drop("queue_full", 1) ELSE UNCHANGED dropped
  /\ UNCHANGED <<worker, batch, batchBytes, hand, task, pending, shutdown, late, outcome>>

EnqueueRefused(r) ==
  /\ IsNext(r)
  /\ Refuse(r)
  /\ Drop("worker_closed", 1)
  /\ UNCHANGED <<size, worker, batch, batchBytes, hand, task, pending, shutdown, late,
                 outcome>>

(* The guard sends true, or is dropped.                                    *)
Signal ==
  /\ ~shutdown
  /\ shutdown' = TRUE
  /\ UNCHANGED <<queueVars, size, worker, batch, batchBytes, hand, task, pending,
                 dropped, late, outcome>>

-----------------------------------------------------------------------------
(* run_sink                                                                *)

StartWorker ==
  /\ worker = "boot"
  /\ worker' = "select"
  /\ UNCHANGED <<queueVars, size, batch, batchBytes, hand, task, pending, dropped,
                 shutdown, late, outcome>>

(* The tokio runtime cannot be built: close, and count what is queued.     *)
RuntimeFails ==
  /\ worker = "boot"
  /\ BeginClose
  /\ worker' = "failspin"
  /\ UNCHANGED <<size, batch, batchBytes, hand, task, pending, dropped, shutdown, late,
                 outcome>>

FailClosed ==
  /\ worker = "failspin"
  /\ EndClose
  /\ worker' = "faildrain"
  /\ UNCHANGED <<size, batch, batchBytes, hand, task, pending, dropped, shutdown, late,
                 outcome>>

FailDrain ==
  /\ worker = "faildrain"
  /\ worker' = "done"
  /\ ring' = <<>>
  /\ fate' = [r \in Record |-> IF r \in ToSet(ring) THEN "taken" ELSE fate[r]]
  /\ Drop("worker_closed", Len(ring))
  /\ Settle(ToSet(ring), "worker_closed")
  /\ UNCHANGED <<phase, size, batch, batchBytes, hand, task, pending, shutdown, late>>

-----------------------------------------------------------------------------
(* The batch: push_or_drop and spawn_flush.                                *)

Oversize(r) == size[r] + Overhead > MaxBytes

(* Mutant of WouldExceed: the overhead of the group is forgotten.          *)
WouldExceedBare(r) == batch # <<>> /\ batchBytes + size[r] > MaxBytes

WouldExceed(r) == batch # <<>> /\ batchBytes + size[r] + Overhead > MaxBytes

Ready(n, bytes) == n >= MaxBatch \/ bytes >= MaxBytes

(* Where the worker goes on with no flush to do.                           *)
Home == IF phase = "open" THEN "select" ELSE "drain"

SetBatch(recs, bytes) ==
  /\ batch' = recs
  /\ batchBytes' = bytes
  /\ worker' = IF Ready(Len(recs), bytes) THEN "flush" ELSE Home

(* push_or_drop up to its spawn_flush, and the test of ready that follows. *)
PushOrDrop(r) ==
  \/ /\ Oversize(r)
     /\ Drop("send_failed", 1)
     /\ Settle({r}, "send_failed")
     /\ hand' = <<>>
     /\ SetBatch(batch, batchBytes)
  \/ /\ ~Oversize(r) /\ WouldExceed(r)
     /\ hand' = <<r>>
     /\ worker' = "flush"
     /\ UNCHANGED <<batch, batchBytes, dropped, outcome>>
  \/ /\ ~Oversize(r) /\ ~WouldExceed(r)
     /\ hand' = <<>>
     /\ SetBatch(Append(batch, r), batchBytes + size[r])
     /\ UNCHANGED <<dropped, outcome>>

(* A permit is free: the batch goes to a send task, and the record in hand *)
(* starts the next batch.  The tail flush is the last: what the ring still *)
(* holds is then counted.                                                  *)
SpawnFlush(s) ==
  /\ worker \in {"flush", "tailflush"}
  /\ task[s].at = "idle"
  /\ task' = [task EXCEPT ![s] =
       [at |-> "start", group |-> batch, attempt |-> 0,
        deadline |-> IF phase = "open" THEN "none" ELSE "worker"]]
  /\ pending' = pending + Len(batch)
  /\ hand' = <<>>
  /\ IF worker = "tailflush"
     THEN /\ batch' = <<>> /\ batchBytes' = 0 /\ worker' = "wait"
          /\ Drop("shutdown_dropped", Len(ring))
          /\ Settle(ToSet(ring), "shutdown_dropped")
     ELSE /\ IF hand = <<>> THEN SetBatch(<<>>, 0) ELSE SetBatch(hand, size[hand[1]])
          /\ UNCHANGED <<dropped, outcome>>
  /\ UNCHANGED <<queueVars, size, shutdown, late>>

(* Normal operation, all permits out: the shutdown ends the wait and the   *)
(* batch is kept (DeferredForShutdown); the worker starts to close.        *)
DeferFlush ==
  /\ worker = "flush"
  /\ shutdown
  /\ BeginClose
  /\ worker' = "spin"
  /\ UNCHANGED <<size, batch, batchBytes, hand, task, pending, dropped, shutdown, late,
                 outcome>>

(* Mutant of DropFlush: the record in hand is not counted.                 *)
DropFlushForgetsHand ==
  /\ worker \in {"flush", "tailflush"}
  /\ phase = "closed" /\ late
  /\ batch' = <<>> /\ batchBytes' = 0 /\ hand' = <<>>
  /\ LET lost == batch \o (IF worker = "tailflush" THEN ring ELSE <<>>)
     IN  /\ Drop("shutdown_dropped", Len(lost))
         /\ Settle(ToSet(lost), "shutdown_dropped")
  /\ worker' = IF worker = "tailflush" THEN "wait" ELSE "drain"
  /\ UNCHANGED <<queueVars, size, task, pending, shutdown, late>>

(* Shutdown, deadline passed: the batch and the record in hand are lost.   *)
DropFlush ==
  /\ worker \in {"flush", "tailflush"}
  /\ phase = "closed" /\ late
  /\ batch' = <<>> /\ batchBytes' = 0 /\ hand' = <<>>
  /\ LET lost == batch \o hand \o (IF worker = "tailflush" THEN ring ELSE <<>>)
     IN  /\ Drop("shutdown_dropped", Len(lost))
         /\ Settle(ToSet(lost), "shutdown_dropped")
  /\ worker' = IF worker = "tailflush" THEN "wait" ELSE "drain"
  /\ UNCHANGED <<queueVars, size, task, pending, shutdown, late>>

-----------------------------------------------------------------------------
(* The main loop of run_pipeline.                                          *)

RecvRecord ==
  /\ worker = "select"
  /\ Take
  /\ PushOrDrop(Head(ring))
  /\ UNCHANGED <<size, task, pending, shutdown, late>>

(* Mutant of TimerFlush: the timer flushes full batches only.              *)
TimerFlushFullOnly ==
  /\ worker = "select"
  /\ Len(batch) >= MaxBatch
  /\ worker' = "flush"
  /\ UNCHANGED <<queueVars, size, batch, batchBytes, hand, task, pending, dropped,
                 shutdown, late, outcome>>

(* flush_interval has elapsed; with nothing to flush only the timer moves. *)
TimerFlush ==
  /\ worker = "select"
  /\ batch # <<>>
  /\ worker' = "flush"
  /\ UNCHANGED <<queueVars, size, batch, batchBytes, hand, task, pending, dropped,
                 shutdown, late, outcome>>

SeeShutdown ==
  /\ worker = "select"
  /\ shutdown
  /\ BeginClose
  /\ worker' = "spin"
  /\ UNCHANGED <<size, batch, batchBytes, hand, task, pending, dropped, shutdown, late,
                 outcome>>

-----------------------------------------------------------------------------
(* The shutdown part of run_pipeline.                                      *)

(* Mutant of CloseReturn: the deferred record goes back into the ring.     *)
CloseReturnRequeues ==
  /\ worker = "spin"
  /\ phase' = "closed"
  /\ ring' = ring \o hand
  /\ hand' = <<>>
  /\ fate' = [r \in Record |-> IF r \in ToSet(hand) THEN "queued" ELSE fate[r]]
  /\ worker' = "drain"
  /\ UNCHANGED <<size, batch, batchBytes, task, pending, dropped, shutdown, late, outcome>>

CloseReturn ==
  /\ worker = "spin"
  /\ EndClose
  /\ worker' = IF hand = <<>> THEN "drain" ELSE "deferred"
  /\ UNCHANGED <<size, batch, batchBytes, hand, task, pending, dropped, shutdown, late,
                 outcome>>

PushDeferred ==
  /\ worker = "deferred"
  /\ PushOrDrop(hand[1])
  /\ UNCHANGED <<queueVars, size, task, pending, shutdown, late>>

DrainPop ==
  /\ worker = "drain"
  /\ ~late
  /\ Take
  /\ PushOrDrop(Head(ring))
  /\ UNCHANGED <<size, task, pending, shutdown, late>>

(* Mutant of DrainStop: what the deadline leaves in the ring is forgotten. *)
DrainStopForgetsRing ==
  /\ worker = "drain"
  /\ late \/ ring = <<>>
  /\ IF batch # <<>> /\ ~late
     THEN /\ worker' = "tailflush"
          /\ UNCHANGED <<batch, batchBytes, dropped, outcome>>
     ELSE /\ worker' = "wait"
          /\ batch' = <<>> /\ batchBytes' = 0
          /\ Drop("shutdown_dropped", Len(batch))
          /\ Settle(ToSet(batch), "shutdown_dropped")
  /\ UNCHANGED <<queueVars, size, hand, task, pending, shutdown, late>>

DrainStop ==
  /\ worker = "drain"
  /\ late \/ ring = <<>>
  /\ IF batch # <<>> /\ ~late
     THEN /\ worker' = "tailflush"
          /\ UNCHANGED <<batch, batchBytes, dropped, outcome>>
     ELSE /\ worker' = "wait"
          /\ batch' = <<>> /\ batchBytes' = 0
          /\ Drop("shutdown_dropped", Len(batch) + Len(ring))
          /\ Settle(ToSet(batch \o ring), "shutdown_dropped")
  /\ UNCHANGED <<queueVars, size, hand, task, pending, shutdown, late>>

InFlight == UNION {ToSet(task[s].group) : s \in Slot}

(* Mutant of StopWaiting: the tasks are aborted at once.                   *)
StopWithoutWaiting ==
  /\ worker = "wait"
  /\ worker' = "done"
  /\ Drop("shutdown_dropped", pending)
  /\ Settle(InFlight, "shutdown_dropped")
  /\ pending' = 0
  /\ task' = [s \in Slot |-> NoTask]
  /\ UNCHANGED <<queueVars, size, batch, batchBytes, hand, shutdown, late>>

(* Every task has ended, or the deadline has passed and the rest are       *)
(* aborted and counted from pending_records.                               *)
StopWaiting ==
  /\ worker = "wait"
  /\ late \/ \A s \in Slot : task[s].at = "idle"
  /\ worker' = "done"
  /\ Drop("shutdown_dropped", pending)
  /\ Settle(InFlight, "shutdown_dropped")
  /\ pending' = 0
  /\ task' = [s \in Slot |-> NoTask]
  /\ UNCHANGED <<queueVars, size, batch, batchBytes, hand, shutdown, late>>

(* Mutant of DeadlinePasses: the deadline is set after the drain only.     *)
DeadlineAfterDrain ==
  /\ worker = "wait"
  /\ ~late
  /\ late' = TRUE
  /\ UNCHANGED <<queueVars, size, worker, batch, batchBytes, hand, task, pending,
                 dropped, shutdown, outcome>>

(* The worker's deadline, set before close, passes.                        *)
DeadlinePasses ==
  /\ worker \in {"spin", "deferred", "drain", "flush", "tailflush", "wait"}
  /\ phase # "open"
  /\ ~late
  /\ late' = TRUE
  /\ UNCHANGED <<queueVars, size, worker, batch, batchBytes, hand, task, pending,
                 dropped, shutdown, outcome>>

-----------------------------------------------------------------------------
(* send_with_retry, await_put_logs and sleep_backoff, for the task that    *)
(* holds permit s.  It runs while the worker awaits.                       *)

Awaiting == worker \in {"select", "flush", "tailflush", "wait"}

Expired(s) ==
  \/ task[s].deadline = "worker" /\ late
  \/ task[s].deadline = "past"

(* Mutant of EndTask: the count in pending is not given back.              *)
EndTaskStillPending(s, o) ==
  /\ task' = [task EXCEPT ![s] = NoTask]
  /\ Settle(ToSet(task[s].group), o)
  /\ IF o = "acked" THEN UNCHANGED dropped ELSE Drop(o, Len(task[s].group))
  /\ UNCHANGED pending

(* The task returns: its permit and its count in pending go back.          *)
EndTask(s, o) ==
  /\ task' = [task EXCEPT ![s] = NoTask]
  /\ pending' = pending - Len(task[s].group)
  /\ Settle(ToSet(task[s].group), o)
  /\ IF o = "acked" THEN UNCHANGED dropped ELSE Drop(o, Len(task[s].group))

KeepTask(s) == UNCHANGED <<pending, dropped, outcome>>

At(s, points) ==
  /\ Awaiting
  /\ task[s].at \in points
  /\ UNCHANGED <<queueVars, size, worker, batch, batchBytes, hand, shutdown, late>>

(* The top of the loop, at first or after a backoff.                       *)
BeginAttempt(s) ==
  /\ At(s, {"start", "backoff"})
  /\ IF Expired(s)
     THEN EndTask(s, "shutdown_dropped")
     ELSE task' = [task EXCEPT ![s].at = "encode"] /\ KeepTask(s)

Encoded(s) ==
  /\ At(s, {"encode"})
  /\ task' = [task EXCEPT ![s].at = "put"] /\ KeepTask(s)

EncodePanics(s) == At(s, {"encode"}) /\ EndTask(s, "send_failed")

Acknowledged(s) == At(s, {"put"}) /\ EndTask(s, "acked")

(* The server answers with a status listed in no_retry_status.             *)
PutRefused(s) == At(s, {"put"}) /\ EndTask(s, "send_failed")

(* Any other failure.                                                      *)
PutFails(s) ==
  /\ At(s, {"put"})
  /\ IF task[s].attempt + 1 > MaxRetries
     THEN EndTask(s, "send_failed")
     ELSE IF Expired(s)
          THEN EndTask(s, "shutdown_dropped")
          ELSE /\ task' = [task EXCEPT ![s].at = "backoff", ![s].attempt = @ + 1]
               /\ KeepTask(s)

(* Mutant of PutExpires: the request is counted as lost and goes on.       *)
PutExpiresGoesOn(s) ==
  /\ At(s, {"put"})
  /\ Expired(s)
  /\ Settle(ToSet(task[s].group), "shutdown_dropped")
  /\ Drop("shutdown_dropped", Len(task[s].group))
  /\ UNCHANGED <<task, pending>>

PutExpires(s) ==
  At(s, {"put"}) /\ Expired(s) /\ EndTask(s, "shutdown_dropped")

(* A task with no deadline hears the shutdown: a request goes on under a   *)
(* deadline, a backoff ends at once.                                       *)
HearShutdown(s) ==
  /\ At(s, {"put", "backoff"})
  /\ shutdown /\ task[s].deadline = "none"
  /\ task' = [task EXCEPT ![s].deadline = "own",
                          ![s].at = IF @ = "put" THEN "put" ELSE "encode"]
  /\ KeepTask(s)

TaskDeadlinePasses(s) ==
  /\ task[s].deadline = "own"
  /\ task' = [task EXCEPT ![s].deadline = "past"]
  /\ KeepTask(s)
  /\ UNCHANGED <<queueVars, size, worker, batch, batchBytes, hand, shutdown, late>>

-----------------------------------------------------------------------------
FlushStep == DropFlush \/ DeferFlush \/ \E s \in Slot : SpawnFlush(s)

WorkerStep ==
  \/ StartWorker \/ RuntimeFails \/ FailClosed \/ FailDrain
  \/ RecvRecord \/ TimerFlush \/ SeeShutdown \/ FlushStep
  \/ CloseReturn \/ PushDeferred \/ DrainPop \/ DrainStop \/ StopWaiting

Reply(s) == Acknowledged(s) \/ PutRefused(s) \/ PutFails(s)

TaskStep(s) ==
  BeginAttempt(s) \/ Encoded(s) \/ EncodePanics(s) \/ PutExpires(s) \/ HearShutdown(s)

Timeout == DeadlinePasses \/ \E s \in Slot : TaskDeadlinePasses(s)

(* All is logged and the worker is gone: the system rests.                 *)
Finished ==
  /\ worker = "done"
  /\ \A r \in Record : fate[r] # "fresh"
  /\ UNCHANGED vars

Next ==
  \/ \E r \in Record : Enqueue(r) \/ EnqueueRefused(r)
  \/ Signal
  \/ WorkerStep
  \/ \E s \in Slot : TaskStep(s) \/ Reply(s)
  \/ Timeout
  \/ Finished

Spec == Init /\ [][Next]_vars

(* The runtime polls the worker and every ready task, and time passes.     *)
(* Nothing is assumed of the server: a request may hang.                   *)
Fairness ==
  /\ WF_vars(WorkerStep)
  /\ \A s \in Slot : WF_vars(TaskStep(s)) /\ WF_vars(TaskDeadlinePasses(s))
  /\ WF_vars(DeadlinePasses)

FairSpec == Spec /\ Fairness

-----------------------------------------------------------------------------
Fated(f) == {r \in Record : fate[r] = f}

Ended(o) == {r \in Record : outcome[r] = o}

(* Accepted by the queue, and neither delivered nor counted as dropped.    *)
Unsettled == {r \in Record : fate[r] \in {"queued", "taken"} /\ outcome[r] = "none"}

(* What the pipeline still holds; the ring is written off on entering wait.*)
Held ==
  ToSet(batch) \cup ToSet(hand) \cup InFlight
    \cup (IF worker \in {"wait", "done"} THEN {} ELSE ToSet(ring))

(* No accepted record falls out of the pipeline unaccounted, through any   *)
(* flush, deferral, drain or abort, and none that was delivered or counted *)
(* is still held.                                                          *)
NothingLost == Unsettled = Held

(* When the worker has ended every record that was logged was delivered or *)
(* is in one of the four drop causes that report_dropped_if_any prints.    *)
DoneSettlesAll ==
  worker = "done" =>
    \A r \in Record : fate[r] \in {"queued", "taken"} => outcome[r] # "none"

(* The counters are exact at every moment, although they are added up from *)
(* batch lengths, ring.len() and pending_records, never record by record.  *)
CountersExact ==
  /\ dropped["queue_full"] = Cardinality(Fated("queue_full"))
  /\ dropped["worker_closed"] =
       Cardinality(Fated("worker_closed")) + Cardinality(Ended("worker_closed"))
  /\ dropped["send_failed"] = Cardinality(Ended("send_failed"))
  /\ dropped["shutdown_dropped"] = Cardinality(Ended("shutdown_dropped"))
  /\ pending = Cardinality(InFlight)

(* A record's end is decided once: an abort, a deadline and a late reply   *)
(* never count the same record twice or revise what was counted.           *)
SettledOnce ==
  [][\A r \in Record : outcome[r] # "none" => outcome'[r] = outcome[r]]_vars

(* Records are handed to send tasks in the order in which they were logged,*)
(* also across a flush deferred by the shutdown, whose record is pushed    *)
(* before the drain pops the ring.                                         *)
DispatchInOrder ==
  LET line == batch \o hand \o ring
      Increasing(q) == \A i, j \in DOMAIN q : i < j => q[i] < q[j]
  IN  /\ Increasing(line)
      /\ \A s \in Slot :
           /\ Increasing(task[s].group)
           /\ \A r \in ToSet(task[s].group), q \in ToSet(line) : r < q

Bytes(recs) == FoldLeft(LAMBDA b, r : b + size[r], 0, recs)

(* A LogGroup is never empty, never above the byte limit of the service,   *)
(* and holds at most one record more than max_batch_size.                  *)
GroupsWithinLimits ==
  \A s \in Slot : task[s].at # "idle" =>
    /\ Len(task[s].group) \in 1..(MaxBatch + 1)
    /\ Bytes(task[s].group) + Overhead <= MaxBytes

(* max_batch_size as sink.rs documents it: the maximum number of records   *)
(* of one batch.                                                           *)
BatchSizeIsMaximum == \A s \in Slot : Len(task[s].group) <= MaxBatch

(* Nothing is written off to the shutdown while its time is not up.        *)
NoDropBeforeDeadline ==
  [][dropped'["shutdown_dropped"] # dropped["shutdown_dropped"]
       => late \/ \E s \in Slot : task[s].deadline = "past"]_vars

(* The worker ends after the shutdown signal whatever the server does: no  *)
(* permit wait, request, backoff or close blocks it for ever.              *)
ShutdownCompletes == shutdown ~> worker = "done"

(* Without any shutdown each accepted record is delivered or counted, if   *)
(* every request is answered or fails, as request_timeout sees to.         *)
AcceptedIsSettled ==
  (\A s \in Slot : WF_vars(Reply(s))) =>
    \A r \in Record : r \in Unsettled ~> r \notin Unsettled
=============================================================================
