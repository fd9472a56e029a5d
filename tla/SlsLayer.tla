------------------------------ MODULE SlsLayer -----------------------------
(***************************************************************************)
(* The tracing layer over several sinks (sls/layer.rs, and SlsGuard in     *)
(* sls/sink.rs): the builder that spawns one worker per sink and may fail  *)
(* half-way, the routing of events by level, and the guard that stops all  *)
(* workers under one deadline and reports what was dropped.                *)
(*                                                                         *)
(* A worker is what SlsSink shows of run_sink: a record that was accepted  *)
(* is sent or counted, and none is left when the worker ends after a       *)
(* close.  A worker may hang at any point, or panic.                       *)
(***************************************************************************)
EXTENDS Naturals, Sequences, FiniteSets

CONSTANTS Level,     \* tracing levels
          Specs,     \* SlsLayerBuilder::specs: the levels of each sink, in order
          Event,     \* events the application may log
          Capacity   \* queue_capacity of a sink

ASSUME LayerAssumption ==
  /\ Specs \in Seq(SUBSET Level)
  /\ Specs # <<>>
  /\ Capacity \in Nat \ {0}

Sink == 1..Len(Specs)

VARIABLES build,     \* where SlsLayerBuilder::build stands
          routing,   \* the sink of each level; 0 is None
          worker,    \* the worker thread of each sink
          panicked,  \* history: the sinks whose worker unwound
          closed,    \* SinkQueue::closed of each sink
          told,      \* the shutdown channel of each sink
          done,      \* a message is in the done channel of each sink
          handle,    \* SinkHandle::handle of each sink
          guard,     \* where shutdown_inner stands
          at,        \* the sink its loop has reached
          expired,   \* its deadline has passed
          timedOut,  \* timed_out
          fate,      \* what became of each event
          sinkOf,    \* the sink each event was routed to
          reported   \* the events counted in the report of the guard

buildVars  == <<build, routing>>
workerVars == <<worker, panicked, closed, done>>
guardVars  == <<told, handle, guard, at, expired, timedOut, reported>>
eventVars  == <<fate, sinkOf>>
vars == <<buildVars, workerVars, guardVars, eventVars>>

(* "lost" stands for send_failed, shutdown_dropped and what a worker       *)
(* without a runtime counts; "refusing" has met a closed queue and is not  *)
(* counted yet.                                                            *)
Fates == {"fresh", "ignored", "accepted", "refusing", "sent", "queue_full", "lost",
          "worker_closed"}

Counted == {"queue_full", "lost", "worker_closed"}

TypeOK ==
  /\ build \in {"building", "built", "failed"}
  /\ routing \in [Level -> 0..Len(Specs)]
  /\ worker \in [Sink -> {"none", "boot", "run", "drain", "end", "gone"}]
  /\ panicked \subseteq Sink
  /\ closed \in [Sink -> BOOLEAN]
  /\ told \in [Sink -> BOOLEAN]
  /\ done \in [Sink -> BOOLEAN]
  /\ handle \in [Sink -> {"none", "held", "joined", "abandoned"}]
  /\ guard \in {"none", "held", "telling", "waiting", "joining", "reporting", "returned"}
  /\ at \in Sink
  /\ expired \in BOOLEAN
  /\ timedOut \in BOOLEAN
  /\ fate \in [Event -> Fates]
  /\ sinkOf \in [Event -> 0..Len(Specs)]
  /\ reported \subseteq Event

Init ==
  /\ build = "building"
  /\ routing = [l \in Level |-> 0]
  /\ worker = [s \in Sink |-> "none"]
  /\ panicked = {}
  /\ closed = [s \in Sink |-> FALSE]
  /\ told = [s \in Sink |-> FALSE]
  /\ done = [s \in Sink |-> FALSE]
  /\ handle = [s \in Sink |-> "none"]
  /\ guard = "none"
  /\ at = 1
  /\ expired = FALSE
  /\ timedOut = FALSE
  /\ fate = [e \in Event |-> "fresh"]
  /\ sinkOf = [e \in Event |-> 0]
  /\ reported = {}

Spawned == {s \in Sink : worker[s] # "none"}

Accepted(s) == {e \in Event : sinkOf[e] = s /\ fate[e] = "accepted"}

-----------------------------------------------------------------------------
(* SlsLayerBuilder::build                                                  *)

(* The next of the specs; a level that is taken stays where it is.         *)
AssignRoutes(s) ==
  routing' = [l \in Level |-> IF l \in Specs[s] /\ routing[l] = 0 THEN s ELSE routing[l]]

SpawnSink ==
  /\ build = "building" /\ guard = "none"
  /\ \E s \in Sink :
       /\ s = Cardinality(Spawned) + 1
       /\ worker' = [worker EXCEPT ![s] = "boot"]
       /\ handle' = [handle EXCEPT ![s] = "held"]
       /\ AssignRoutes(s)
  /\ UNCHANGED <<build, panicked, closed, told, done, guard, at, expired, timedOut,
                 reported, eventVars>>

(* The provider, the client or the thread fails: a guard over the sinks    *)
(* spawned so far is dropped at once, and with none of them it is empty.   *)
SpawnFails ==
  /\ build = "building" /\ guard = "none"
  /\ Cardinality(Spawned) < Len(Specs)
  /\ IF Spawned = {} THEN build' = "failed" /\ guard' = "returned"
                     ELSE guard' = "telling" /\ UNCHANGED build
  /\ UNCHANGED <<routing, workerVars, told, handle, at, expired, timedOut, reported,
                 eventVars>>

BuildReturns ==
  /\ build = "building" /\ guard = "none"
  /\ Spawned = Sink
  /\ build' = "built"
  /\ guard' = "held"
  /\ UNCHANGED <<routing, workerVars, told, handle, at, expired, timedOut, reported,
                 eventVars>>

-----------------------------------------------------------------------------
(* on_event                                                                *)

(* An internal target, or a level that no sink has declared.               *)
Ignore(e) ==
  /\ build = "built" /\ fate[e] = "fresh"
  /\ \E l \in Level, internal \in BOOLEAN : internal \/ routing[l] = 0
  /\ fate' = [fate EXCEPT ![e] = "ignored"]
  /\ UNCHANGED <<sinkOf, buildVars, workerVars, guardVars>>

Routed(e, s) ==
  /\ build = "built" /\ fate[e] = "fresh"
  /\ \E l \in Level : routing[l] = s
  /\ sinkOf' = [sinkOf EXCEPT ![e] = s]

Accept(e, s) ==
  /\ Routed(e, s)
  /\ ~closed[s]
  /\ fate' = [fate EXCEPT ![e] = "accepted"]
  /\ UNCHANGED <<buildVars, workerVars, guardVars>>

(* The ring is full: by the policy of the sink the new record is dropped,  *)
(* or one that was accepted before it.                                     *)
Overflow(e, s) ==
  /\ Routed(e, s)
  /\ ~closed[s]
  /\ Cardinality(Accepted(s)) >= Capacity
  /\ \E v \in Accepted(s) \cup {e} :
       fate' = [fate EXCEPT ![e] = "accepted", ![v] = "queue_full"]
  /\ UNCHANGED <<buildVars, workerVars, guardVars>>

Refuse(e, s) ==
  /\ Routed(e, s)
  /\ closed[s]
  /\ fate' = [fate EXCEPT ![e] = "refusing"]
  /\ UNCHANGED <<buildVars, workerVars, guardVars>>

CountRefused(e) ==
  /\ fate[e] = "refusing"
  /\ fate' = [fate EXCEPT ![e] = "worker_closed"]
  /\ UNCHANGED <<sinkOf, buildVars, workerVars, guardVars>>

EventStep(e) ==
  \/ Ignore(e)
  \/ CountRefused(e)
  \/ \E s \in Sink : Accept(e, s) \/ Overflow(e, s) \/ Refuse(e, s)

-----------------------------------------------------------------------------
(* The workers                                                             *)

GoTo(s, w) == worker' = [worker EXCEPT ![s] = w]

(* DoneOnDrop: however run_sink ends, the guard is told.                   *)
EndRun(s) ==
  /\ GoTo(s, "end")
  /\ done' = [done EXCEPT ![s] = TRUE]

StartRuntime(s) ==
  /\ worker[s] = "boot"
  /\ GoTo(s, "run")
  /\ UNCHANGED <<panicked, closed, done, buildVars, guardVars, eventVars>>

RuntimeFails(s) ==
  /\ worker[s] = "boot"
  /\ closed' = [closed EXCEPT ![s] = TRUE]
  /\ fate' = [e \in Event |-> IF e \in Accepted(s) THEN "lost" ELSE fate[e]]
  /\ EndRun(s)
  /\ UNCHANGED <<panicked, sinkOf, buildVars, guardVars>>

Settle(s) ==
  /\ worker[s] \in {"run", "drain"}
  /\ \E e \in Accepted(s), f \in {"sent", "lost"} : fate' = [fate EXCEPT ![e] = f]
  /\ UNCHANGED <<sinkOf, workerVars, buildVars, guardVars>>

(* Mutant of Close: the worker drains without closing its queue.           *)
CloseLeftOpen(s) ==
  /\ worker[s] = "run" /\ told[s]
  /\ GoTo(s, "drain")
  /\ UNCHANGED <<panicked, closed, done, buildVars, guardVars, eventVars>>

Close(s) ==
  /\ worker[s] = "run" /\ told[s]
  /\ closed' = [closed EXCEPT ![s] = TRUE]
  /\ GoTo(s, "drain")
  /\ UNCHANGED <<panicked, done, buildVars, guardVars, eventVars>>

Finish(s) ==
  /\ worker[s] = "drain"
  /\ Accepted(s) = {}
  /\ EndRun(s)
  /\ UNCHANGED <<panicked, closed, buildVars, guardVars, eventVars>>

(* Mutant of Panic: done is sent at the end of run_sink, not on drop.      *)
PanicUnheard(s) ==
  /\ worker[s] \in {"run", "drain"}
  /\ panicked' = panicked \cup {s}
  /\ GoTo(s, "end")
  /\ UNCHANGED <<closed, done, buildVars, guardVars, eventVars>>

(* run_pipeline unwinds: the queue keeps the flag it has.                  *)
Panic(s) ==
  /\ worker[s] \in {"run", "drain"}
  /\ panicked' = panicked \cup {s}
  /\ EndRun(s)
  /\ UNCHANGED <<closed, buildVars, guardVars, eventVars>>

Exit(s) ==
  /\ worker[s] = "end"
  /\ GoTo(s, "gone")
  /\ UNCHANGED <<panicked, closed, done, buildVars, guardVars, eventVars>>

WorkerStep(s) ==
  StartRuntime(s) \/ RuntimeFails(s) \/ Settle(s) \/ Close(s) \/ Finish(s) \/ Panic(s) \/ Exit(s)

-----------------------------------------------------------------------------
(* SlsGuard::shutdown_inner                                                *)

DropGuard ==
  /\ guard = "held"
  /\ guard' = "telling"
  /\ UNCHANGED <<told, handle, at, expired, timedOut, reported, buildVars, workerVars,
                 eventVars>>

(* Mutant of Advance: the loop runs one sink too far.                      *)
AdvancePast(part, next) ==
  IF at <= Cardinality(Spawned) THEN at' = at + 1 /\ guard' = part
                                ELSE at' = 1 /\ guard' = next

(* A loop over the spawned sinks goes on, or gives way to the next one.    *)
Advance(part, next) ==
  IF at < Cardinality(Spawned) THEN at' = at + 1 /\ guard' = part
                               ELSE at' = 1 /\ guard' = next

Tell ==
  /\ guard = "telling"
  /\ told' = [told EXCEPT ![at] = TRUE]
  /\ Advance("telling", "waiting")
  /\ UNCHANGED <<handle, expired, timedOut, reported, buildVars, workerVars, eventVars>>

(* shutdown_timeout and 250 ms after the last sink was told.               *)
DeadlinePasses ==
  /\ guard \in {"waiting", "joining"}
  /\ ~expired
  /\ expired' = TRUE
  /\ UNCHANGED <<told, handle, guard, at, timedOut, reported, buildVars, workerVars,
                 eventVars>>

HearDone ==
  /\ guard = "waiting"
  /\ done[at] /\ ~expired
  /\ guard' = "joining"
  /\ UNCHANGED <<told, handle, at, expired, timedOut, reported, buildVars, workerVars,
                 eventVars>>

Join ==
  /\ guard = "joining"
  /\ worker[at] = "gone"
  /\ handle' = [handle EXCEPT ![at] = "joined"]
  /\ Advance("waiting", "reporting")
  /\ UNCHANGED <<told, expired, timedOut, reported, buildVars, workerVars, eventVars>>

(* Mutant of GiveUp: recv without a timeout.                               *)
GiveUpNever ==
  /\ guard = "waiting"
  /\ worker[at] \in {"end", "gone"} /\ ~done[at]
  /\ handle' = [handle EXCEPT ![at] = "abandoned"]
  /\ timedOut' = TRUE
  /\ Advance("waiting", "reporting")
  /\ UNCHANGED <<told, expired, reported, buildVars, workerVars, eventVars>>

(* No time is left, or recv_timeout fails: at the deadline, or at once if  *)
(* the worker ended without a message.  The thread is not joined.          *)
GiveUp ==
  /\ guard = "waiting"
  /\ expired \/ (worker[at] \in {"end", "gone"} /\ ~done[at])
  /\ handle' = [handle EXCEPT ![at] = "abandoned"]
  /\ timedOut' = TRUE
  /\ Advance("waiting", "reporting")
  /\ UNCHANGED <<told, expired, reported, buildVars, workerVars, eventVars>>

(* report_dropped_if_any reads the counters sink by sink.                  *)
Report ==
  /\ guard = "reporting"
  /\ reported' = reported \cup {e \in Event : sinkOf[e] = at /\ fate[e] \in Counted}
  /\ Advance("reporting", "returned")
  /\ build' = IF build = "building" /\ guard' = "returned" THEN "failed" ELSE build
  /\ UNCHANGED <<routing, told, handle, expired, timedOut, workerVars, eventVars>>

GuardStep == Tell \/ HearDone \/ Join \/ GiveUp \/ Report

(* Nothing is left to do.                                                  *)
Finished ==
  /\ guard = "returned"
  /\ \A s \in Spawned : worker[s] = "gone"
  /\ build = "built" => \A e \in Event : fate[e] \notin {"fresh", "refusing"}
  /\ UNCHANGED vars

Next ==
  \/ SpawnSink \/ SpawnFails \/ BuildReturns
  \/ \E e \in Event : EventStep(e)
  \/ \E s \in Sink : WorkerStep(s)
  \/ DropGuard \/ GuardStep \/ DeadlinePasses
  \/ Finished

Spec == Init /\ [][Next]_vars

(* The thread that drops the guard runs, and so does a thread that has     *)
(* only to return; time passes.  A worker that still delivers may hang.    *)
LayerFairness ==
  /\ WF_vars(GuardStep)
  /\ WF_vars(DeadlinePasses)
  /\ \A s \in Sink : WF_vars(Exit(s))

-----------------------------------------------------------------------------
(* A thread is given up only at the common deadline, when every spawned    *)
(* worker had been told to stop: a panic is not mistaken for a timeout.    *)
AbandonedOnlyLate ==
  \A s \in Sink : handle[s] = "abandoned" =>
    expired /\ (\A t \in Spawned : told[t])

(* When the guard returns without a timeout, also out of a build that      *)
(* failed, no worker thread runs; and every event that was accepted is     *)
(* sent or in the report, unless its worker panicked.  Only a refused      *)
(* event is counted later.                                                 *)
ReportIsComplete ==
  guard = "returned" /\ ~timedOut =>
    /\ \A s \in Spawned : worker[s] = "gone"
    /\ \A e \in Event : sinkOf[e] \in Sink \ panicked =>
         /\ fate[e] # "accepted"
         /\ fate[e] \in {"queue_full", "lost"} => e \in reported

(* Dropping the guard returns, wherever the workers hang.                  *)
ShutdownReturns == (guard = "telling") ~> (guard = "returned")
=============================================================================
