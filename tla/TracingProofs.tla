--------------------------- MODULE TracingProofs ----------------------------
(***************************************************************************)
(* Dropping the guard of several sinks: no worker is given up before the   *)
(* common deadline, and a report without a timeout misses nothing, for any *)
(* number of sinks, levels and events.  And no request of a sink is signed *)
(* with expired credentials while the provider does its part, for any      *)
(* intervals, lifetimes, latency and jumps of the clock.                   *)
(***************************************************************************)
EXTENDS MCTracing, SlsEventProofs, FiniteSetTheorems, TLAPS

-----------------------------------------------------------------------------
(* SlsLayer                                                                *)

Looping == {"telling", "waiting", "joining", "reporting"}

Ended(s) == worker[s] \in {"end", "gone"}

(* The sinks are spawned in order, and events come only when all are.      *)
BuildInv ==
  /\ Spawned = 1..Cardinality(Spawned)
  /\ Cardinality(Spawned) \in 0..Len(Specs)
  /\ \A s \in Sink : handle[s] = "none" <=> worker[s] = "none"
  /\ build = "built" => Spawned = Sink /\ guard # "none"
  /\ guard = "held" => build = "built"

(* A worker that has ended is heard of, and has closed its queue unless it *)
(* panicked.                                                               *)
WorkersInv ==
  \A s \in Sink :
    /\ Ended(s) => done[s]
    /\ worker[s] = "drain" \/ (Ended(s) /\ s \notin panicked) => closed[s]

EventsInv ==
  \A e \in Event :
    /\ sinkOf[e] # 0 => build = "built"
    /\ fate[e] \in {"fresh", "ignored"} => sinkOf[e] = 0
    /\ sinkOf[e] \in Sink \ panicked /\ Ended(sinkOf[e]) => fate[e] # "accepted"

(* How far the three loops are, and what they have left behind.            *)
LoopsInv ==
  /\ guard \in {"none", "held"} => at = 1
  /\ guard \in Looping => at \in Spawned
  /\ guard \in {"none", "held", "telling"} => \A s \in Sink : handle[s] \in {"none", "held"}
  /\ guard = "telling" => \A t \in Spawned : t < at => told[t]
  /\ guard \in {"waiting", "joining"} => \A t \in Spawned : t < at => handle[t] # "held"
  /\ guard \in {"waiting", "joining", "reporting", "returned"} => \A t \in Spawned : told[t]
  /\ guard \in {"reporting", "returned"} => \A t \in Spawned : handle[t] # "held"

HandlesInv ==
  \A s \in Sink :
    /\ handle[s] = "joined" => worker[s] = "gone"
    /\ handle[s] = "abandoned" => timedOut /\ expired /\ \A t \in Spawned : told[t]

(* What the report has, of the sinks its loop has passed.                  *)
ReportInv ==
  guard \in {"reporting", "returned"} /\ ~timedOut =>
    \A e \in Event :
      /\ sinkOf[e] \in Sink \ panicked
      /\ fate[e] \in {"queue_full", "lost"}
      /\ guard = "returned" \/ sinkOf[e] < at
      => e \in reported

LayerInv ==
  TypeOK /\ BuildInv /\ WorkersInv /\ EventsInv /\ LoopsInv /\ HandlesInv /\ ReportInv

LEMMA SinksAreNumbers ==
  /\ Len(Specs) \in Nat \ {0} /\ Sink = 1..Len(Specs)
  /\ 1 \in Sink /\ 0 \in 0..Len(Specs) /\ Sink \subseteq 0..Len(Specs)
BY LayerAssumption DEF LayerAssumption, Sink

LEMMA FirstGrows == \A n \in Nat : 1..(n + 1) = (1..n) \cup {n + 1}
OBVIOUS

LEMMA CountOfFirst ==
  ASSUME NEW n \in Nat
  PROVE  Cardinality(1..n) = n
BY FS_Interval

(* A sink that is spawned and not yet passed.                              *)
LEMMA SpawnedUpTo ==
  ASSUME BuildInv, NEW s \in Sink
  PROVE  /\ Cardinality(Spawned) \in Nat
         /\ s \in Spawned <=> s <= Cardinality(Spawned)
         /\ s \in Spawned <=> worker[s] # "none"
BY SinksAreNumbers DEF BuildInv, Spawned

LEMMA InitLayerInv == Init => LayerInv
<1> SUFFICES ASSUME Init PROVE LayerInv
  OBVIOUS
<1>1. TypeOK
  <2>1. routing \in [Level -> 0..Len(Specs)] /\ at \in Sink /\ sinkOf \in [Event -> 0..Len(Specs)]
    BY SinksAreNumbers DEF Init
  <2> QED
    BY <2>1 DEF Init, TypeOK, Fates
<1>2. Spawned = {} /\ Cardinality(Spawned) = 0
  BY FS_EmptySet DEF Init, Spawned
<1>3. BuildInv
  BY <1>2, SinksAreNumbers DEF Init, BuildInv
<1>4. WorkersInv /\ EventsInv
  BY DEF Init, WorkersInv, EventsInv, Ended
<1>5. LoopsInv /\ HandlesInv /\ ReportInv
  BY DEF Init, LoopsInv, HandlesInv, ReportInv, Looping
<1> QED
  BY <1>1, <1>3, <1>4, <1>5 DEF LayerInv

-----------------------------------------------------------------------------
(* SlsLayerBuilder::build                                                  *)

LEMMA SpawnSinkInv ==
  ASSUME LayerInv, SpawnSink
  PROVE  LayerInv'
<1>1. PICK s \in Sink :
        /\ s = Cardinality(Spawned) + 1
        /\ worker' = [worker EXCEPT ![s] = "boot"]
        /\ handle' = [handle EXCEPT ![s] = "held"]
        /\ AssignRoutes(s)
  BY DEF SpawnSink
<1>2. /\ TypeOK /\ BuildInv /\ WorkersInv /\ EventsInv /\ LoopsInv /\ HandlesInv
      /\ guard = "none" /\ build = "building"
      /\ UNCHANGED <<build, panicked, closed, told, done, guard, at, expired, timedOut,
                     reported, eventVars>>
  BY DEF SpawnSink, LayerInv
<1>3. s \notin Spawned /\ worker[s] = "none"
  BY <1>1, <1>2, SpawnedUpTo
<1>4. TypeOK'
  BY <1>1, <1>2, SinksAreNumbers DEF TypeOK, AssignRoutes, eventVars
<1>5. Spawned' = Spawned \cup {s}
  BY <1>1, <1>2 DEF Spawned, TypeOK
<1>6. Spawned' = 1..s /\ Cardinality(Spawned') = s
  <2>1. s \in Nat /\ Cardinality(Spawned) \in Nat /\ Spawned = 1..Cardinality(Spawned)
    BY <1>1, <1>2, SinksAreNumbers DEF BuildInv
  <2>2. Spawned' = 1..s
    BY <1>1, <1>5, <2>1, FirstGrows
  <2> QED
    BY <2>1, <2>2, CountOfFirst
<1>7. BuildInv'
  BY <1>1, <1>2, <1>6, SinksAreNumbers DEF BuildInv, TypeOK
<1>8. WorkersInv'
  BY <1>1, <1>2, <1>3 DEF WorkersInv, Ended, TypeOK
<1>9. EventsInv'
  BY <1>1, <1>2, <1>3 DEF EventsInv, Ended, TypeOK, eventVars
<1>10. LoopsInv'
  BY <1>1, <1>2 DEF LoopsInv, Looping, TypeOK
<1>11. HandlesInv'
  BY <1>1, <1>2, <1>3 DEF LoopsInv, HandlesInv, TypeOK
<1>12. ReportInv'
  BY <1>2 DEF ReportInv
<1> QED
  BY <1>4, <1>7, <1>8, <1>9, <1>10, <1>11, <1>12 DEF LayerInv

LEMMA SpawnFailsInv ==
  ASSUME LayerInv, SpawnFails
  PROVE  LayerInv'
<1>1. /\ TypeOK /\ BuildInv /\ WorkersInv /\ EventsInv /\ LoopsInv /\ HandlesInv
      /\ guard = "none" /\ build = "building" /\ at = 1
      /\ UNCHANGED <<routing, workerVars, told, handle, at, expired, timedOut, reported,
                     eventVars>>
      /\ \/ Spawned = {} /\ build' = "failed" /\ guard' = "returned"
         \/ Spawned # {} /\ guard' = "telling" /\ build' = build
  BY DEF SpawnFails, LayerInv, LoopsInv
<1>2. Spawned' = Spawned
  BY <1>1 DEF Spawned, workerVars
<1>3. TypeOK'
  BY <1>1 DEF TypeOK, workerVars, eventVars
<1>4. BuildInv'
  BY <1>1, <1>2 DEF BuildInv, workerVars
<1>5. WorkersInv' /\ EventsInv'
  BY <1>1 DEF WorkersInv, EventsInv, Ended, workerVars, eventVars
<1>6. Spawned # {} => 1 \in Spawned
  BY <1>1, SinksAreNumbers DEF BuildInv
<1>7. LoopsInv'
  BY <1>1, <1>2, <1>6, SinksAreNumbers DEF LoopsInv, Looping, Spawned
<1>8. HandlesInv'
  BY <1>1, <1>2 DEF HandlesInv, workerVars
<1>9. \A e \in Event : sinkOf[e] = 0
  BY <1>1 DEF EventsInv, TypeOK
<1>10. ReportInv'
  BY <1>1, <1>9, SinksAreNumbers DEF ReportInv, workerVars, eventVars
<1> QED
  BY <1>3, <1>4, <1>5, <1>7, <1>8, <1>10 DEF LayerInv

LEMMA BuildReturnsInv ==
  ASSUME LayerInv, BuildReturns
  PROVE  LayerInv'
<1>1. /\ TypeOK /\ BuildInv /\ WorkersInv /\ EventsInv /\ LoopsInv /\ HandlesInv
      /\ guard = "none" /\ build = "building" /\ Spawned = Sink
      /\ guard' = "held" /\ build' = "built"
      /\ UNCHANGED <<routing, workerVars, told, handle, at, expired, timedOut, reported,
                     eventVars>>
  BY DEF BuildReturns, LayerInv
<1>2. Spawned' = Spawned
  BY <1>1 DEF Spawned, workerVars
<1>3. TypeOK'
  BY <1>1 DEF TypeOK, workerVars, eventVars
<1>4. BuildInv'
  BY <1>1, <1>2 DEF BuildInv, workerVars
<1>5. WorkersInv' /\ EventsInv'
  BY <1>1 DEF WorkersInv, EventsInv, Ended, workerVars, eventVars
<1>6. LoopsInv'
  BY <1>1, <1>2 DEF LoopsInv, Looping
<1>7. HandlesInv' /\ ReportInv'
  BY <1>1, <1>2 DEF HandlesInv, ReportInv, workerVars
<1> QED
  BY <1>3, <1>4, <1>5, <1>6, <1>7 DEF LayerInv

-----------------------------------------------------------------------------
(* Events and workers change what the report counts only where a worker    *)
(* may still panic, run or have its queue open.                            *)

(* Once the report is being made without a timeout, all workers are gone.  *)
LEMMA ReportFindsGone ==
  ASSUME LayerInv, guard \in {"reporting", "returned"}, ~timedOut, NEW s \in Spawned
  PROVE  worker[s] = "gone" /\ (s \notin panicked => closed[s])
<1>1. s \in Sink /\ worker[s] # "none"
  BY DEF Spawned
<1>2. handle[s] \in {"none", "held", "joined", "abandoned"} /\ handle[s] # "none"
  BY <1>1 DEF LayerInv, TypeOK, BuildInv
<1>3. handle[s] # "held" /\ handle[s] # "abandoned"
  BY <1>1 DEF LayerInv, LoopsInv, HandlesInv
<1>4. worker[s] = "gone"
  BY <1>1, <1>2, <1>3 DEF LayerInv, HandlesInv
<1> QED
  BY <1>1, <1>4 DEF LayerInv, WorkersInv, Ended

(* A step of the application changes no event but its own and those of a   *)
(* sink that is open.                                                      *)
EventsOnly == UNCHANGED <<buildVars, workerVars, guardVars>>

LEMMA EventsOnlyInv ==
  ASSUME LayerInv, EventsOnly, TypeOK',
         EventsInv', ReportInv'
  PROVE  LayerInv'
<1>1. Spawned' = Spawned
  BY DEF EventsOnly, workerVars, Spawned
<1>2. BuildInv' /\ WorkersInv' /\ LoopsInv' /\ HandlesInv'
  BY <1>1 DEF LayerInv, BuildInv, WorkersInv, LoopsInv, HandlesInv, Looping, Ended,
              EventsOnly, buildVars, workerVars, guardVars
<1> QED
  BY <1>2 DEF LayerInv

LEMMA IgnoreInv ==
  ASSUME LayerInv, NEW e \in Event, Ignore(e)
  PROVE  LayerInv'
<1>1. /\ EventsOnly /\ fate[e] = "fresh" /\ sinkOf' = sinkOf
      /\ fate' = [fate EXCEPT ![e] = "ignored"]
  BY DEF Ignore, EventsOnly
<1>2. TypeOK'
  BY <1>1 DEF LayerInv, TypeOK, Fates, EventsOnly, buildVars, workerVars, guardVars
<1>3. EventsInv'
  BY <1>1 DEF LayerInv, TypeOK, EventsInv, Ended, EventsOnly, buildVars, workerVars, guardVars
<1>4. ReportInv'
  BY <1>1 DEF LayerInv, TypeOK, ReportInv, EventsOnly, buildVars, workerVars, guardVars
<1> QED
  BY <1>1, <1>2, <1>3, <1>4, EventsOnlyInv

LEMMA CountRefusedInv ==
  ASSUME LayerInv, NEW e \in Event, CountRefused(e)
  PROVE  LayerInv'
<1>1. /\ EventsOnly /\ fate[e] = "refusing" /\ sinkOf' = sinkOf
      /\ fate' = [fate EXCEPT ![e] = "worker_closed"]
  BY DEF CountRefused, EventsOnly
<1>2. TypeOK'
  BY <1>1 DEF LayerInv, TypeOK, Fates, EventsOnly, buildVars, workerVars, guardVars
<1>3. EventsInv'
  BY <1>1 DEF LayerInv, TypeOK, EventsInv, Ended, EventsOnly, buildVars, workerVars, guardVars
<1>4. ReportInv'
  BY <1>1 DEF LayerInv, TypeOK, ReportInv, EventsOnly, buildVars, workerVars, guardVars
<1> QED
  BY <1>1, <1>2, <1>3, <1>4, EventsOnlyInv

LEMMA RefuseInv ==
  ASSUME LayerInv, NEW e \in Event, NEW s \in Sink, Refuse(e, s)
  PROVE  LayerInv'
<1>1. /\ EventsOnly /\ fate[e] = "fresh" /\ build = "built"
      /\ sinkOf' = [sinkOf EXCEPT ![e] = s]
      /\ fate' = [fate EXCEPT ![e] = "refusing"]
  BY DEF Refuse, Routed, EventsOnly
<1>2. TypeOK'
  BY <1>1, SinksAreNumbers
  DEF LayerInv, TypeOK, Fates, EventsOnly, buildVars, workerVars, guardVars
<1>3. EventsInv'
  BY <1>1 DEF LayerInv, TypeOK, EventsInv, Ended, EventsOnly, buildVars, workerVars, guardVars
<1>4. ReportInv'
  BY <1>1 DEF LayerInv, TypeOK, ReportInv, EventsOnly, buildVars, workerVars, guardVars
<1> QED
  BY <1>1, <1>2, <1>3, <1>4, EventsOnlyInv

LEMMA AcceptInv ==
  ASSUME LayerInv, NEW e \in Event, NEW s \in Sink, Accept(e, s)
  PROVE  LayerInv'
<1>1. /\ EventsOnly /\ fate[e] = "fresh" /\ build = "built" /\ ~closed[s]
      /\ sinkOf' = [sinkOf EXCEPT ![e] = s]
      /\ fate' = [fate EXCEPT ![e] = "accepted"]
  BY DEF Accept, Routed, EventsOnly
<1>2. TypeOK'
  BY <1>1, SinksAreNumbers
  DEF LayerInv, TypeOK, Fates, EventsOnly, buildVars, workerVars, guardVars
<1>3. Ended(s) => s \in panicked
  BY <1>1 DEF LayerInv, WorkersInv
<1>4. EventsInv'
  BY <1>1, <1>3
  DEF LayerInv, TypeOK, EventsInv, Ended, EventsOnly, buildVars, workerVars, guardVars
<1>5. ReportInv'
  BY <1>1 DEF LayerInv, TypeOK, ReportInv, EventsOnly, buildVars, workerVars, guardVars
<1> QED
  BY <1>1, <1>2, <1>4, <1>5, EventsOnlyInv

LEMMA OverflowInv ==
  ASSUME LayerInv, NEW e \in Event, NEW s \in Sink, Overflow(e, s)
  PROVE  LayerInv'
<1>1. /\ EventsOnly /\ fate[e] = "fresh" /\ build = "built" /\ ~closed[s]
      /\ sinkOf' = [sinkOf EXCEPT ![e] = s]
  BY DEF Overflow, Routed, EventsOnly
<1>2. PICK v \in Accepted(s) \cup {e} :
        fate' = [fate EXCEPT ![e] = "accepted", ![v] = "queue_full"]
  BY DEF Overflow
<1>3. /\ v \in Event /\ sinkOf'[v] = s
      /\ \A d \in Event \ {e, v} : fate'[d] = fate[d] /\ sinkOf'[d] = sinkOf[d]
      /\ sinkOf'[e] = s
  BY <1>1, <1>2 DEF LayerInv, TypeOK, Accepted
<1>4. TypeOK'
  <2>1. fate' \in [Event -> Fates] /\ sinkOf' \in [Event -> 0..Len(Specs)]
    BY <1>1, <1>2, <1>3, SinksAreNumbers DEF LayerInv, TypeOK, Fates
  <2> QED
    BY <1>1, <2>1 DEF LayerInv, TypeOK, EventsOnly, buildVars, workerVars, guardVars
<1>5. Ended(s) => s \in panicked
  BY <1>1 DEF LayerInv, WorkersInv
<1>6. fate'[e] \in {"accepted", "queue_full"} /\ fate'[v] = "queue_full"
  BY <1>2, <1>3 DEF LayerInv, TypeOK
<1>7. EventsInv'
  <2>1. /\ UNCHANGED <<build, worker, panicked>>
        /\ \A d \in {e, v} : sinkOf'[d] = s /\ fate'[d] \in {"accepted", "queue_full"}
    BY <1>1, <1>3, <1>6 DEF EventsOnly, buildVars, workerVars
  <2> QED
    BY <1>1, <1>3, <1>5, <2>1 DEF LayerInv, EventsInv, Ended
<1>8. ReportInv'
  <2>1. SUFFICES ASSUME guard \in {"reporting", "returned"}, ~timedOut
                 PROVE  s \in panicked
    BY <1>1, <1>3, <2>1
    DEF LayerInv, ReportInv, EventsOnly, workerVars, guardVars
  <2>2. s \in Spawned
    BY <1>1 DEF LayerInv, BuildInv
  <2> QED
    BY <1>1, <2>1, <2>2, ReportFindsGone
<1> QED
  BY <1>1, <1>4, <1>7, <1>8, EventsOnlyInv

-----------------------------------------------------------------------------
(* The workers                                                             *)

WorkersOnly == UNCHANGED <<buildVars, guardVars, sinkOf>>

(* A worker moves: no handle is joined yet that could be this one's, and   *)
(* no report without a timeout is being made.                              *)
LEMMA WorkersOnlyInv ==
  ASSUME LayerInv, NEW s \in Sink, WorkersOnly, worker[s] \notin {"none", "gone"},
         NEW w \in {"run", "drain", "end", "gone"}, GoTo(s, w),
         TypeOK', WorkersInv', EventsInv'
  PROVE  LayerInv'
<1>1. /\ worker' = [worker EXCEPT ![s] = w]
      /\ UNCHANGED <<build, routing, told, handle, guard, at, expired, timedOut, reported>>
  BY DEF GoTo, WorkersOnly, buildVars, guardVars
<1>2. Spawned' = Spawned /\ s \in Spawned
  BY <1>1 DEF Spawned, LayerInv, TypeOK
<1>3. BuildInv'
  BY <1>1, <1>2 DEF LayerInv, TypeOK, BuildInv
<1>4. LoopsInv'
  BY <1>1, <1>2 DEF LayerInv, LoopsInv, Looping
<1>5. HandlesInv'
  BY <1>1, <1>2 DEF LayerInv, TypeOK, HandlesInv
<1>6. ~(guard' \in {"reporting", "returned"} /\ ~timedOut')
  BY <1>1, <1>2, ReportFindsGone
<1>7. ReportInv'
  BY <1>6 DEF ReportInv
<1> QED
  BY <1>3, <1>4, <1>5, <1>7 DEF LayerInv

LEMMA StartRuntimeInv ==
  ASSUME LayerInv, NEW s \in Sink, StartRuntime(s)
  PROVE  LayerInv'
<1>1. /\ WorkersOnly /\ worker[s] = "boot" /\ GoTo(s, "run")
      /\ UNCHANGED <<panicked, closed, done, fate>>
  BY DEF StartRuntime, WorkersOnly, eventVars
<1>2. TypeOK'
  BY <1>1 DEF LayerInv, TypeOK, GoTo, WorkersOnly, buildVars, guardVars
<1>3. WorkersInv' /\ EventsInv'
  BY <1>1 DEF LayerInv, TypeOK, WorkersInv, EventsInv, Ended, GoTo, WorkersOnly, buildVars
<1> QED
  BY <1>1, <1>2, <1>3, WorkersOnlyInv

LEMMA RuntimeFailsInv ==
  ASSUME LayerInv, NEW s \in Sink, RuntimeFails(s)
  PROVE  LayerInv'
<1>1. /\ WorkersOnly /\ worker[s] = "boot" /\ GoTo(s, "end")
      /\ closed' = [closed EXCEPT ![s] = TRUE]
      /\ done' = [done EXCEPT ![s] = TRUE]
      /\ fate' = [e \in Event |-> IF e \in Accepted(s) THEN "lost" ELSE fate[e]]
      /\ panicked' = panicked
  BY DEF RuntimeFails, EndRun, WorkersOnly
<1>2. TypeOK'
  BY <1>1 DEF LayerInv, TypeOK, Fates, GoTo, WorkersOnly, buildVars, guardVars
<1>3. WorkersInv'
  BY <1>1 DEF LayerInv, TypeOK, WorkersInv, Ended, GoTo
<1>4. EventsInv'
  BY <1>1 DEF LayerInv, TypeOK, EventsInv, Accepted, Ended, GoTo, WorkersOnly, buildVars
<1> QED
  BY <1>1, <1>2, <1>3, <1>4, WorkersOnlyInv

LEMMA SettleInv ==
  ASSUME LayerInv, NEW s \in Sink, Settle(s)
  PROVE  LayerInv'
<1>1. PICK e \in Accepted(s), f \in {"sent", "lost"} : fate' = [fate EXCEPT ![e] = f]
  BY DEF Settle
<1>2. /\ WorkersOnly /\ worker[s] \in {"run", "drain"}
      /\ UNCHANGED workerVars
      /\ e \in Event /\ fate[e] = "accepted" /\ sinkOf[e] = s
  BY <1>1 DEF Settle, WorkersOnly, Accepted
<1>3. GoTo(s, worker[s])
  BY <1>2 DEF GoTo, workerVars, LayerInv, TypeOK
<1>4. TypeOK'
  BY <1>1, <1>2 DEF LayerInv, TypeOK, Fates, WorkersOnly, workerVars, buildVars, guardVars
<1>5. WorkersInv' /\ EventsInv'
  BY <1>1, <1>2
  DEF LayerInv, TypeOK, WorkersInv, EventsInv, Ended, WorkersOnly, workerVars, buildVars
<1> QED
  BY <1>2, <1>3, <1>4, <1>5, WorkersOnlyInv

LEMMA CloseInv ==
  ASSUME LayerInv, NEW s \in Sink, Close(s)
  PROVE  LayerInv'
<1>1. /\ WorkersOnly /\ worker[s] = "run" /\ GoTo(s, "drain")
      /\ closed' = [closed EXCEPT ![s] = TRUE]
      /\ UNCHANGED <<panicked, done, fate>>
  BY DEF Close, WorkersOnly, eventVars
<1>2. TypeOK'
  BY <1>1 DEF LayerInv, TypeOK, GoTo, WorkersOnly, buildVars, guardVars
<1>3. WorkersInv' /\ EventsInv'
  BY <1>1 DEF LayerInv, TypeOK, WorkersInv, EventsInv, Ended, GoTo, WorkersOnly, buildVars
<1> QED
  BY <1>1, <1>2, <1>3, WorkersOnlyInv

LEMMA FinishInv ==
  ASSUME LayerInv, NEW s \in Sink, Finish(s)
  PROVE  LayerInv'
<1>1. /\ WorkersOnly /\ worker[s] = "drain" /\ GoTo(s, "end") /\ Accepted(s) = {}
      /\ done' = [done EXCEPT ![s] = TRUE]
      /\ UNCHANGED <<panicked, closed, fate>>
  BY DEF Finish, EndRun, WorkersOnly, eventVars
<1>2. TypeOK'
  BY <1>1 DEF LayerInv, TypeOK, GoTo, WorkersOnly, buildVars, guardVars
<1>3. WorkersInv'
  BY <1>1 DEF LayerInv, TypeOK, WorkersInv, Ended, GoTo
<1>4. EventsInv'
  BY <1>1 DEF LayerInv, TypeOK, EventsInv, Accepted, Ended, GoTo, WorkersOnly, buildVars
<1> QED
  BY <1>1, <1>2, <1>3, <1>4, WorkersOnlyInv

LEMMA PanicInv ==
  ASSUME LayerInv, NEW s \in Sink, Panic(s)
  PROVE  LayerInv'
<1>1. /\ WorkersOnly /\ worker[s] \in {"run", "drain"} /\ GoTo(s, "end")
      /\ panicked' = panicked \cup {s}
      /\ done' = [done EXCEPT ![s] = TRUE]
      /\ UNCHANGED <<closed, fate>>
  BY DEF Panic, EndRun, WorkersOnly, eventVars
<1>2. TypeOK'
  BY <1>1 DEF LayerInv, TypeOK, GoTo, WorkersOnly, buildVars, guardVars
<1>3. WorkersInv'
  BY <1>1 DEF LayerInv, TypeOK, WorkersInv, Ended, GoTo
<1>4. EventsInv'
  BY <1>1 DEF LayerInv, TypeOK, EventsInv, Ended, GoTo, WorkersOnly, buildVars
<1> QED
  BY <1>1, <1>2, <1>3, <1>4, WorkersOnlyInv

LEMMA ExitInv ==
  ASSUME LayerInv, NEW s \in Sink, Exit(s)
  PROVE  LayerInv'
<1>1. /\ WorkersOnly /\ worker[s] = "end" /\ GoTo(s, "gone")
      /\ UNCHANGED <<panicked, closed, done, fate>>
  BY DEF Exit, WorkersOnly, eventVars
<1>2. TypeOK'
  BY <1>1 DEF LayerInv, TypeOK, GoTo, WorkersOnly, buildVars, guardVars
<1>3. WorkersInv' /\ EventsInv'
  BY <1>1 DEF LayerInv, TypeOK, WorkersInv, EventsInv, Ended, GoTo, WorkersOnly, buildVars
<1> QED
  BY <1>1, <1>2, <1>3, WorkersOnlyInv

-----------------------------------------------------------------------------
(* The guard                                                               *)

GuardOnly == UNCHANGED <<routing, workerVars, eventVars>>

LEMMA GuardOnlyInv ==
  ASSUME LayerInv, GuardOnly, TypeOK',
         build' = build \/ (build = "building" /\ build' = "failed"),
         guard \notin {"none"}, guard' \notin {"none", "held"},
         \A s \in Sink : handle'[s] = "none" <=> handle[s] = "none",
         LoopsInv', HandlesInv', ReportInv'
  PROVE  LayerInv'
<1>1. Spawned' = Spawned /\ UNCHANGED <<worker, panicked, closed, done, fate, sinkOf>>
  BY DEF GuardOnly, workerVars, eventVars, Spawned
<1>2. BuildInv'
  BY <1>1 DEF LayerInv, BuildInv
<1>3. WorkersInv' /\ EventsInv'
  BY <1>1 DEF LayerInv, WorkersInv, EventsInv, Ended
<1> QED
  BY <1>2, <1>3 DEF LayerInv

(* The next sink of a loop, or the end of the loop after the last one.     *)
LEMMA AdvanceSteps ==
  ASSUME BuildInv, at \in Spawned, NEW here, NEW next, Advance(here, next)
  PROVE  /\ at' \in Spawned
         /\ \/ at' = at + 1 /\ guard' = here
            \/ at' = 1 /\ guard' = next /\ \A t \in Spawned : t <= at
<1>1. /\ Cardinality(Spawned) \in Nat /\ Spawned = 1..Cardinality(Spawned)
      /\ at \in 1..Cardinality(Spawned)
  BY SinksAreNumbers DEF BuildInv
<1>2. CASE at < Cardinality(Spawned)
  <2>1. at' = at + 1 /\ guard' = here
    BY <1>2 DEF Advance
  <2> QED
    BY <1>1, <1>2, <2>1
<1>3. CASE ~(at < Cardinality(Spawned))
  <2>1. at' = 1 /\ guard' = next
    BY <1>3 DEF Advance
  <2>2. 1 \in 1..Cardinality(Spawned)
    BY <1>1
  <2> QED
    BY <1>1, <1>3, <2>1, <2>2
<1> QED
  BY <1>2, <1>3

LEMMA SpawnedAreNumbers == Spawned \subseteq Sink /\ Spawned \subseteq Nat
BY SinksAreNumbers DEF Spawned

LEMMA DropGuardInv ==
  ASSUME LayerInv, DropGuard
  PROVE  LayerInv'
<1>1. /\ GuardOnly /\ guard = "held" /\ guard' = "telling" /\ build = "built"
      /\ UNCHANGED <<told, handle, at, expired, timedOut, reported, build>>
  BY DEF DropGuard, GuardOnly, buildVars, LayerInv, BuildInv
<1>2. TypeOK'
  BY <1>1 DEF LayerInv, TypeOK, GuardOnly, workerVars, eventVars
<1>3. Spawned' = Spawned /\ Spawned = Sink /\ at = 1 /\ 1 \in Spawned
  BY <1>1, SinksAreNumbers DEF LayerInv, BuildInv, LoopsInv, GuardOnly, workerVars, Spawned
<1>4. LoopsInv'
  <2>1. \A t \in Spawned : ~(t < 1)
    BY SinksAreNumbers, SpawnedAreNumbers
  <2> QED
    BY <1>1, <1>3, <2>1 DEF LayerInv, LoopsInv, Looping
<1>5. HandlesInv' /\ ReportInv'
  BY <1>1, <1>3 DEF LayerInv, HandlesInv, ReportInv, GuardOnly, workerVars
<1> QED
  BY <1>1, <1>2, <1>4, <1>5, GuardOnlyInv

LEMMA TellInv ==
  ASSUME LayerInv, Tell
  PROVE  LayerInv'
<1>1. /\ GuardOnly /\ guard = "telling" /\ at \in Spawned
      /\ told' = [told EXCEPT ![at] = TRUE]
      /\ Advance("telling", "waiting")
      /\ UNCHANGED <<handle, expired, timedOut, reported, build>>
  BY DEF Tell, GuardOnly, buildVars, LayerInv, LoopsInv, Looping
<1>2. /\ at' \in Spawned
      /\ \/ at' = at + 1 /\ guard' = "telling"
         \/ at' = 1 /\ guard' = "waiting" /\ \A t \in Spawned : t <= at
  BY <1>1, AdvanceSteps DEF LayerInv
<1>3. Spawned' = Spawned /\ \A t \in Spawned : t \in Nat /\ t \in Sink
  BY <1>1, SpawnedAreNumbers DEF GuardOnly, workerVars, Spawned
<1>4. TypeOK'
  BY <1>1, <1>2, <1>3 DEF LayerInv, TypeOK, GuardOnly, workerVars, eventVars
<1>5. \A t \in Spawned : t <= at => told'[t]
  BY <1>1, <1>3 DEF LayerInv, TypeOK, LoopsInv
<1>6. guard' = "telling" => \A t \in Spawned : t < at' => told'[t]
  BY <1>1, <1>2, <1>3, <1>5
<1>7. guard' = "waiting" => \A t \in Spawned : told'[t] /\ ~(t < at')
  BY <1>2, <1>3, <1>5, SinksAreNumbers
<1>8. LoopsInv'
  BY <1>1, <1>2, <1>3, <1>6, <1>7 DEF LayerInv, LoopsInv, Looping
<1>9. HandlesInv' /\ ReportInv'
  BY <1>1, <1>2, <1>3
  DEF LayerInv, LoopsInv, HandlesInv, ReportInv, GuardOnly, workerVars
<1> QED
  BY <1>1, <1>2, <1>4, <1>8, <1>9, GuardOnlyInv

LEMMA DeadlinePassesInv ==
  ASSUME LayerInv, DeadlinePasses
  PROVE  LayerInv'
<1>1. /\ GuardOnly /\ guard \in {"waiting", "joining"} /\ expired'
      /\ expired' \in BOOLEAN
      /\ UNCHANGED <<told, handle, guard, at, timedOut, reported, build>>
  BY DEF DeadlinePasses, GuardOnly, buildVars
<1>2. Spawned' = Spawned
  BY <1>1 DEF GuardOnly, workerVars, Spawned
<1>3. TypeOK'
  BY <1>1 DEF LayerInv, TypeOK, GuardOnly, workerVars, eventVars
<1>4. LoopsInv' /\ HandlesInv' /\ ReportInv'
  BY <1>1, <1>2
  DEF LayerInv, LoopsInv, Looping, HandlesInv, ReportInv, GuardOnly, workerVars
<1> QED
  BY <1>1, <1>3, <1>4, GuardOnlyInv

LEMMA HearDoneInv ==
  ASSUME LayerInv, HearDone
  PROVE  LayerInv'
<1>1. /\ GuardOnly /\ guard = "waiting" /\ guard' = "joining"
      /\ UNCHANGED <<told, handle, at, expired, timedOut, reported, build>>
  BY DEF HearDone, GuardOnly, buildVars
<1>2. Spawned' = Spawned
  BY <1>1 DEF GuardOnly, workerVars, Spawned
<1>3. TypeOK'
  BY <1>1 DEF LayerInv, TypeOK, GuardOnly, workerVars, eventVars
<1>4. LoopsInv' /\ HandlesInv' /\ ReportInv'
  BY <1>1, <1>2
  DEF LayerInv, LoopsInv, Looping, HandlesInv, ReportInv, GuardOnly, workerVars
<1> QED
  BY <1>1, <1>3, <1>4, GuardOnlyInv

(* Join and GiveUp: the handle at hand is settled, and the loop goes on.   *)
LEMMA PassHandle ==
  ASSUME LayerInv, GuardOnly, guard \in {"waiting", "joining"},
         NEW how \in {"joined", "abandoned"}, handle' = [handle EXCEPT ![at] = how],
         Advance("waiting", "reporting"),
         UNCHANGED <<told, expired, reported, build>>, timedOut' \in BOOLEAN,
         timedOut => timedOut',
         how = "joined" => worker[at] = "gone",
         how = "abandoned" => timedOut' /\ expired
  PROVE  LayerInv'
<1>1. at \in Spawned /\ at \in Sink
  BY SpawnedAreNumbers DEF LayerInv, LoopsInv, Looping
<1>2. /\ at' \in Spawned
      /\ \/ at' = at + 1 /\ guard' = "waiting"
         \/ at' = 1 /\ guard' = "reporting" /\ \A t \in Spawned : t <= at
  BY <1>1, AdvanceSteps DEF LayerInv
<1>3. Spawned' = Spawned /\ \A t \in Spawned : t \in Nat /\ t \in Sink
  BY SpawnedAreNumbers DEF GuardOnly, workerVars, Spawned
<1>4. TypeOK'
  BY <1>1, <1>2, <1>3 DEF LayerInv, TypeOK, GuardOnly, workerVars, eventVars
<1>5. \A t \in Spawned : told[t] /\ (t <= at => handle'[t] # "held")
  <2>1. \A t \in Spawned : t <= at => t = at \/ t < at
    BY <1>1, <1>3
  <2> QED
    BY <1>1, <1>3, <2>1 DEF LayerInv, TypeOK, LoopsInv
<1>6. guard' = "waiting" => \A t \in Spawned : t < at' => handle'[t] # "held"
  BY <1>1, <1>2, <1>3, <1>5
<1>7. guard' = "reporting" => \A t \in Spawned : handle'[t] # "held"
  BY <1>2, <1>5
<1>8. LoopsInv'
  BY <1>2, <1>3, <1>5, <1>6, <1>7 DEF LoopsInv, Looping
<1>9. HandlesInv'
  BY <1>1, <1>3, <1>5 DEF LayerInv, TypeOK, HandlesInv, GuardOnly, workerVars
<1>10. ReportInv'
  <2>1. guard' = "reporting" => at' = 1
    BY <1>2
  <2>2. \A e \in Event : sinkOf'[e] \in Sink => ~(sinkOf'[e] < 1)
    BY SinksAreNumbers
  <2> QED
    BY <1>2, <2>1, <2>2 DEF ReportInv
<1>11. \A s \in Sink : handle'[s] = "none" <=> handle[s] = "none"
  BY <1>1 DEF LayerInv, TypeOK, BuildInv, Spawned
<1> QED
  BY <1>2, <1>4, <1>8, <1>9, <1>10, <1>11, GuardOnlyInv

LEMMA JoinInv ==
  ASSUME LayerInv, Join
  PROVE  LayerInv'
<1>1. timedOut \in BOOLEAN
  BY DEF LayerInv, TypeOK
<1> QED
  BY <1>1, PassHandle DEF Join, GuardOnly, buildVars

(* A worker that has ended was heard of, so that only the deadline gives   *)
(* it up.                                                                  *)
LEMMA GiveUpInv ==
  ASSUME LayerInv, GiveUp
  PROVE  LayerInv'
<1>1. at \in Sink
  BY DEF LayerInv, TypeOK
<1>2. expired
  BY <1>1 DEF GiveUp, LayerInv, WorkersInv, Ended
<1> QED
  BY <1>2, PassHandle DEF GiveUp, GuardOnly, buildVars

LEMMA ReportStepInv ==
  ASSUME LayerInv, Report
  PROVE  LayerInv'
<1>1. /\ GuardOnly /\ guard = "reporting" /\ at \in Spawned
      /\ reported' = reported \cup {e \in Event : sinkOf[e] = at /\ fate[e] \in Counted}
      /\ Advance("reporting", "returned")
      /\ build' = build \/ (build = "building" /\ build' = "failed")
      /\ UNCHANGED <<told, handle, expired, timedOut>>
  BY DEF Report, GuardOnly, LayerInv, LoopsInv, Looping
<1>2. /\ at' \in Spawned
      /\ \/ at' = at + 1 /\ guard' = "reporting"
         \/ at' = 1 /\ guard' = "returned" /\ \A t \in Spawned : t <= at
  BY <1>1, AdvanceSteps DEF LayerInv
<1>3. Spawned' = Spawned /\ \A t \in Spawned : t \in Nat /\ t \in Sink
  BY <1>1, SpawnedAreNumbers DEF GuardOnly, workerVars, Spawned
<1>4. TypeOK'
  BY <1>1, <1>2, <1>3 DEF LayerInv, TypeOK, GuardOnly, workerVars, eventVars
<1>5. LoopsInv'
  BY <1>1, <1>2, <1>3 DEF LayerInv, LoopsInv, Looping
<1>6. HandlesInv'
  BY <1>1, <1>3 DEF LayerInv, HandlesInv, GuardOnly, workerVars
<1>7. ReportInv'
  <2> SUFFICES ASSUME ~timedOut, NEW e \in Event,
                      sinkOf[e] \in Sink \ panicked, fate[e] \in {"queue_full", "lost"},
                      guard' = "returned" \/ sinkOf[e] < at'
               PROVE  e \in reported'
    BY <1>1 DEF ReportInv, GuardOnly, workerVars, eventVars
  <2>1. sinkOf[e] \in Spawned
    BY SinksAreNumbers DEF LayerInv, EventsInv, BuildInv
  <2>2. sinkOf[e] < at \/ sinkOf[e] = at
    BY <1>1, <1>2, <1>3, <2>1
  <2>3. CASE sinkOf[e] = at
    BY <1>1, <2>3 DEF Counted
  <2>4. CASE sinkOf[e] < at
    BY <1>1, <2>4 DEF LayerInv, ReportInv
  <2> QED
    BY <2>2, <2>3, <2>4
<1> QED
  BY <1>1, <1>2, <1>4, <1>5, <1>6, <1>7, GuardOnlyInv

-----------------------------------------------------------------------------
LEMMA StutterLayerInv ==
  ASSUME LayerInv, UNCHANGED vars
  PROVE  LayerInv'
<1>1. UNCHANGED <<build, routing, worker, panicked, closed, told, done, handle, guard, at,
                  expired, timedOut, fate, sinkOf, reported>>
  BY DEF vars, buildVars, workerVars, guardVars, eventVars
<1>2. Spawned' = Spawned
  BY <1>1 DEF Spawned
<1>3. TypeOK' /\ BuildInv' /\ WorkersInv' /\ EventsInv'
  BY <1>1, <1>2 DEF LayerInv, TypeOK, BuildInv, WorkersInv, EventsInv, Ended
<1>4. LoopsInv' /\ HandlesInv' /\ ReportInv'
  BY <1>1, <1>2 DEF LayerInv, LoopsInv, Looping, HandlesInv, ReportInv
<1> QED
  BY <1>3, <1>4 DEF LayerInv

LEMMA StepLayerInv ==
  ASSUME LayerInv, [Next]_vars
  PROVE  LayerInv'
<1>1. CASE SpawnSink \/ SpawnFails \/ BuildReturns
  BY <1>1, SpawnSinkInv, SpawnFailsInv, BuildReturnsInv
<1>2. CASE \E e \in Event : EventStep(e)
  BY <1>2, IgnoreInv, CountRefusedInv, AcceptInv, OverflowInv, RefuseInv DEF EventStep
<1>3. CASE \E s \in Sink : WorkerStep(s)
  BY <1>3, StartRuntimeInv, RuntimeFailsInv, SettleInv, CloseInv, FinishInv, PanicInv, ExitInv
  DEF WorkerStep
<1>4. CASE DropGuard \/ GuardStep \/ DeadlinePasses
  BY <1>4, DropGuardInv, TellInv, HearDoneInv, JoinInv, GiveUpInv, ReportStepInv,
     DeadlinePassesInv DEF GuardStep
<1>5. CASE UNCHANGED vars
  BY <1>5, StutterLayerInv
<1> QED
  BY <1>1, <1>2, <1>3, <1>4, <1>5 DEF Next, Finished

LEMMA LayerInvImplies == LayerInv => AbandonedOnlyLate /\ ReportIsComplete
<1> SUFFICES ASSUME LayerInv PROVE AbandonedOnlyLate /\ ReportIsComplete
  OBVIOUS
<1>1. AbandonedOnlyLate
  BY DEF LayerInv, HandlesInv, AbandonedOnlyLate
<1>2. ASSUME guard = "returned", ~timedOut
      PROVE  /\ \A s \in Spawned : worker[s] = "gone"
             /\ \A e \in Event : sinkOf[e] \in Sink \ panicked =>
                  /\ fate[e] # "accepted"
                  /\ fate[e] \in {"queue_full", "lost"} => e \in reported
  <2>1. \A s \in Spawned : worker[s] = "gone"
    BY <1>2, ReportFindsGone
  <2>2. ASSUME NEW e \in Event, sinkOf[e] \in Sink \ panicked
        PROVE  fate[e] # "accepted"
    <3>1. sinkOf[e] \in Spawned
      BY <2>2, SinksAreNumbers DEF LayerInv, EventsInv, BuildInv
    <3> QED
      BY <2>1, <2>2, <3>1 DEF LayerInv, EventsInv, Ended
  <2>3. ASSUME NEW e \in Event, sinkOf[e] \in Sink \ panicked, fate[e] \in {"queue_full", "lost"}
        PROVE  e \in reported
    BY <1>2, <2>3 DEF LayerInv, ReportInv
  <2> QED
    BY <2>1, <2>2, <2>3
<1> QED
  BY <1>1, <1>2 DEF ReportIsComplete

-----------------------------------------------------------------------------
(* No worker is given up before the common deadline, or before every one   *)
(* was told to stop (SlsGuard::shutdown_inner).                            *)
THEOREM GivenUpOnlyLate == Spec => []AbandonedOnlyLate
<1>1. LayerInv /\ [Next]_vars => LayerInv'
  BY StepLayerInv
<1> QED
  BY <1>1, InitLayerInv, LayerInvImplies, PTL DEF Spec

(* A report without a timeout misses no event that was accepted            *)
(* (report_dropped_if_any after the joins of shutdown_inner).              *)
THEOREM NothingUnreported == Spec => []ReportIsComplete
<1>1. LayerInv /\ [Next]_vars => LayerInv'
  BY StepLayerInv
<1> QED
  BY <1>1, InitLayerInv, LayerInvImplies, PTL DEF Spec

-----------------------------------------------------------------------------
(* SlsCredentials                                                          *)

(* While it sleeps, the task wakes early enough for the provider to answer *)
(* before the credentials expire; or the provider did not do its part, and *)
(* the task wakes within the least interval from then.                     *)
Asleep ==
  \/ skewed \/ expiry = Forever
  \/ expiry > wait + Latency
  \/ healthy + wait <= MinInterval

(* While the provider runs.                                                *)
Asking ==
  /\ \/ skewed \/ expiry = Forever
     \/ expiry + running > Latency
     \/ healthy <= MinInterval + running
  /\ running > Latency => healthy = 0

(* A task that has ended left credentials that do not expire.              *)
CredInv ==
  /\ CredTypeOK
  /\ loop = "off" => expiry = Forever
  /\ loop = "sleep" => Asleep
  /\ loop = "provide" => Asking

LEMMA LifetimesAreInts ==
  ASSUME NEW life \in Lifetimes
  PROVE  /\ life \in Int /\ life <= Forever
         /\ AtLeast(life, 0) \in 0..Forever
         /\ life = Forever => AtLeast(life, 0) = Forever
BY CredentialsAssumption DEF AtLeast

LEMMA DelayInTime ==
  ASSUME NEW life \in Lifetimes, interval \in MinInterval..Forever
  PROVE  /\ RefreshDelay(life) \in 0..Forever
         /\ RefreshDelay(life) = Forever => life = Forever
         /\ \/ life = Forever
            \/ AtLeast(life, 0) > RefreshDelay(life) + Latency
            \/ ~Sufficient(life) /\ RefreshDelay(life) <= MinInterval
<1>1. /\ life \in Int /\ life <= Forever /\ Forever \in Nat
      /\ Urgent \in Nat \ {0} /\ MinInterval \in Nat /\ Urgent <= MinInterval
      /\ MinInterval < Forever /\ Ahead \in Nat /\ Latency \in Nat /\ Latency < Ahead
  BY LifetimesAreInts, CredentialsAssumption
<1>2. CASE life = Forever
  BY <1>1, <1>2 DEF RefreshDelay
<1>3. CASE life # Forever /\ AtLeast(life, 0) <= Ahead
  <2>1. RefreshDelay(life) = Urgent
    BY <1>3 DEF RefreshDelay
  <2>2. CASE life > Urgent + Latency
    BY <1>1, <2>1, <2>2 DEF AtLeast
  <2>3. CASE ~(life > Urgent + Latency)
    BY <1>1, <2>1, <2>3 DEF Sufficient
  <2> QED
    BY <1>1, <2>1, <2>2, <2>3
<1>4. CASE life # Forever /\ ~(AtLeast(life, 0) <= Ahead)
  <2>1. RefreshDelay(life) = life - Ahead /\ AtLeast(life, 0) = life /\ life > Ahead
    BY <1>1, <1>4 DEF RefreshDelay, AtLeast
  <2> QED
    BY <1>1, <2>1
<1> QED
  BY <1>2, <1>3, <1>4

LEMMA InitCredInv == CredInit => CredInv
<1> SUFFICES ASSUME CredInit PROVE CredInv
  OBVIOUS
<1>1. interval \in MinInterval..Forever
  BY CredentialsAssumption DEF CredInit, Normalized, AtLeast
<1>2. PICK life \in Lifetimes :
        /\ expiry = AtLeast(life, 0)
        /\ IF RefreshDelay(life) = Forever THEN loop = "off" /\ wait = 0
           ELSE loop = "sleep" /\ wait = RefreshDelay(life)
        /\ healthy = IF Sufficient(life) THEN Recovery + 1 ELSE 0
  BY DEF CredInit
<1>3. Recovery \in Nat /\ Latency \in Nat /\ MinInterval \in Nat
  BY CredentialsAssumption DEF Recovery
<1>4. CredTypeOK
  BY <1>1, <1>2, <1>3, LifetimesAreInts, DelayInTime, CredentialsAssumption
  DEF CredInit, CredTypeOK
<1>5. loop = "off" => expiry = Forever
  BY <1>1, <1>2, LifetimesAreInts, DelayInTime
<1>6. loop = "sleep" => Asleep
  <2>1. /\ life = Forever => expiry = Forever
        /\ \/ life = Forever
           \/ expiry > RefreshDelay(life) + Latency
           \/ healthy = 0 /\ RefreshDelay(life) <= MinInterval
        /\ RefreshDelay(life) \in 0..Forever
    BY <1>1, <1>2, LifetimesAreInts, DelayInTime
  <2> QED
    BY <1>2, <1>3, <2>1, CredentialsAssumption DEF Asleep
<1> QED
  BY <1>2, <1>4, <1>5, <1>6 DEF CredInv

LEMMA RenewCredInv ==
  ASSUME CredInv, NEW life \in Lifetimes, Renew(life)
  PROVE  CredInv'
<1>1. /\ interval \in MinInterval..Forever /\ healthy \in 0..Recovery + 1
      /\ Latency \in Nat /\ MinInterval \in Nat /\ Forever \in Nat /\ Recovery \in Nat
  BY CredentialsAssumption DEF CredInv, CredTypeOK, Recovery
<1>2. /\ expiry' = AtLeast(life, 0) /\ running' = 0 /\ UNCHANGED <<interval, pause>>
      /\ healthy' = IF Sufficient(life) THEN healthy ELSE 0
      /\ \/ RefreshDelay(life) = Forever /\ loop' = "off" /\ wait' = 0
         \/ loop' = "sleep" /\ wait' = RefreshDelay(life)
  BY DEF Renew, Schedule, Sleep
<1>3. CredTypeOK'
  BY <1>1, <1>2, LifetimesAreInts, DelayInTime DEF CredInv, CredTypeOK, Recovery
<1>4. loop' = "off" => expiry' = Forever
  BY <1>1, <1>2, LifetimesAreInts, DelayInTime
<1>5. ASSUME loop' = "sleep"
      PROVE  Asleep'
  <2>1. /\ life = Forever => expiry' = Forever
        /\ \/ life = Forever
           \/ expiry' > wait' + Latency
           \/ healthy' = 0 /\ wait' <= MinInterval
        /\ wait' \in 0..Forever
    BY <1>1, <1>2, <1>5, LifetimesAreInts, DelayInTime
  <2> QED
    BY <1>1, <2>1 DEF Asleep
<1> QED
  BY <1>2, <1>3, <1>4, <1>5 DEF CredInv

LEMMA RenewFailsCredInv ==
  ASSUME CredInv, RenewFails
  PROVE  CredInv'
BY CredentialsAssumption
DEF RenewFails, Sleep, CredInv, CredTypeOK, Asleep, Recovery

LEMMA CallProviderCredInv ==
  ASSUME CredInv, CallProvider
  PROVE  CredInv'
<1>1. /\ expiry \in 0..Forever /\ healthy \in 0..Recovery + 1 /\ wait = 0 /\ running' = 0
      /\ Latency \in Nat /\ MinInterval \in Nat /\ Forever \in Nat /\ Asleep
  BY CredentialsAssumption DEF CallProvider, CredInv, CredTypeOK
<1>2. CredTypeOK'
  BY <1>1 DEF CallProvider, CredInv, CredTypeOK
<1>3. Asking'
  BY <1>1, CredentialsAssumption DEF CallProvider, Asleep, Asking, Recovery
<1> QED
  BY <1>2, <1>3 DEF CallProvider, CredInv

LEMMA AfterIsTime ==
  ASSUME NEW time \in 0..Forever, NEW passed \in Nat
  PROVE  After(time, passed) \in 0..Forever /\ (time = Forever => After(time, passed) = Forever)
BY CredentialsAssumption DEF After, AtLeast

(* One unit moves from one of two terms to the other.                      *)
LEMMA SumIsKept ==
  \A x, y, z, bound \in Nat : x + y <= bound /\ z <= x + 1 => z + (y - 1) <= bound
OBVIOUS

LEMMA PassCredInv ==
  ASSUME CredInv, Pass
  PROVE  CredInv'
<1>1. /\ expiry \in 0..Forever /\ wait \in 0..Forever /\ running \in 0..Latency + 1
      /\ healthy \in 0..Recovery + 1 /\ pause \in 0..MinInterval
      /\ Latency \in Nat /\ MinInterval \in Nat /\ Forever \in Nat
      /\ Recovery = MinInterval + Latency
  BY CredentialsAssumption DEF CredInv, CredTypeOK, Recovery
<1>2. /\ expiry' = After(expiry, 1) /\ expiry' \in 0..Forever
      /\ expiry = Forever => expiry' = Forever
      /\ expiry # Forever => expiry' = IF expiry = 0 THEN 0 ELSE expiry - 1
  BY <1>1, AfterIsTime DEF Pass, After, AtLeast
<1>3. /\ wait' = IF wait = 0 THEN 0 ELSE wait - 1
      /\ running' = IF loop = "provide"
                    THEN IF running = Latency + 1 THEN Latency + 1 ELSE running + 1
                    ELSE 0
      /\ UNCHANGED <<interval, loop, skewed>>
  BY <1>1 DEF Pass, AtLeast, AtMost
<1>4. /\ running' > Latency => healthy' = 0
      /\ healthy' \in 0..healthy + 1 /\ healthy' <= Recovery + 1
      /\ pause' \in 0..MinInterval
  BY <1>1 DEF Pass, AtMost
<1>5. CredTypeOK'
  BY <1>1, <1>2, <1>3, <1>4 DEF CredInv, CredTypeOK
<1>6. loop' = "off" => expiry' = Forever
  BY <1>2, <1>3 DEF CredInv
<1>7. ASSUME loop = "sleep"
      PROVE  Asleep'
  <2>1. wait > 0 /\ wait' = wait - 1 /\ Asleep
    BY <1>1, <1>3, <1>7 DEF Pass, CredInv
  <2>2. CASE expiry # Forever /\ expiry > wait + Latency
    <3>1. expiry' = expiry - 1
      BY <1>1, <1>2, <2>1, <2>2
    <3> QED
      BY <1>1, <2>1, <2>2, <3>1 DEF Asleep
  <2>3. CASE healthy + wait <= MinInterval
    <3>1. /\ healthy \in Nat /\ wait \in Nat /\ wait' = wait - 1
          /\ healthy' \in Nat /\ healthy' <= healthy + 1
          /\ MinInterval \in Nat
      BY <1>1, <1>4, <2>1
    <3>2. healthy' + (wait - 1) <= MinInterval
      BY <2>3, <3>1, SumIsKept
    <3> QED
      BY <3>1, <3>2 DEF Asleep
  <2> QED
    BY <1>2, <1>3, <2>1, <2>2, <2>3 DEF Asleep
<1>8. ASSUME loop = "provide"
      PROVE  Asking'
  <2>1. Asking
    BY <1>8 DEF CredInv
  <2>2. CASE running' > Latency
    <3>1. /\ healthy' = 0 /\ running' \in Nat /\ MinInterval \in Nat
          /\ MinInterval + running' >= 0
      BY <1>1, <1>3, <1>4, <2>2
    <3> QED
      BY <3>1 DEF Asking
  <2>3. CASE ~(running' > Latency)
    <3>1. running' = running + 1
      BY <1>1, <1>3, <1>8, <2>3
    <3>2. CASE skewed \/ expiry = Forever
      BY <1>2, <1>3, <2>3, <3>2 DEF Asking
    <3>3. CASE expiry # Forever /\ expiry + running > Latency
      BY <1>1, <1>2, <2>3, <3>1, <3>3 DEF Asking
    <3>4. CASE healthy <= MinInterval + running
      BY <1>1, <1>4, <2>3, <3>1, <3>4 DEF Asking
    <3> QED
      BY <2>1, <3>2, <3>3, <3>4 DEF Asking
  <2> QED
    BY <2>2, <2>3
<1> QED
  BY <1>3, <1>5, <1>6, <1>7, <1>8 DEF CredInv

LEMMA JumpCredInv ==
  ASSUME CredInv, NEW time \in Jumps, Jump(time)
  PROVE  CredInv'
<1>1. expiry \in 0..Forever /\ time \in Nat
  BY CredentialsAssumption DEF CredInv, CredTypeOK
<1>2. expiry' \in 0..Forever /\ (expiry = Forever => expiry' = Forever)
  BY <1>1, AfterIsTime DEF Jump
<1> QED
  BY <1>2 DEF Jump, CredInv, CredTypeOK, Asleep, Asking

LEMMA StepCredInv ==
  ASSUME CredInv, [CredNext]_credVars
  PROVE  CredInv'
<1>1. CASE UNCHANGED credVars
  BY <1>1 DEF credVars, CredInv, CredTypeOK, Asleep, Asking
<1> QED
  BY <1>1, CallProviderCredInv, RenewCredInv, RenewFailsCredInv, PassCredInv, JumpCredInv
  DEF CredNext

LEMMA CredInvImpliesFresh == CredInv => ClientIsFresh
<1> SUFFICES ASSUME CredInv PROVE ClientIsFresh
  OBVIOUS
<1>1. /\ expiry \in 0..Forever /\ wait \in 0..Forever /\ running \in 0..Latency + 1
      /\ healthy \in 0..Recovery + 1 /\ loop \in {"off", "sleep", "provide"}
      /\ Latency \in Nat /\ MinInterval \in Nat /\ Forever \in Nat /\ Forever > 0
      /\ Recovery = MinInterval + Latency
  BY CredentialsAssumption DEF CredInv, CredTypeOK, Recovery
<1>2. CASE expiry = Forever \/ skewed
  BY <1>1, <1>2 DEF ClientIsFresh
<1>3. CASE loop = "sleep" /\ expiry # Forever /\ ~skewed
  BY <1>1, <1>3 DEF CredInv, Asleep, ClientIsFresh
<1>4. CASE loop = "provide" /\ expiry # Forever /\ ~skewed
  BY <1>1, <1>4 DEF CredInv, Asking, ClientIsFresh
<1> QED
  BY <1>1, <1>2, <1>3, <1>4 DEF CredInv

-----------------------------------------------------------------------------
(* PutLogs is never signed with expired credentials while the provider     *)
(* does its part (spawn_credentials_refresh_loop, refresh_delay_for).      *)
THEOREM NeverExpired == CredSpec => []ClientIsFresh
<1>1. CredInv /\ [CredNext]_credVars => CredInv'
  BY StepCredInv
<1> QED
  BY <1>1, InitCredInv, CredInvImpliesFresh, PTL DEF CredSpec

-----------------------------------------------------------------------------
(* The parts of MCTracing.                                                 *)
PartsInv == LayerInv /\ EventInv /\ CredInv

(* Every reachable state of the layer with its sinks, of its records and   *)
(* of the credentials is well typed, whichever part moves.                 *)
THEOREM PartsTyped == MCSpec => []PartsTypeOK
<1>1. MCInit => PartsInv
  BY InitLayerInv, InitEventInv, InitCredInv DEF MCInit, PartsInv
<1>2. PartsInv /\ [MCNext]_<<vars, spanVars, credVars, part>> => PartsInv'
  <2> SUFFICES ASSUME PartsInv, [MCNext]_<<vars, spanVars, credVars, part>> PROVE PartsInv'
    OBVIOUS
  <2>1. [Next]_vars /\ [EventNext]_spanVars /\ [CredNext]_credVars
    BY DEF MCNext
  <2> QED
    BY <2>1, StepLayerInv, NextEventInv, StepCredInv DEF PartsInv
<1>3. PartsInv => PartsTypeOK
  BY DEF PartsInv, PartsTypeOK, LayerInv, EventInv, CredInv
<1> QED
  BY <1>1, <1>2, <1>3, PTL DEF MCSpec
=============================================================================
