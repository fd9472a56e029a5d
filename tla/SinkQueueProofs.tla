-------------------------- MODULE SinkQueueProofs --------------------------
(***************************************************************************)
(* The close handshake of SinkQueue, for any number of records in flight   *)
(* and any capacity: close waits for the calls inside, and the queue       *)
(* implements ClosableQueue.                                               *)
(***************************************************************************)
EXTENDS SinkQueue, FiniteSetTheorems, SequenceTheorems, TLAPS

(* active_enqueues counts the registered calls, a finite set even when     *)
(* Record is not.                                                          *)
ActiveCounts ==
  /\ IsFiniteSet(Calls(Registered))
  /\ active = Cardinality(Calls(Registered))

ClosedByWorker == closed <=> recv \in {"spin", "drain"}

(* A call that has not reached its push has no fate yet.                   *)
PushesAreFresh ==
  \A r \in Record :
    call[r] \in {"new", "checked", "registered", "inside"} => fate[r] = "fresh"

(* The ring holds queued records, each once.                               *)
RingQueued ==
  /\ \A i \in 1..Len(ring) : fate[ring[i]] = "queued"
  /\ \A i, j \in 1..Len(ring) : ring[i] = ring[j] => i = j

HandshakeInv ==
  /\ TypeOK
  /\ ClosedByWorker
  /\ ActiveCounts
  /\ NobodyInsideAfterClose
  /\ PushesAreFresh
  /\ RingQueued

-----------------------------------------------------------------------------
(* TypeOK: every control point and fate an action assigns is in its set.   *)
LEMMA InitType == Init => TypeOK
<1> SUFFICES ASSUME Init PROVE TypeOK
  OBVIOUS
<1>1. call \in [Record -> CallPoint]
  BY DEF Init, CallPoint
<1>2. fate \in [Record -> Contract!QueueFate]
  BY DEF Init, Contract!QueueFate
<1>3. ring \in Seq(Record)
  BY DEF Init
<1> QED
  BY <1>1, <1>2, <1>3 DEF Init, TypeOK, WorkerPoint

LEMMA TailType ==
  ASSUME TypeOK, ring # <<>>
  PROVE  Tail(ring) \in Seq(Record) /\ Head(ring) \in Record
BY HeadTailProperties DEF TypeOK

LEMMA TailQueued ==
  ASSUME TypeOK, RingQueued, ring # <<>>
  PROVE  /\ Tail(ring) \in Seq(Record) /\ Len(Tail(ring)) = Len(ring) - 1
         /\ Len(ring) \in Nat \ {0} /\ Head(ring) = ring[1]
         /\ \A i \in 1..Len(Tail(ring)) :
              Tail(ring)[i] = ring[i + 1] /\ Tail(ring)[i] # Head(ring)
<1>1. ring \in Seq(Record)
  BY DEF TypeOK
<1>2. /\ Tail(ring) \in Seq(Record) /\ Len(Tail(ring)) = Len(ring) - 1
      /\ Len(ring) \in Nat \ {0} /\ Head(ring) = ring[1]
      /\ \A i \in 1..Len(Tail(ring)) : Tail(ring)[i] = ring[i + 1]
  BY <1>1, HeadTailProperties, EmptySeq
<1> QED
  BY <1>2 DEF RingQueued

(* A call that moves enters or leaves the calls at given points.           *)
LEMMA CallsMove ==
  ASSUME TypeOK, NEW r \in Record, NEW p, Goto(r, p), NEW CONSTANT points
  PROVE  Calls(points)' =
           IF p \in points THEN Calls(points) \cup {r} ELSE Calls(points) \ {r}
BY DEF TypeOK, Goto, Calls

(* active follows the registered calls through a move of r.                *)
LEMMA ActiveMove ==
  ASSUME TypeOK, ActiveCounts, NEW r \in Record, NEW p, Goto(r, p),
         \/ call[r] \in Registered /\ p \in Registered /\ active' = active
         \/ call[r] \notin Registered /\ p \notin Registered /\ active' = active
         \/ call[r] \notin Registered /\ p \in Registered /\ active' = active + 1
         \/ call[r] \in Registered /\ p \notin Registered /\ active' = active - 1
  PROVE  ActiveCounts' /\ active' \in Nat
<1> DEFINE C == Calls(Registered)
<1>1. Calls(Registered)' = IF p \in Registered THEN C \cup {r} ELSE C \ {r}
  BY CallsMove
<1>2. r \in C <=> call[r] \in Registered
  BY DEF Calls
<1>3. IsFiniteSet(C) /\ active = Cardinality(C) /\ active \in Nat
  BY DEF ActiveCounts, TypeOK
<1>4. /\ IsFiniteSet(C \cup {r})
      /\ Cardinality(C \cup {r}) = IF r \in C THEN Cardinality(C) ELSE Cardinality(C) + 1
  BY <1>3, FS_AddElement
<1>5. /\ IsFiniteSet(C \ {r})
      /\ Cardinality(C \ {r}) = IF r \in C THEN Cardinality(C) - 1 ELSE Cardinality(C)
  BY <1>3, FS_RemoveElement
<1>6. /\ IsFiniteSet(Calls(Registered)')
      /\ active' = Cardinality(Calls(Registered)')
  <2> HIDE DEF C
  <2>1. CASE p \in Registered
    BY <2>1, <1>1, <1>2, <1>3, <1>4
  <2>2. CASE p \notin Registered
    BY <2>2, <1>1, <1>2, <1>3, <1>5
  <2> QED BY <2>1, <2>2
<1>7. active' \in Nat
  BY <1>6, FS_CardinalityType
<1> QED
  BY <1>6, <1>7 DEF ActiveCounts

-----------------------------------------------------------------------------
(* Each action preserves the five conjuncts; a call action moves one call, *)
(* a worker action moves none.                                             *)
LEMMA CallInv ==
  ASSUME HandshakeInv, NEW r \in Record, CheckClosed(r) \/ CallStep(r)
  PROVE  HandshakeInv'
<1> USE DEF HandshakeInv
<1>1. CASE CheckClosed(r)
  <2>1. TypeOK'
    BY <1>1 DEF CheckClosed, Goto, TypeOK, CallPoint, Contract!QueueFate
  <2>2. ActiveCounts'
    BY <1>1, ActiveMove DEF CheckClosed, Registered
  <2> QED
    BY <1>1, <2>1, <2>2 DEF CheckClosed, Goto, TypeOK, ClosedByWorker,
       NobodyInsideAfterClose, Calls, Inside, PushesAreFresh, RingQueued
<1>2. CASE Register(r)
  <2>1. ActiveCounts' /\ active' \in Nat
    BY <1>2, ActiveMove DEF Register, Registered
  <2>2. TypeOK'
    BY <1>2, <2>1 DEF Register, Goto, TypeOK, CallPoint
  <2> QED
    BY <1>2, <2>1, <2>2 DEF Register, Goto, TypeOK, ClosedByWorker,
       NobodyInsideAfterClose, Calls, Inside, PushesAreFresh, RingQueued
<1>3. CASE Recheck(r)
  <2>1. TypeOK'
    BY <1>3 DEF Recheck, Goto, TypeOK, CallPoint, Contract!QueueFate
  <2>2. ActiveCounts'
    BY <1>3, ActiveMove DEF Recheck, Registered
  <2>3. NobodyInsideAfterClose'
    BY <1>3 DEF Recheck, Goto, TypeOK, ClosedByWorker, NobodyInsideAfterClose,
       Calls, Inside
  <2> QED
    BY <1>3, <2>1, <2>2, <2>3 DEF Recheck, Goto, TypeOK, ClosedByWorker,
       PushesAreFresh, RingQueued
<1>4. CASE Unregister(r)
  <2>1. ActiveCounts' /\ active' \in Nat
    BY <1>4, ActiveMove DEF Unregister, Registered
  <2>2. TypeOK'
    BY <1>4, <2>1 DEF Unregister, Goto, TypeOK, CallPoint
  <2> QED
    BY <1>4, <2>1, <2>2 DEF Unregister, Goto, TypeOK, ClosedByWorker,
       NobodyInsideAfterClose, Calls, Inside, PushesAreFresh, RingQueued
<1>5. CASE CountRefused(r)
  <2>1. ActiveCounts'
    BY <1>5, ActiveMove DEF CountRefused, Registered
  <2>2. TypeOK'
    BY <1>5 DEF CountRefused, Goto, TypeOK, CallPoint
  <2> QED
    BY <1>5, <2>1, <2>2 DEF CountRefused, Goto, TypeOK, ClosedByWorker,
       NobodyInsideAfterClose, Calls, Inside, PushesAreFresh, RingQueued
<1>6. CASE PushFree(r)
  <2>1. ActiveCounts'
    BY <1>6, ActiveMove DEF PushFree, Registered
  <2>2. Append(ring, r) \in Seq(Record)
    BY DEF TypeOK
  <2>3. TypeOK'
    BY <1>6, <2>2 DEF PushFree, Goto, TypeOK, CallPoint, Contract!QueueFate
  <2> QED
    BY <1>6, <2>1, <2>3 DEF PushFree, Goto, TypeOK, ClosedByWorker,
       NobodyInsideAfterClose, Calls, Inside, PushesAreFresh, RingQueued
<1>7. CASE PushRejected(r)
  <2>1. ActiveCounts'
    BY <1>7, ActiveMove DEF PushRejected, Registered
  <2>2. TypeOK'
    BY <1>7 DEF PushRejected, Goto, TypeOK, CallPoint, Contract!QueueFate
  <2> QED
    BY <1>7, <2>1, <2>2 DEF PushRejected, Goto, TypeOK, ClosedByWorker,
       NobodyInsideAfterClose, Calls, Inside, PushesAreFresh, RingQueued
<1>8. CASE PushEvicting(r)
  <2>1. ActiveCounts'
    BY <1>8, ActiveMove DEF PushEvicting, Registered
  <2>2. ring # <<>>
    BY <1>8, SinkQueueAssumption DEF PushEvicting
  <2>3. Append(Tail(ring), r) \in Seq(Record) /\ Head(ring) \in Record
    BY <2>2, TailType, AppendProperties
  <2>4. TypeOK'
    BY <1>8, <2>3 DEF PushEvicting, Goto, TypeOK, CallPoint, Contract!QueueFate
  <2>5. /\ Len(Tail(ring)) = Len(ring) - 1 /\ Len(ring) \in Nat \ {0}
        /\ Head(ring) = ring[1] /\ fate[Head(ring)] = "queued"
        /\ \A i \in 1..Len(Tail(ring)) :
             Tail(ring)[i] = ring[i + 1] /\ Tail(ring)[i] # Head(ring)
    BY <2>2, TailQueued DEF RingQueued
  <2>6. fate[r] = "fresh"
    BY <1>8 DEF PushEvicting, PushesAreFresh
  <2>7. \A q \in Record :
          fate'[q] = IF q = Head(ring) THEN "queue_full"
                     ELSE IF q = r THEN "queued" ELSE fate[q]
    BY <1>8, <2>3, <2>5, <2>6 DEF PushEvicting, TypeOK
  <2>8. PushesAreFresh'
    BY <1>8, <2>5, <2>6, <2>7 DEF PushEvicting, Goto, TypeOK, PushesAreFresh
  <2>9. RingQueued'
    <3>1. /\ Len(ring') = Len(ring)
          /\ \A i \in 1..Len(ring) :
               ring'[i] = IF i = Len(ring) THEN r ELSE ring[i + 1]
      BY <1>8, <2>2, <2>5, TailType DEF PushEvicting
    <3>2. \A i \in 1..Len(ring) : ring[i] \in Record /\ ring[i] # r
      BY <2>6 DEF RingQueued, TypeOK
    <3>3. \A i \in 1..Len(ring) : i # Len(ring) =>
             i + 1 \in 1..Len(ring) /\ ring[i + 1] # Head(ring)
      <4> SUFFICES ASSUME NEW i \in 1..Len(ring), i # Len(ring)
                   PROVE  i + 1 \in 1..Len(ring) /\ ring[i + 1] # Head(ring)
        OBVIOUS
      <4>1. Len(ring) \in Nat /\ Len(Tail(ring)) = Len(ring) - 1
        BY <2>5
      <4>2. i \in 1..Len(Tail(ring)) /\ i + 1 \in 1..Len(ring)
        BY <4>1
      <4>3. Tail(ring)[i] = ring[i + 1] /\ Tail(ring)[i] # Head(ring)
        BY <4>2, <2>5
      <4> QED
        BY <4>2, <4>3
    <3>4. \A i \in 1..Len(ring) : fate[ring[i]] = "queued"
      BY DEF RingQueued
    <3>5. r # Head(ring)
      BY <2>5, <2>6
    <3>6. \A i \in 1..Len(ring') : fate'[ring'[i]] = "queued"
      <4> SUFFICES ASSUME NEW i \in 1..Len(ring) PROVE fate'[ring'[i]] = "queued"
        BY <3>1
      <4>1. CASE i = Len(ring)
        BY <4>1, <2>7, <3>1, <3>5
      <4>2. CASE i # Len(ring)
        <5>1. ring'[i] = ring[i + 1] /\ i + 1 \in 1..Len(ring)
          BY <4>2, <3>1, <3>3
        <5> QED
          BY <4>2, <5>1, <2>7, <3>2, <3>3, <3>4
      <4> QED
        BY <4>1, <4>2
    <3>7. \A i, j \in 1..Len(ring') : ring'[i] = ring'[j] => i = j
      <4>1. \A i, j \in 1..Len(ring) : ring[i] = ring[j] => i = j
        BY DEF RingQueued
      <4> SUFFICES ASSUME NEW i \in 1..Len(ring), NEW j \in 1..Len(ring),
                          ring'[i] = ring'[j]
                   PROVE  i = j
        BY <3>1
      <4>2. CASE i = Len(ring)
        BY <4>2, <3>1, <3>2, <3>3
      <4>3. CASE j = Len(ring)
        BY <4>3, <3>1, <3>2, <3>3
      <4>4. CASE i # Len(ring) /\ j # Len(ring)
        <5>1. i + 1 = j + 1
          BY <4>4, <4>1, <3>1, <3>3
        <5> QED
          BY <5>1
      <4> QED
        BY <4>2, <4>3, <4>4
    <3> QED
      BY <3>6, <3>7 DEF RingQueued
  <2> QED
    BY <1>8, <2>1, <2>4, <2>8, <2>9 DEF PushEvicting, Goto, TypeOK, ClosedByWorker,
       NobodyInsideAfterClose, Calls, Inside
<1>9. CASE CountFull(r)
  <2>1. ActiveCounts'
    BY <1>9, ActiveMove DEF CountFull, Registered
  <2>2. TypeOK'
    BY <1>9 DEF CountFull, Goto, TypeOK, CallPoint
  <2> QED
    BY <1>9, <2>1, <2>2 DEF CountFull, Goto, TypeOK, ClosedByWorker,
       NobodyInsideAfterClose, Calls, Inside, PushesAreFresh, RingQueued
<1>10. CASE Wake(r)
  <2>1. ActiveCounts'
    BY <1>10, ActiveMove DEF Wake, Registered
  <2>2. TypeOK'
    BY <1>10 DEF Wake, Goto, TypeOK, CallPoint, WorkerPoint
  <2> QED
    BY <1>10, <2>1, <2>2 DEF Wake, Goto, TypeOK, ClosedByWorker,
       NobodyInsideAfterClose, Calls, Inside, PushesAreFresh, RingQueued
<1> QED
  BY <1>1, <1>2, <1>3, <1>4, <1>5, <1>6, <1>7, <1>8, <1>9, <1>10 DEF CallStep

LEMMA WorkerInv ==
  ASSUME HandshakeInv, RecvStep \/ CancelRecv \/ CloseBegin
  PROVE  HandshakeInv'
<1> USE DEF HandshakeInv
<1>1. CASE Pop
  <2>1. /\ Tail(ring) \in Seq(Record) /\ Len(Tail(ring)) = Len(ring) - 1
        /\ Len(ring) \in Nat \ {0} /\ Head(ring) = ring[1]
        /\ \A i \in 1..Len(Tail(ring)) :
             Tail(ring)[i] = ring[i + 1] /\ Tail(ring)[i] # Head(ring)
        /\ Head(ring) \in Record
    BY <1>1, TailQueued, TailType DEF Pop
  <2>2. TypeOK'
    BY <1>1, <2>1 DEF Pop, TypeOK, WorkerPoint, Contract!QueueFate
  <2>3. ActiveCounts'
    BY <1>1 DEF Pop, ActiveCounts, Calls
  <2>4. \A i \in 1..Len(ring) : fate[ring[i]] = "queued" /\ ring[i] \in Record
    BY DEF RingQueued, TypeOK
  <2>5. \A q \in Record :
          fate'[q] = IF q = Head(ring) THEN "taken" ELSE fate[q]
    BY <1>1, <2>1 DEF Pop, TypeOK
  <2>6. RingQueued'
    BY <1>1, <2>1, <2>4, <2>5 DEF Pop, RingQueued
  <2>7. PushesAreFresh'
    BY <1>1, <2>1, <2>4, <2>5 DEF Pop, PushesAreFresh
  <2> QED
    BY <1>1, <2>2, <2>3, <2>6, <2>7 DEF Pop, TypeOK, ClosedByWorker,
       NobodyInsideAfterClose, Calls
<1>2. CASE PopEmpty
  BY <1>2 DEF PopEmpty, TypeOK, WorkerPoint, ClosedByWorker, ActiveCounts, Calls,
     NobodyInsideAfterClose, PushesAreFresh, RingQueued
<1>3. CASE PollNotified
  BY <1>3 DEF PollNotified, TypeOK, WorkerPoint, ClosedByWorker, ActiveCounts, Calls,
     NobodyInsideAfterClose, PushesAreFresh, RingQueued
<1>4. CASE Resume
  BY <1>4 DEF Resume, TypeOK, WorkerPoint, ClosedByWorker, ActiveCounts, Calls,
     NobodyInsideAfterClose, PushesAreFresh, RingQueued
<1>5. CASE CancelRecv
  BY <1>5 DEF CancelRecv, TypeOK, WorkerPoint, ClosedByWorker, ActiveCounts, Calls,
     NobodyInsideAfterClose, PushesAreFresh, RingQueued
<1>6. CASE CloseBegin
  BY <1>6 DEF CloseBegin, TypeOK, WorkerPoint, ClosedByWorker, ActiveCounts, Calls,
     NobodyInsideAfterClose, PushesAreFresh, RingQueued
<1>7. CASE CloseReturn
  <2>1. Calls(Registered) = {}
    BY <1>7, FS_EmptySet DEF CloseReturn, ActiveCounts
  <2>2. Calls(Inside) = {}
    BY <2>1 DEF Calls, Inside, Registered
  <2> QED
    BY <1>7, <2>2 DEF CloseReturn, TypeOK, WorkerPoint, ClosedByWorker, ActiveCounts,
       Calls, NobodyInsideAfterClose, PushesAreFresh, RingQueued
<1> QED
  BY <1>1, <1>2, <1>3, <1>4, <1>5, <1>6, <1>7 DEF RecvStep

LEMMA StutterInv ==
  ASSUME HandshakeInv, UNCHANGED vars
  PROVE  HandshakeInv'
BY DEF vars, HandshakeInv, TypeOK, ClosedByWorker, ActiveCounts, Calls,
   NobodyInsideAfterClose, PushesAreFresh, RingQueued

LEMMA InitInv == Init => HandshakeInv
<1> SUFFICES ASSUME Init PROVE HandshakeInv
  OBVIOUS
<1>1. Calls(Registered) = {} /\ Calls(Inside) = {}
  BY DEF Init, Calls, Registered, Inside
<1>2. ActiveCounts /\ NobodyInsideAfterClose
  BY <1>1, FS_EmptySet DEF Init, ActiveCounts, NobodyInsideAfterClose
<1> QED
  BY <1>2, InitType DEF Init, HandshakeInv, ClosedByWorker, PushesAreFresh, RingQueued

LEMMA HandshakeInvariant == Spec => []HandshakeInv
<1>1. HandshakeInv /\ [Next]_vars => HandshakeInv'
  BY CallInv, WorkerInv, StutterInv DEF Next, Finished
<1> QED
  BY InitInv, <1>1, PTL DEF Spec

(* Every variable keeps its type.                                          *)
THEOREM Typed == Spec => []TypeOK
BY HandshakeInvariant, PTL DEF HandshakeInv

(* SinkQueue::close returns only when no call is between its second check  *)
(* of closed and its Drop, however many calls race with it.                *)
THEOREM CloseWaitsForCalls == Spec => []NobodyInsideAfterClose
BY HandshakeInvariant, PTL DEF HandshakeInv

(* Hence, once close has returned, only the worker touches the ring, and   *)
(* only to pop from it.                                                    *)
THEOREM NothingEntersAfterClose == Spec => RingOnlyDrains
<1>1. HandshakeInv /\ [Next]_vars =>
        [recv = "drain" => \/ ring' = ring
                           \/ ring # <<>> /\ ring' = Tail(ring)]_vars
  <2> SUFFICES ASSUME HandshakeInv, [Next]_vars, recv = "drain"
               PROVE  \/ ring' = ring
                      \/ ring # <<>> /\ ring' = Tail(ring)
    OBVIOUS
  <2>1. \A r \in Record : call[r] # "inside"
    BY DEF HandshakeInv, NobodyInsideAfterClose, Calls, Inside
  <2>2. ASSUME NEW r \in Record, CheckClosed(r) \/ CallStep(r) PROVE ring' = ring
    BY <2>1, <2>2 DEF CheckClosed, CallStep, Register, Recheck, Unregister,
       CountRefused, PushFree, PushRejected, PushEvicting, CountFull, Wake
  <2> QED
    BY <2>2 DEF Next, RecvStep, Pop, PopEmpty, PollNotified, Resume, CloseReturn,
       CancelRecv, CloseBegin, Finished, vars
<1> QED
  BY HandshakeInvariant, <1>1, PTL DEF RingOnlyDrains, Spec

-----------------------------------------------------------------------------
(* The refinement of ClosableQueue.                                        *)

LEMMA CallImplements ==
  ASSUME HandshakeInv, NEW r \in Record, CheckClosed(r) \/ CallStep(r)
  PROVE  [Contract!QueueNext]_(Contract!queueVars)
<1> USE DEF Contract!queueVars
<1>1. UNCHANGED Phase
  BY DEF CheckClosed, CallStep, Register, Recheck, Unregister, CountRefused,
     PushFree, PushRejected, PushEvicting, CountFull, Wake, Phase, HandshakeInv,
     ClosedByWorker
<1>2. \A p \in {"new", "checked", "registered", "inside"} :
        call[r] = p => fate[r] = "fresh"
  BY DEF HandshakeInv, PushesAreFresh
<1>3. CASE UNCHANGED <<ring, fate>>
  BY <1>1, <1>3
<1>4. CASE call[r] \in {"new", "registered"} /\ closed
           /\ ring' = ring /\ fate' = [fate EXCEPT ![r] = "worker_closed"]
  <2>1. Contract!Refuse(r)
    BY <1>1, <1>2, <1>4 DEF Contract!Refuse, Phase
  <2> QED
    BY <2>1 DEF Contract!QueueNext
<1>5. CASE PushFree(r) \/ PushRejected(r) \/ PushEvicting(r)
  <2>1. Phase # "closed"
    BY <1>5 DEF PushFree, PushRejected, PushEvicting, Phase, HandshakeInv,
       NobodyInsideAfterClose, Calls, Inside
  <2>2. fate[r] = "fresh"
    BY <1>2, <1>5 DEF PushFree, PushRejected, PushEvicting
  <2>3. Contract!Full <=> Len(ring) = Capacity
    BY DEF Contract!Full
  <2>4. CASE PushFree(r)
    <3>1. Len(ring) # Capacity
      BY <2>4, SinkQueueAssumption DEF PushFree, HandshakeInv, TypeOK
    <3>2. Contract!Offer(r)
      BY <1>1, <2>1, <2>2, <2>3, <2>4, <3>1 DEF PushFree, Contract!Offer
    <3> QED
      BY <3>2 DEF Contract!QueueNext
  <2>5. CASE PushRejected(r)
    <3>1. fate' = [fate EXCEPT ![r] = "queued", ![r] = "queue_full"]
      BY <2>5 DEF PushRejected, HandshakeInv, TypeOK
    <3>2. Contract!Offer(r)
      BY <1>1, <2>1, <2>2, <2>3, <2>5, <3>1
         DEF PushRejected, Contract!Offer, Contract!Victim
    <3> QED
      BY <3>2 DEF Contract!QueueNext
  <2>6. CASE PushEvicting(r)
    <3>1. Contract!Offer(r)
      BY <1>1, <2>1, <2>2, <2>3, <2>6
         DEF PushEvicting, Contract!Offer, Contract!Victim
    <3> QED
      BY <3>1 DEF Contract!QueueNext
  <2> QED
    BY <1>5, <2>4, <2>5, <2>6
<1> QED
  BY <1>3, <1>4, <1>5 DEF CheckClosed, CallStep, Register, Recheck, Unregister,
     CountRefused, CountFull, Wake

LEMMA WorkerImplements ==
  ASSUME HandshakeInv, RecvStep \/ CancelRecv \/ CloseBegin
  PROVE  [Contract!QueueNext]_(Contract!queueVars)
<1> USE DEF Contract!queueVars, Contract!QueueNext
<1>1. CASE Pop
  <2>1. UNCHANGED Phase
    BY <1>1 DEF Pop, Phase
  <2> QED
    BY <1>1, <2>1 DEF Pop, Contract!Take
<1>2. CASE CloseBegin
  <2>1. Phase = "open" /\ Phase' = "closing"
    BY <1>2 DEF CloseBegin, Phase, HandshakeInv, ClosedByWorker
  <2> QED
    BY <1>2, <2>1 DEF CloseBegin, Contract!BeginClose
<1>3. CASE CloseReturn
  <2>1. Phase = "closing" /\ Phase' = "closed"
    BY <1>3 DEF CloseReturn, Phase, HandshakeInv, ClosedByWorker
  <2> QED
    BY <1>3, <2>1 DEF CloseReturn, Contract!EndClose
<1>4. CASE PopEmpty \/ PollNotified \/ Resume \/ CancelRecv
  BY <1>4 DEF PopEmpty, PollNotified, Resume, CancelRecv, Phase
<1> QED
  BY <1>1, <1>2, <1>3, <1>4 DEF RecvStep

(* SinkQueue with its atomics implements the closable queue whose enqueue  *)
(* and close are atomic, so SlsSink may use the latter.                    *)
THEOREM ContractImplemented == Spec => ImplementsContract
<1>1. Init => Contract!QueueInit
  BY DEF Init, Contract!QueueInit, Phase
<1>2. HandshakeInv /\ [Next]_vars => [Contract!QueueNext]_(Contract!queueVars)
  <2>1. UNCHANGED vars => UNCHANGED Contract!queueVars
    BY DEF vars, Contract!queueVars, Phase
  <2> QED
    BY <2>1, CallImplements, WorkerImplements DEF Next, Finished
<1> QED
  BY <1>1, <1>2, HandshakeInvariant, PTL
     DEF Spec, ImplementsContract, Contract!QueueSpec

-----------------------------------------------------------------------------
(* Wake-ups.                                                               *)

(* A worker about to poll, or asleep, on a non-empty ring has a wake-up to *)
(* come; the permit is one until the poll takes it.                        *)
WakeupInv ==
  recv \in {"poll", "asleep"} /\ ring # <<>> =>
    \/ recv = "poll" /\ permit
    \/ Calls({"evicted", "wake"}) # {}

LEMMA CallWakeup ==
  ASSUME TypeOK, WakeupInv, NEW r \in Record, CheckClosed(r) \/ CallStep(r)
  PROVE  WakeupInv'
<1> DEFINE Pts == {"evicted", "wake"}
<1>1. ASSUME NEW p, Goto(r, p), call[r] \in Pts => p \in Pts,
             UNCHANGED <<ring, recv, permit>>
      PROVE  WakeupInv'
  BY <1>1, CallsMove DEF WakeupInv, Calls, Goto, TypeOK
<1>2. ASSUME NEW p \in Pts, Goto(r, p)
      PROVE  WakeupInv'
  BY <1>2 DEF WakeupInv, Calls, Goto, TypeOK
<1>3. CASE Wake(r)
  BY <1>3 DEF Wake, WakeupInv, Calls, Goto, TypeOK
<1>4. CASE PushFree(r) \/ PushEvicting(r)
  BY <1>2, <1>4 DEF PushFree, PushEvicting
<1>5. CASE CheckClosed(r) \/ Register(r) \/ Recheck(r) \/ Unregister(r)
           \/ CountRefused(r) \/ PushRejected(r)
  BY <1>1, <1>5 DEF CheckClosed, Register, Recheck, Unregister, CountRefused,
     PushRejected
<1>6. CASE CountFull(r)
  BY <1>1, <1>6 DEF CountFull
<1> QED
  BY <1>3, <1>4, <1>5, <1>6 DEF CallStep

(* The worker never sleeps on a queued record that no call is about to     *)
(* announce: push before notify_one, and pop before the poll, suffice.     *)
THEOREM NoWakeupIsLost == Spec => []NoLostWakeup
<1>1. Init => WakeupInv
  BY DEF Init, WakeupInv
<1>2. TypeOK /\ WakeupInv /\ [Next]_vars => WakeupInv'
  <2> SUFFICES ASSUME TypeOK, WakeupInv, [Next]_vars PROVE WakeupInv'
    OBVIOUS
  <2>1. CASE RecvStep \/ CancelRecv \/ CloseBegin
    BY <2>1 DEF RecvStep, Pop, PopEmpty, PollNotified, Resume, CloseReturn,
       CancelRecv, CloseBegin, WakeupInv, Calls, TypeOK
  <2>2. CASE UNCHANGED vars
    BY <2>2 DEF vars, WakeupInv, Calls
  <2> QED
    BY <2>1, <2>2, CallWakeup DEF Next, Finished
<1>3. WakeupInv => NoLostWakeup
  BY DEF WakeupInv, NoLostWakeup
<1> QED
  BY <1>1, <1>2, <1>3, Typed, PTL DEF Spec

-----------------------------------------------------------------------------
(* The count of the records lost to a full queue.                          *)

(* queue_full lags the records lost by the calls about to count one.       *)
FullCount ==
  /\ IsFiniteSet(Calls({"full", "evicted"}))
  /\ IsFiniteSet(Fated("queue_full"))
  /\ queueFull + Cardinality(Calls({"full", "evicted"}))
       = Cardinality(Fated("queue_full"))

LEMMA FullCountKept ==
  ASSUME FullCount, UNCHANGED queueFull,
         Calls({"full", "evicted"})' = Calls({"full", "evicted"}),
         Fated("queue_full")' = Fated("queue_full")
  PROVE  FullCount'
BY DEF FullCount

(* One more record lost, one more call about to count it.                  *)
LEMMA FullCountLoss ==
  ASSUME HandshakeInv, FullCount, NEW r \in Record, NEW v \in Record,
         call[r] = "inside", fate[v] # "queue_full", UNCHANGED queueFull,
         Calls({"full", "evicted"})' = Calls({"full", "evicted"}) \cup {r},
         Fated("queue_full")' = Fated("queue_full") \cup {v}
  PROVE  FullCount'
<1> DEFINE C == Calls({"full", "evicted"})
           F == Fated("queue_full")
<1>1. r \notin C /\ v \notin F
  BY DEF Calls, Fated
<1>2. /\ IsFiniteSet(C) /\ IsFiniteSet(F) /\ queueFull \in Nat
      /\ queueFull + Cardinality(C) = Cardinality(F)
  BY DEF FullCount, HandshakeInv, TypeOK
<1>3. Cardinality(C) \in Nat /\ Cardinality(F) \in Nat
  BY <1>2, FS_CardinalityType
<1>4. IsFiniteSet(C \cup {r}) /\ Cardinality(C \cup {r}) = Cardinality(C) + 1
  BY <1>1, <1>2, FS_AddElement
<1>5. IsFiniteSet(F \cup {v}) /\ Cardinality(F \cup {v}) = Cardinality(F) + 1
  BY <1>1, <1>2, FS_AddElement
<1>6. /\ Calls({"full", "evicted"})' = C \cup {r}
      /\ Fated("queue_full")' = F \cup {v}
      /\ queueFull' = queueFull
  OBVIOUS
<1>7. queueFull' + Cardinality(C \cup {r}) = Cardinality(F \cup {v})
  BY <1>2, <1>3, <1>4, <1>5, <1>6
<1> HIDE DEF C, F
<1> QED
  BY <1>4, <1>5, <1>6, <1>7 DEF FullCount

LEMMA FullCountCall ==
  ASSUME HandshakeInv, FullCount, NEW r \in Record, CheckClosed(r) \/ CallStep(r)
  PROVE  FullCount'
<1> DEFINE C == Calls({"full", "evicted"})
           F == Fated("queue_full")
<1> USE DEF HandshakeInv
<1>1. CASE CheckClosed(r) \/ Register(r) \/ Recheck(r) \/ Unregister(r)
           \/ CountRefused(r) \/ PushFree(r) \/ Wake(r)
  <2>1. call[r] \in {"new", "checked", "registered", "inside"} => fate[r] = "fresh"
    BY DEF PushesAreFresh
  <2>2. C' = C
    BY <1>1 DEF CheckClosed, Register, Recheck, Unregister, CountRefused, PushFree,
       Wake, Goto, Calls, TypeOK
  <2>3. F' = F
    BY <1>1, <2>1 DEF CheckClosed, Register, Recheck, Unregister, CountRefused,
       PushFree, Wake, Fated, TypeOK
  <2>4. UNCHANGED queueFull
    BY <1>1 DEF CheckClosed, Register, Recheck, Unregister, CountRefused, PushFree, Wake
  <2> QED
    BY <2>2, <2>3, <2>4, FullCountKept
<1>2. CASE PushRejected(r)
  <2>1. C' = C \cup {r}
    BY <1>2 DEF PushRejected, Goto, Calls, TypeOK
  <2>2. F' = F \cup {r} /\ fate[r] = "fresh"
    BY <1>2 DEF PushRejected, Fated, TypeOK, PushesAreFresh
  <2> QED
    BY <1>2, <2>1, <2>2, FullCountLoss DEF PushRejected
<1>3. CASE PushEvicting(r)
  <2>1. ring # <<>>
    BY <1>3, SinkQueueAssumption DEF PushEvicting
  <2>2. Head(ring) \in Record /\ fate[Head(ring)] = "queued"
    BY <2>1, TailType, TailQueued DEF RingQueued
  <2>3. C' = C \cup {r}
    BY <1>3 DEF PushEvicting, Goto, Calls, TypeOK
  <2>4. fate[r] = "fresh"
    BY <1>3 DEF PushEvicting, PushesAreFresh
  <2>5. F' = F \cup {Head(ring)}
    BY <1>3, <2>2, <2>4 DEF PushEvicting, Fated, TypeOK
  <2> QED
    BY <1>3, <2>2, <2>3, <2>5, FullCountLoss DEF PushEvicting
<1>4. CASE CountFull(r)
  <2>1. C' = C \ {r} /\ r \in C
    BY <1>4 DEF CountFull, Goto, Calls, TypeOK
  <2>2. F' = F /\ queueFull' = queueFull + 1 /\ queueFull \in Nat
    BY <1>4 DEF CountFull, Fated, TypeOK
  <2>3. /\ IsFiniteSet(C) /\ IsFiniteSet(F)
        /\ queueFull + Cardinality(C) = Cardinality(F)
    BY DEF FullCount
  <2>4. IsFiniteSet(C \ {r}) /\ Cardinality(C \ {r}) = Cardinality(C) - 1
    BY <2>1, <2>3, FS_RemoveElement
  <2>5. Cardinality(C) \in Nat
    BY <2>3, FS_CardinalityType
  <2> QED
    BY <2>1, <2>2, <2>3, <2>4, <2>5 DEF FullCount
<1> QED
  BY <1>1, <1>2, <1>3, <1>4 DEF CallStep

(* Once close has returned, queue_full is exactly the number of records    *)
(* the overflow policy cost: no increment is still to come.                *)
THEOREM FullCountIsFinal == Spec => []FullCountSettled
<1>1. Init => FullCount
  <2> SUFFICES ASSUME Init PROVE FullCount
    OBVIOUS
  <2>1. Calls({"full", "evicted"}) = {} /\ Fated("queue_full") = {}
    BY DEF Init, Calls, Fated
  <2> QED
    <3>1. IsFiniteSet({}) /\ Cardinality({}) = 0 /\ queueFull = 0
      BY FS_EmptySet DEF Init
    <3> QED
      BY <2>1, <3>1 DEF FullCount
<1>2. HandshakeInv /\ FullCount /\ [Next]_vars => FullCount'
  <2> SUFFICES ASSUME HandshakeInv, FullCount, [Next]_vars PROVE FullCount'
    OBVIOUS
  <2>1. CASE RecvStep \/ CancelRecv \/ CloseBegin
    <3>1. UNCHANGED <<call, queueFull>>
      BY <2>1 DEF RecvStep, Pop, PopEmpty, PollNotified, Resume, CloseReturn,
         CancelRecv, CloseBegin
    <3>2. CASE Pop
      <4>1. Head(ring) \in Record /\ fate[Head(ring)] = "queued"
        BY <3>2, TailType, TailQueued DEF Pop, HandshakeInv, RingQueued
      <4> QED
        BY <3>1, <3>2, <4>1, FullCountKept DEF Pop, Calls, Fated, HandshakeInv, TypeOK
    <3>3. CASE UNCHANGED fate
      BY <3>1, <3>3, FullCountKept DEF Calls, Fated
    <3> QED
      BY <2>1, <3>2, <3>3 DEF RecvStep, PopEmpty, PollNotified, Resume, CloseReturn,
         CancelRecv, CloseBegin
  <2>2. CASE UNCHANGED vars
    BY <2>2, FullCountKept DEF vars, Calls, Fated
  <2> QED
    BY <2>1, <2>2, FullCountCall DEF Next, Finished
<1>3. HandshakeInv /\ FullCount => FullCountSettled
  <2> SUFFICES ASSUME HandshakeInv, FullCount, recv = "drain"
               PROVE  queueFull = Cardinality(Fated("queue_full"))
    BY DEF FullCountSettled
  <2>1. Calls({"full", "evicted"}) = {}
    BY DEF HandshakeInv, NobodyInsideAfterClose, Calls, Inside
  <2> QED
    BY <2>1, FS_EmptySet DEF FullCount, HandshakeInv, TypeOK
<1> QED
  BY <1>1, <1>2, <1>3, HandshakeInvariant, PTL DEF Spec
=============================================================================
