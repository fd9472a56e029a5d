--------------------------- MODULE SlsSinkProofs ---------------------------
(***************************************************************************)
(* No accepted record is lost or counted twice by SlsSink, records go out  *)
(* in the order they were logged, every counter is exact, and nothing is   *)
(* written off to the shutdown before its time: for any number of records, *)
(* permits and retries and any batch limits.                               *)
(***************************************************************************)
EXTENDS SlsSink, InductionLemmas, FiniteSetTheorems, FunctionTheorems, SequenceTheorems,
        TLAPS

(* Lemmas on the set of the elements of a sequence.                        *)
LEMMA SetOfEmpty == ToSet(<<>>) = {}
BY DEF ToSet

LEMMA SetOfOne ==
  ASSUME NEW r
  PROVE  ToSet(<<r>>) = {r}
BY DEF ToSet

LEMMA SetType ==
  ASSUME NEW S, NEW q \in Seq(S)
  PROVE  ToSet(q) \subseteq S
BY DEF ToSet

LEMMA SetOfAppend ==
  ASSUME NEW S, NEW q \in Seq(S), NEW r \in S
  PROVE  ToSet(Append(q, r)) = ToSet(q) \cup {r}
<1>1. /\ Append(q, r) \in Seq(S) /\ Len(Append(q, r)) = Len(q) + 1
      /\ \A i \in 1..Len(q) : Append(q, r)[i] = q[i]
      /\ Append(q, r)[Len(q) + 1] = r /\ Len(q) \in Nat
  BY AppendProperties, LenProperties
<1>2. DOMAIN q = 1..Len(q) /\ DOMAIN Append(q, r) = 1..(Len(q) + 1)
  BY <1>1, LenProperties
<1> QED
  BY <1>1, <1>2 DEF ToSet

LEMMA SetOfConcat ==
  ASSUME NEW S, NEW p \in Seq(S), NEW q \in Seq(S)
  PROVE  ToSet(p \o q) = ToSet(p) \cup ToSet(q)
<1>1. /\ p \o q \in Seq(S) /\ Len(p \o q) = Len(p) + Len(q)
      /\ Len(p) \in Nat /\ Len(q) \in Nat
      /\ \A i \in 1..Len(p) : (p \o q)[i] = p[i]
      /\ \A i \in 1..Len(q) : (p \o q)[Len(p) + i] = q[i]
  BY ConcatProperties, LenProperties
<1>2. /\ DOMAIN p = 1..Len(p) /\ DOMAIN q = 1..Len(q)
      /\ DOMAIN (p \o q) = 1..(Len(p) + Len(q))
  BY <1>1, LenProperties
<1>3. ASSUME NEW i \in 1..(Len(p) + Len(q))
      PROVE  (p \o q)[i] \in ToSet(p) \cup ToSet(q)
  <2>1. CASE i <= Len(p)
    BY <1>1, <1>2, <2>1 DEF ToSet
  <2>2. CASE i > Len(p)
    <3>1. i - Len(p) \in 1..Len(q) /\ i = Len(p) + (i - Len(p))
      BY <1>1, <2>2
    <3> QED
      BY <1>1, <1>2, <3>1 DEF ToSet
  <2> QED
    BY <1>1, <2>1, <2>2
<1>4. ASSUME NEW i \in 1..Len(p) PROVE p[i] \in ToSet(p \o q)
  BY <1>1, <1>2 DEF ToSet
<1>5. ASSUME NEW i \in 1..Len(q) PROVE q[i] \in ToSet(p \o q)
  <2>1. Len(p) + i \in 1..(Len(p) + Len(q))
    BY <1>1
  <2> QED
    BY <1>1, <1>2, <2>1 DEF ToSet
<1> QED
  BY <1>2, <1>3, <1>4, <1>5 DEF ToSet

LEMMA SetOfConcat3 ==
  ASSUME NEW S, NEW p \in Seq(S), NEW q \in Seq(S), NEW t \in Seq(S)
  PROVE  ToSet(p \o q \o t) = ToSet(p) \cup ToSet(q) \cup ToSet(t)
<1> DEFINE u == p \o q
<1>1. u \in Seq(S) /\ ToSet(u) = ToSet(p) \cup ToSet(q)
  BY SetOfConcat, ConcatProperties
<1> HIDE DEF u
<1>2. ToSet(u \o t) = ToSet(u) \cup ToSet(t)
  BY <1>1, SetOfConcat
<1> QED
  BY <1>1, <1>2 DEF u

Distinct(q) == \A i, j \in 1..Len(q) : q[i] = q[j] => i = j

LEMMA SetOfTail ==
  ASSUME NEW S, NEW q \in Seq(S), q # <<>>, Distinct(q)
  PROVE  /\ Head(q) \in S /\ Tail(q) \in Seq(S)
         /\ ToSet(q) = ToSet(Tail(q)) \cup {Head(q)}
         /\ Head(q) \notin ToSet(Tail(q))
         /\ Distinct(Tail(q))
<1>1. /\ Head(q) \in S /\ Head(q) = q[1]
      /\ Tail(q) \in Seq(S) /\ Len(Tail(q)) = Len(q) - 1
      /\ Len(q) \in Nat \ {0}
      /\ \A i \in 1..Len(Tail(q)) : Tail(q)[i] = q[i + 1]
  BY HeadTailProperties, EmptySeq
<1>2. DOMAIN q = 1..Len(q) /\ DOMAIN Tail(q) = 1..(Len(q) - 1)
  BY <1>1, LenProperties
<1>3. ASSUME NEW i \in 1..Len(q), i # 1 PROVE q[i] \in ToSet(Tail(q))
  <2>1. i - 1 \in 1..(Len(q) - 1) /\ q[i] = Tail(q)[i - 1]
    BY <1>1, <1>3
  <2> QED
    BY <1>2, <2>1 DEF ToSet
<1>4. ASSUME NEW i \in 1..(Len(q) - 1)
      PROVE  Tail(q)[i] \in ToSet(q) /\ Tail(q)[i] # Head(q)
  <2>1. i + 1 \in 1..Len(q) /\ Tail(q)[i] = q[i + 1]
    BY <1>1
  <2> QED
    BY <1>1, <1>2, <2>1 DEF ToSet, Distinct
<1>5. Head(q) \in ToSet(q)
  BY <1>1, <1>2 DEF ToSet
<1>6. Distinct(Tail(q))
  <2> SUFFICES ASSUME NEW i \in 1..(Len(q) - 1), NEW j \in 1..(Len(q) - 1),
                      Tail(q)[i] = Tail(q)[j]
               PROVE  i = j
    BY <1>1 DEF Distinct
  <2>1. i + 1 = j + 1
    BY <1>1 DEF Distinct
  <2> QED
    BY <2>1
<1>7. ToSet(q) = ToSet(Tail(q)) \cup {Head(q)}
  <2>1. ASSUME NEW x \in ToSet(q) PROVE x \in ToSet(Tail(q)) \cup {Head(q)}
    BY <1>1, <1>2, <1>3 DEF ToSet
  <2>2. ASSUME NEW x \in ToSet(Tail(q)) PROVE x \in ToSet(q)
    BY <1>2, <1>4 DEF ToSet
  <2> QED
    BY <1>5, <2>1, <2>2
<1>8. Head(q) \notin ToSet(Tail(q))
  BY <1>2, <1>4 DEF ToSet
<1> QED
  BY <1>1, <1>6, <1>7, <1>8

LEMMA DistinctAppend ==
  ASSUME NEW S, NEW q \in Seq(S), Distinct(q), NEW r \in S, r \notin ToSet(q)
  PROVE  Distinct(Append(q, r))
<1>1. /\ Len(Append(q, r)) = Len(q) + 1 /\ Len(q) \in Nat
      /\ \A i \in 1..Len(q) : Append(q, r)[i] = q[i] /\ q[i] # r
      /\ Append(q, r)[Len(q) + 1] = r
  BY AppendProperties, LenProperties DEF ToSet
<1> SUFFICES ASSUME NEW i \in 1..(Len(q) + 1), NEW j \in 1..(Len(q) + 1),
                    Append(q, r)[i] = Append(q, r)[j]
             PROVE  i = j
  BY <1>1 DEF Distinct
<1>2. CASE i \in 1..Len(q) /\ j \in 1..Len(q)
  BY <1>1, <1>2 DEF Distinct
<1>3. CASE i = Len(q) + 1 \/ j = Len(q) + 1
  BY <1>1, <1>3
<1> QED
  BY <1>1, <1>2, <1>3

-----------------------------------------------------------------------------
(* The inductive invariant: how the worker's place fits the phase of the   *)
(* queue, and where each record is.                                        *)

Early == {"boot", "select"}
Closing == {"spin", "failspin"}
Late == {"deferred", "drain", "tailflush", "wait", "done", "faildrain"}

ControlInv ==
  /\ worker \in Early => phase = "open"
  /\ worker \in Closing => phase = "closing"
  /\ worker \in Late => phase = "closed"
  /\ worker = "flush" => phase # "closing"
  /\ hand # <<>> => worker \in {"flush", "spin", "deferred"}
  /\ worker = "deferred" => hand # <<>>
  /\ worker \in {"boot", "failspin", "faildrain", "wait", "done"} => batch = <<>>
  /\ worker \in {"boot", "failspin", "faildrain", "done"} =>
       \A s \in Slot : task[s].group = <<>>
  /\ \A s \in Slot : task[s].at = "idle" => task[s].group = <<>>

B == ToSet(batch)
H == ToSet(hand)
R == ToSet(ring)
G(s) == ToSet(task[s].group)

(* A record waits in the ring, or the pipeline has it in one place.        *)
PlacesInv ==
  /\ Distinct(ring)
  /\ \A r \in R : fate[r] = "queued"
  /\ \A r \in B \cup H : fate[r] = "taken"
  /\ \A s \in Slot : \A r \in G(s) : fate[r] = "taken"
  /\ B \cap H = {}
  /\ \A s \in Slot : G(s) \cap (B \cup H) = {}
  /\ \A s, t \in Slot : s # t => G(s) \cap G(t) = {}

(* Only what the queue accepted has an outcome.                            *)
OutcomeInv ==
  \A r \in Record : fate[r] \notin {"queued", "taken"} => outcome[r] = "none"

(* NothingLost, record by record.                                          *)
Gone == worker \in {"wait", "done"}

Accounted(r) ==
  (fate[r] \in {"queued", "taken"} /\ outcome[r] = "none") <=>
    r \in B \/ r \in H \/ (\E s \in Slot : r \in G(s)) \/ (~Gone /\ r \in R)

LossInv == \A r \in Record : Accounted(r)

Inv == TypeOK /\ ControlInv /\ PlacesInv /\ OutcomeInv /\ LossInv

LEMMA SetsInRecord ==
  ASSUME TypeOK
  PROVE  /\ B \subseteq Record /\ H \subseteq Record /\ R \subseteq Record
         /\ \A s \in Slot : G(s) \subseteq Record
BY SetType DEF TypeOK, QueueTypeOK, B, H, R, G, Task

LEMMA InFlightIs == InFlight = UNION {G(s) : s \in Slot}
BY DEF InFlight, G

LEMMA LossIsNothingLost == TypeOK /\ LossInv => NothingLost
<1> SUFFICES ASSUME TypeOK, LossInv PROVE NothingLost
  OBVIOUS
<1>1. ASSUME NEW r \in Record PROVE r \in Unsettled <=> r \in Held
  BY InFlightIs DEF Unsettled, Held, LossInv, Accounted, Gone, B, H, R
<1>2. Held \subseteq Record
  BY SetsInRecord, InFlightIs DEF Held, B, H, R
<1>3. Unsettled \subseteq Record
  BY DEF Unsettled
<1> QED
  BY <1>1, <1>2, <1>3 DEF NothingLost

LEMMA InitSinkInv == Init => Inv
<1> SUFFICES ASSUME Init PROVE Inv
  OBVIOUS
<1>1. B = {} /\ H = {} /\ R = {} /\ \A s \in Slot : G(s) = {}
  BY SetOfEmpty DEF Init, QueueInit, NoTask, B, H, R, G
<1>2. TypeOK
  <2>1. fate \in [Record -> QueueFate] /\ outcome \in [Record -> Outcomes]
    BY DEF Init, QueueInit, QueueFate, Outcomes
  <2>2. NoTask \in Task
    BY DEF NoTask, Task
  <2>3. task \in [Slot -> Task]
    BY <2>2 DEF Init
  <2>4. dropped \in [Causes -> Int] /\ size \in [Record -> Nat]
    BY DEF Init
  <2>5. ring \in Seq(Record) /\ batch \in Seq(Record) /\ hand \in Seq(Record)
        /\ Len(hand) = 0
    BY DEF Init, QueueInit
  <2>6. phase \in {"open", "closing", "closed"} /\ worker \in WorkerPoint
    BY DEF Init, QueueInit, WorkerPoint
  <2>7. shutdown \in BOOLEAN /\ late \in BOOLEAN
    BY DEF Init
  <2>8. batchBytes \in Nat /\ pending \in Int
    BY DEF Init
  <2>9. QueueTypeOK
    BY <2>1, <2>5, <2>6 DEF QueueTypeOK
  <2> QED
    BY <2>1, <2>3, <2>4, <2>5, <2>6, <2>7, <2>8, <2>9 DEF TypeOK
<1>3. ControlInv
  BY DEF Init, QueueInit, NoTask, ControlInv, Early, Closing, Late
<1>4. PlacesInv
  BY <1>1 DEF Init, QueueInit, PlacesInv, Distinct
<1>5. OutcomeInv /\ LossInv
  BY <1>1 DEF Init, QueueInit, OutcomeInv, LossInv, Accounted
<1> QED
  BY <1>2, <1>3, <1>4, <1>5 DEF Inv

-----------------------------------------------------------------------------
(* The three kinds of change a step makes to where the records are.        *)

RecordInv == PlacesInv /\ OutcomeInv /\ LossInv

(* Nothing moves.                                                          *)
LEMMA Keep ==
  ASSUME RecordInv, UNCHANGED <<ring, fate, batch, hand, outcome>>,
         \A s \in Slot : task'[s].group = task[s].group, Gone' <=> Gone
  PROVE  RecordInv'
<1>1. B' = B /\ H' = H /\ R' = R /\ \A s \in Slot : G(s)' = G(s)
  BY DEF B, H, R, G
<1>2. PlacesInv'
  BY <1>1 DEF RecordInv, PlacesInv, Distinct
<1>3. OutcomeInv'
  BY DEF RecordInv, OutcomeInv
<1>4. LossInv'
  BY <1>1 DEF RecordInv, LossInv, Accounted
<1> QED
  BY <1>2, <1>3, <1>4 DEF RecordInv

(* The records of X leave the pipeline with an outcome, on entering wait   *)
(* those of the ring with them.                                            *)
LEMMA Shrink ==
  ASSUME TypeOK, RecordInv, NEW X, NEW o \in Outcomes \ {"none"}, Settle(X, o),
         UNCHANGED <<ring, fate>>, B' = B \ X, H' = H \ X,
         \A s \in Slot : G(s)' = G(s) \ X,
         \A r \in X : \/ r \in B \cup H
                      \/ \E s \in Slot : r \in G(s)
                      \/ r \in R /\ Gone',
         Gone => Gone', Gone' /\ ~Gone => R \subseteq X
  PROVE  RecordInv'
<1> USE DEF RecordInv
<1>1. \A r \in Record : outcome'[r] = IF r \in X THEN o ELSE outcome[r]
  BY DEF Settle
<1>2. R' = R
  BY DEF R
<1>3. PlacesInv'
  BY <1>2 DEF PlacesInv, Distinct
<1>4. \A r \in X : fate[r] \in {"queued", "taken"}
  BY DEF PlacesInv
<1>5. OutcomeInv'
  BY <1>1, <1>4 DEF OutcomeInv
<1>6. ASSUME NEW r \in Record PROVE Accounted(r)'
  <2>1. CASE r \in X
    BY <1>1, <1>2, <2>1 DEF Accounted, Gone, PlacesInv
  <2>2. CASE r \notin X
    BY <1>1, <1>2, <2>2 DEF LossInv, Accounted, Gone
  <2> QED
    BY <2>1, <2>2
<1>7. LossInv'
  BY <1>6 DEF LossInv
<1> QED
  BY <1>3, <1>5, <1>7

LEMMA EndTaskKeeps ==
  ASSUME Inv, NEW s \in Slot, NEW o \in Outcomes \ {"none"}, EndTask(s, o),
         UNCHANGED <<queueVars, worker, batch, hand>>
  PROVE  RecordInv'
<1> DEFINE X == G(s)
<1> USE DEF Inv
<1>1. RecordInv /\ UNCHANGED <<ring, fate>> /\ B' = B /\ H' = H /\ (Gone' <=> Gone)
  BY DEF RecordInv, queueVars, B, H, Gone
<1>2. Settle(X, o)
  BY DEF EndTask, G
<1>3. B \cap X = {} /\ H \cap X = {}
  BY DEF PlacesInv
<1>4. \A t \in Slot : task'[t] = IF t = s THEN NoTask ELSE task[t]
  BY DEF EndTask, TypeOK
<1>5. \A t \in Slot : G(t)' = G(t) \ X
  <2> SUFFICES ASSUME NEW t \in Slot PROVE G(t)' = G(t) \ X
    OBVIOUS
  <2>1. CASE t = s
    BY <1>4, <2>1, SetOfEmpty DEF G, NoTask
  <2>2. CASE t # s
    BY <1>4, <2>2 DEF G, PlacesInv
  <2> QED
    BY <2>1, <2>2
<1>6. B' = B \ X /\ H' = H \ X
  BY <1>1, <1>3
<1>7. \A r \in X : \E t \in Slot : r \in G(t)
  OBVIOUS
<1> HIDE DEF X
<1> QED
  BY <1>1, <1>2, <1>5, <1>6, <1>7, Shrink

(* A record with nowhere else to be is appended to the batch, kept in hand,*)
(* or dropped as oversize.                                                 *)
LEMMA PushCases ==
  ASSUME TypeOK, NEW r \in Record, PushOrDrop(r)
  PROVE  /\ worker' \in {"flush", Home}
         /\ \/ B' = B /\ H' = {} /\ Settle({r}, "send_failed")
            \/ B' = B /\ H' = {r} /\ UNCHANGED outcome /\ worker' = "flush"
            \/ B' = B \cup {r} /\ H' = {} /\ UNCHANGED outcome
         /\ worker' # "flush" => hand' = <<>>
<1>1. CASE Oversize(r) /\ hand' = <<>> /\ SetBatch(batch, batchBytes)
           /\ Settle({r}, "send_failed")
  BY <1>1, SetOfEmpty DEF SetBatch, B, H
<1>2. CASE hand' = <<r>> /\ worker' = "flush" /\ UNCHANGED <<batch, outcome>>
  BY <1>2, SetOfOne DEF B, H
<1>3. CASE hand' = <<>> /\ SetBatch(Append(batch, r), batchBytes + size[r])
           /\ UNCHANGED outcome
  <2>1. B' = B \cup {r}
    BY <1>3, SetOfAppend DEF SetBatch, B, TypeOK
  <2> QED
    BY <1>3, <2>1, SetOfEmpty DEF SetBatch, H
<1> QED
  BY <1>1, <1>2, <1>3 DEF PushOrDrop

(* A pop from the ring followed by push_or_drop.                           *)
LEMMA TakeKeeps ==
  ASSUME Inv, Take, PushOrDrop(Head(ring)), hand = <<>>, ~Gone, UNCHANGED task
  PROVE  RecordInv'
<1> DEFINE r == Head(ring)
<1> USE DEF Inv
<1>1. /\ r \in Record /\ R = R' \cup {r} /\ r \notin R' /\ Distinct(ring')
  BY SetOfTail DEF TypeOK, QueueTypeOK, Take, R, PlacesInv
<1>2. H = {} /\ (\A s \in Slot : G(s)' = G(s))
  BY SetOfEmpty DEF H, G
<1>3. fate[r] = "queued" /\ outcome[r] = "none"
  BY <1>1 DEF PlacesInv, LossInv, Accounted
<1>4. /\ r \notin B /\ \A s \in Slot : r \notin G(s)
  BY <1>3 DEF PlacesInv
<1>5. \A q \in Record : fate'[q] = IF q = r THEN "taken" ELSE fate[q]
  BY DEF Take, TypeOK, QueueTypeOK
<1>6. /\ ~Gone'
      /\ \/ B' = B /\ H' = {} /\ Settle({r}, "send_failed")
         \/ B' = B /\ H' = {r} /\ UNCHANGED outcome
         \/ B' = B \cup {r} /\ H' = {} /\ UNCHANGED outcome
  BY <1>1, PushCases DEF Gone, Home
<1>7. R \subseteq Record /\ B \subseteq Record /\ \A s \in Slot : G(s) \subseteq Record
  BY SetsInRecord
<1>8. \A q \in Record : q # r => outcome'[q] = outcome[q]
  BY <1>6 DEF Settle
<1> HIDE DEF r
<1>9. PlacesInv'
  <2>1. \A q \in R' : fate'[q] = "queued"
    BY <1>1, <1>5, <1>7 DEF PlacesInv
  <2>2. /\ \A q \in B' \cup H' : fate'[q] = "taken"
        /\ \A s \in Slot : \A q \in G(s) : fate'[q] = "taken"
    BY <1>1, <1>2, <1>5, <1>6, <1>7 DEF PlacesInv
  <2>3. /\ B' \cap H' = {}
        /\ \A s \in Slot : G(s) \cap (B' \cup H') = {}
    BY <1>2, <1>4, <1>6 DEF PlacesInv
  <2> QED
    BY <1>1, <1>2, <2>1, <2>2, <2>3 DEF PlacesInv
<1>10. OutcomeInv'
  BY <1>1, <1>5, <1>8 DEF OutcomeInv
<1>11. LossInv'
  <2> SUFFICES ASSUME NEW q \in Record PROVE Accounted(q)'
    BY DEF LossInv
  <2>1. CASE q = r
    <3>1. CASE Settle({r}, "send_failed") /\ B' = B /\ H' = {}
      BY <1>1, <1>2, <1>4, <1>5, <1>6, <2>1, <3>1 DEF Accounted, Settle
    <3>2. CASE UNCHANGED outcome /\ r \in B' \cup H'
      BY <1>1, <1>3, <1>5, <2>1, <3>2 DEF Accounted
    <3> QED
      BY <1>6, <3>1, <3>2
  <2>2. CASE q # r
    <3>1. Accounted(q)
      BY DEF LossInv
    <3> QED
      BY <1>1, <1>2, <1>5, <1>6, <1>8, <2>2, <3>1 DEF Accounted
  <2> QED
    BY <2>1, <2>2
<1> QED
  BY <1>9, <1>10, <1>11 DEF RecordInv

LEMMA HandIsOne ==
  ASSUME TypeOK, hand # <<>>
  PROVE  hand[1] \in Record /\ hand = <<hand[1]>> /\ H = {hand[1]}
<1>1. hand \in Seq(Record) /\ Len(hand) = 1
  <2>1. hand \in Seq(Record) /\ Len(hand) <= 1
    BY DEF TypeOK
  <2>2. Len(hand) \in Nat \ {0}
    BY <2>1, EmptySeq
  <2>3. \A n \in Nat \ {0} : n <= 1 => n = 1
    OBVIOUS
  <2> QED
    BY <2>1, <2>2, <2>3
<1>2. hand[1] \in Record /\ hand = <<hand[1]>>
  BY <1>1
<1> QED
  BY <1>2, SetOfOne DEF H

LEMMA DeferredKeeps ==
  ASSUME Inv, hand # <<>>, PushOrDrop(hand[1]), ~Gone, UNCHANGED <<ring, fate, task>>
  PROVE  RecordInv'
<1> DEFINE r == hand[1]
<1> USE DEF Inv
<1>1. r \in Record /\ H = {r}
  BY HandIsOne
<1>2. /\ ~Gone' /\ R' = R /\ (\A s \in Slot : G(s)' = G(s))
      /\ \/ B' = B /\ H' = {} /\ Settle({r}, "send_failed")
         \/ B' = B /\ H' = {r} /\ UNCHANGED outcome
         \/ B' = B \cup {r} /\ H' = {} /\ UNCHANGED outcome
  BY <1>1, PushCases DEF Gone, Home, R, G
<1>3. r \notin B /\ \A s \in Slot : r \notin G(s)
  BY <1>1 DEF PlacesInv
<1> HIDE DEF r
<1>4. CASE B' = B /\ H' = {} /\ Settle({r}, "send_failed")
  <2>1. B' = B \ {r} /\ H' = H \ {r} /\ \A s \in Slot : G(s)' = G(s) \ {r}
    BY <1>1, <1>2, <1>3, <1>4
  <2>2. RecordInv /\ UNCHANGED <<ring, fate>> /\ "send_failed" \in Outcomes \ {"none"}
    BY DEF RecordInv, Outcomes
  <2> QED
    BY <1>1, <1>2, <1>4, <2>1, <2>2, Shrink
<1>5. CASE UNCHANGED outcome /\ B' \cup H' = B \cup H /\ B' \cap H' = {}
  <2>1. PlacesInv'
    BY <1>2, <1>5 DEF PlacesInv, Distinct
  <2>2. OutcomeInv'
    BY <1>5 DEF OutcomeInv
  <2>3. LossInv'
    BY <1>2, <1>5 DEF LossInv, Accounted
  <2> QED
    BY <2>1, <2>2, <2>3 DEF RecordInv
<1> QED
  BY <1>1, <1>2, <1>3, <1>4, <1>5

LEMMA SpawnKeeps ==
  ASSUME Inv, NEW s \in Slot, SpawnFlush(s)
  PROVE  RecordInv'
<1> USE DEF Inv
<1>1. \A t \in Slot : task'[t].group = IF t = s THEN batch ELSE task[t].group
  BY DEF SpawnFlush, TypeOK
<1>2. G(s)' = B /\ \A t \in Slot : t # s => G(t)' = G(t)
  BY <1>1 DEF G, B
<1>3. G(s) = {} /\ ~Gone /\ R' = R /\ UNCHANGED <<ring, fate>>
  BY SetOfEmpty DEF SpawnFlush, ControlInv, G, Gone, R, queueVars
<1>4. CASE worker = "tailflush"
  <2>1. H = {} /\ B' = {} /\ H' = {} /\ Gone' /\ Settle(R, "shutdown_dropped")
    BY <1>4, SetOfEmpty DEF SpawnFlush, ControlInv, B, H, Gone, R
  <2>2. \A r \in Record :
          outcome'[r] = IF r \in R THEN "shutdown_dropped" ELSE outcome[r]
    BY <2>1 DEF Settle
  <2>3. PlacesInv'
    BY <1>2, <1>3, <2>1 DEF PlacesInv, Distinct
  <2>4. OutcomeInv'
    BY <1>3, <2>2 DEF OutcomeInv, PlacesInv
  <2>5. LossInv'
    <3> SUFFICES ASSUME NEW r \in Record PROVE Accounted(r)'
      BY DEF LossInv
    <3>1. Accounted(r)
      BY DEF LossInv
    <3> QED
      BY <1>2, <1>3, <2>1, <2>2, <3>1 DEF Accounted, PlacesInv
  <2> QED
    BY <2>3, <2>4, <2>5 DEF RecordInv
<1>5. CASE worker = "flush"
  <2>1. UNCHANGED outcome /\ ~Gone' /\ H' = {} /\ B' = H
    <3>1. CASE hand = <<>>
      BY <1>5, <3>1, SetOfEmpty DEF SpawnFlush, SetBatch, Gone, Home, B, H
    <3>2. CASE hand # <<>>
      BY <1>5, <3>2, SetOfEmpty DEF SpawnFlush, SetBatch, Gone, Home, B, H
    <3> QED
      BY <3>1, <3>2
  <2>2. PlacesInv'
    BY <1>2, <1>3, <2>1 DEF PlacesInv, Distinct
  <2>3. OutcomeInv'
    BY <1>3, <2>1 DEF OutcomeInv
  <2>4. LossInv'
    BY <1>2, <1>3, <2>1 DEF LossInv, Accounted
  <2> QED
    BY <2>2, <2>3, <2>4 DEF RecordInv
<1> QED
  BY <1>4, <1>5 DEF SpawnFlush

LEMMA DropKeeps ==
  ASSUME Inv, DropFlush
  PROVE  RecordInv'
<1> USE DEF Inv
<1> DEFINE tail == worker = "tailflush"
           X == B \cup H \cup (IF tail THEN R ELSE {})
           rest == IF tail THEN ring ELSE <<>>
<1>1. /\ batch \in Seq(Record) /\ hand \in Seq(Record) /\ rest \in Seq(Record)
      /\ ToSet(rest) = IF tail THEN R ELSE {}
  <2>1. batch \in Seq(Record) /\ hand \in Seq(Record) /\ ring \in Seq(Record)
    BY DEF TypeOK, QueueTypeOK
  <2>2. CASE tail
    BY <2>1, <2>2 DEF R
  <2>3. CASE ~tail
    BY <2>1, <2>3, SetOfEmpty
  <2> QED
    BY <2>2, <2>3
<1>2. ToSet(batch \o hand \o rest) = X
  <2> HIDE DEF rest
  <2>1. ToSet(batch \o hand \o rest) = B \cup H \cup ToSet(rest)
    BY <1>1, SetOfConcat3 DEF B, H
  <2> QED
    BY <1>1, <2>1
<1>3. Settle(X, "shutdown_dropped")
  BY <1>2 DEF DropFlush
<1>4. /\ B' = {} /\ H' = {} /\ (\A s \in Slot : G(s)' = G(s))
      /\ ~Gone /\ (Gone' <=> tail) /\ UNCHANGED <<ring, fate>>
  BY SetOfEmpty DEF DropFlush, B, H, G, Gone, queueVars
<1>5. \A s \in Slot : G(s)' = G(s) \ X
  <2>1. \A s \in Slot : G(s) \cap R = {} /\ G(s) \cap (B \cup H) = {}
    BY DEF PlacesInv
  <2> QED
    BY <1>4, <2>1
<1>6. B' = B \ X /\ H' = H \ X
  BY <1>4
<1>7. \A r \in X : r \in B \cup H \/ (r \in R /\ Gone')
  BY <1>4
<1>8. Gone' /\ ~Gone => R \subseteq X
  BY <1>4
<1>9. RecordInv /\ "shutdown_dropped" \in Outcomes \ {"none"}
  BY DEF RecordInv, Outcomes
<1> HIDE DEF X, tail, rest
<1> QED
  BY <1>3, <1>4, <1>5, <1>6, <1>7, <1>8, <1>9, Shrink

LEMMA DrainStopKeeps ==
  ASSUME Inv, DrainStop
  PROVE  RecordInv'
<1> USE DEF Inv
<1>1. ~Gone /\ UNCHANGED <<ring, fate, hand, task>> /\ RecordInv
  BY DEF DrainStop, Gone, queueVars, RecordInv
<1>2. CASE worker' = "tailflush" /\ UNCHANGED <<batch, outcome>>
  BY <1>1, <1>2, Keep DEF Gone
<1>3. CASE /\ worker' = "wait" /\ batch' = <<>>
           /\ Settle(ToSet(batch \o ring), "shutdown_dropped")
  <2> DEFINE X == B \cup R
  <2>1. ToSet(batch \o ring) = X
    BY SetOfConcat DEF TypeOK, QueueTypeOK, B, R
  <2>2. B' = {} /\ H' = H /\ (\A s \in Slot : G(s)' = G(s)) /\ Gone'
    BY <1>1, <1>3, SetOfEmpty DEF B, H, G, Gone
  <2>3. H \cap X = {} /\ \A s \in Slot : G(s) \cap X = {}
    BY DEF PlacesInv
  <2>4. B' = B \ X /\ H' = H \ X /\ \A s \in Slot : G(s)' = G(s) \ X
    BY <2>2, <2>3
  <2>5. \A r \in X : r \in B \cup H \/ (r \in R /\ Gone')
    BY <2>2
  <2>6. Settle(X, "shutdown_dropped") /\ "shutdown_dropped" \in Outcomes \ {"none"}
    BY <1>3, <2>1 DEF Outcomes
  <2>7. R \subseteq X
    OBVIOUS
  <2> HIDE DEF X
  <2> QED
    BY <1>1, <2>2, <2>4, <2>5, <2>6, <2>7, Shrink
<1> QED
  BY <1>2, <1>3 DEF DrainStop

LEMMA StopKeeps ==
  ASSUME Inv, StopWaiting
  PROVE  RecordInv'
<1> USE DEF Inv
<1> DEFINE X == UNION {G(s) : s \in Slot}
<1>1. Settle(X, "shutdown_dropped") /\ "shutdown_dropped" \in Outcomes \ {"none"}
  BY InFlightIs DEF StopWaiting, Outcomes
<1>2. /\ Gone /\ Gone' /\ UNCHANGED <<ring, fate, batch, hand>> /\ RecordInv
      /\ \A s \in Slot : task'[s].group = <<>>
  BY DEF StopWaiting, Gone, queueVars, RecordInv, NoTask
<1>3. B' = B /\ H' = H /\ \A s \in Slot : G(s)' = {}
  BY <1>2, SetOfEmpty DEF B, H, G
<1>4. \A s \in Slot : G(s) \subseteq X
  OBVIOUS
<1>5. B \cap X = {} /\ H \cap X = {}
  BY DEF PlacesInv
<1>6. B' = B \ X /\ H' = H \ X /\ \A s \in Slot : G(s)' = G(s) \ X
  BY <1>3, <1>4, <1>5
<1>7. \A r \in X : \E s \in Slot : r \in G(s)
  OBVIOUS
<1> HIDE DEF X
<1> QED
  BY <1>1, <1>2, <1>6, <1>7, Shrink

(* The runtime could not be built: only the ring holds anything.           *)
LEMMA FailDrainKeeps ==
  ASSUME Inv, FailDrain
  PROVE  RecordInv'
<1> USE DEF Inv
<1>1. B = {} /\ H = {} /\ \A s \in Slot : G(s) = {}
  BY SetOfEmpty DEF FailDrain, ControlInv, B, H, G
<1>2. B' = {} /\ H' = {} /\ R' = {} /\ (\A s \in Slot : G(s)' = {}) /\ ring' = <<>>
  BY <1>1, SetOfEmpty DEF FailDrain, B, H, G, R
<1>3. \A r \in Record :
        /\ fate'[r] = IF r \in R THEN "taken" ELSE fate[r]
        /\ outcome'[r] = IF r \in R THEN "worker_closed" ELSE outcome[r]
  BY DEF FailDrain, Settle, R
<1>4. ~Gone
  BY DEF FailDrain, Gone
<1>5. PlacesInv'
  BY <1>2 DEF PlacesInv, Distinct
<1>6. OutcomeInv'
  BY <1>3 DEF OutcomeInv
<1>7. LossInv'
  <2> SUFFICES ASSUME NEW r \in Record PROVE Accounted(r)'
    BY DEF LossInv
  <2>1. Accounted(r)
    BY DEF LossInv
  <2> QED
    BY <1>1, <1>2, <1>3, <1>4, <2>1 DEF Accounted
<1> QED
  BY <1>5, <1>6, <1>7 DEF RecordInv

LEMMA RefusedKeeps ==
  ASSUME Inv, NEW r \in Record, EnqueueRefused(r)
  PROVE  RecordInv'
<1> USE DEF Inv
<1>1. /\ B' = B /\ H' = H /\ R' = R /\ (\A s \in Slot : G(s)' = G(s))
      /\ (Gone' <=> Gone) /\ UNCHANGED <<ring, outcome>>
  BY DEF EnqueueRefused, Refuse, B, H, R, G, Gone
<1>2. /\ fate[r] = "fresh"
      /\ \A q \in Record : fate'[q] = IF q = r THEN "worker_closed" ELSE fate[q]
  BY DEF EnqueueRefused, Refuse, TypeOK, QueueTypeOK
<1>3. r \notin B \cup H \cup R /\ \A s \in Slot : r \notin G(s)
  BY <1>2 DEF PlacesInv
<1>4. B \cup H \cup R \subseteq Record /\ \A s \in Slot : G(s) \subseteq Record
  BY SetsInRecord
<1>5. PlacesInv'
  BY <1>1, <1>2, <1>3, <1>4 DEF PlacesInv, Distinct
<1>6. OutcomeInv'
  BY <1>1, <1>2 DEF OutcomeInv
<1>7. LossInv'
  <2> SUFFICES ASSUME NEW q \in Record PROVE Accounted(q)'
    BY DEF LossInv
  <2>1. Accounted(q)
    BY DEF LossInv
  <2> QED
    BY <1>1, <1>2, <1>3, <2>1 DEF Accounted
<1> QED
  BY <1>5, <1>6, <1>7 DEF RecordInv

LEMMA EnqueueKeeps ==
  ASSUME Inv, NEW r \in Record, Enqueue(r)
  PROVE  RecordInv'
<1> USE DEF Inv
<1>1. /\ B' = B /\ H' = H /\ (\A s \in Slot : G(s)' = G(s))
      /\ (Gone' <=> Gone) /\ UNCHANGED outcome
  BY DEF Enqueue, B, H, G, Gone
<1>2. ~Gone /\ fate[r] = "fresh" /\ outcome[r] = "none" /\ ring \in Seq(Record)
  BY DEF Enqueue, Offer, Gone, ControlInv, Late, OutcomeInv, TypeOK, QueueTypeOK
<1>3. r \notin B \cup H \cup R /\ \A s \in Slot : r \notin G(s)
  BY <1>2 DEF PlacesInv
<1>4. B \cup H \cup R \subseteq Record /\ \A s \in Slot : G(s) \subseteq Record
  BY SetsInRecord
<1>5. CASE /\ ring' = Append(ring, r)
           /\ fate' = [fate EXCEPT ![r] = "queued"]
  <2>1. R' = R \cup {r} /\ Distinct(ring')
    BY <1>2, <1>3, <1>5, SetOfAppend, DistinctAppend DEF R, PlacesInv
  <2>2. \A q \in Record : fate'[q] = IF q = r THEN "queued" ELSE fate[q]
    BY <1>5 DEF TypeOK, QueueTypeOK
  <2>3. PlacesInv'
    BY <1>1, <1>3, <1>4, <2>1, <2>2 DEF PlacesInv
  <2>4. OutcomeInv'
    BY <1>1, <2>2 DEF OutcomeInv
  <2>5. LossInv'
    BY <1>1, <1>2, <1>3, <2>1, <2>2 DEF LossInv, Accounted
  <2> QED
    BY <2>3, <2>4, <2>5 DEF RecordInv
<1>6. CASE /\ ring' = ring
           /\ fate' = [fate EXCEPT ![r] = "queued", ![r] = "queue_full"]
  <2>1. R' = R /\ Distinct(ring')
    BY <1>6 DEF R, PlacesInv
  <2>2. \A q \in Record : fate'[q] = IF q = r THEN "queue_full" ELSE fate[q]
    BY <1>6 DEF TypeOK, QueueTypeOK
  <2>3. PlacesInv'
    BY <1>1, <1>3, <1>4, <2>1, <2>2 DEF PlacesInv
  <2>4. OutcomeInv'
    BY <1>1, <1>2, <2>2 DEF OutcomeInv
  <2>5. LossInv'
    BY <1>1, <1>2, <1>3, <2>1, <2>2 DEF LossInv, Accounted
  <2> QED
    BY <2>3, <2>4, <2>5 DEF RecordInv
<1>7. CASE /\ Len(ring) = Capacity /\ ring' = Append(Tail(ring), r)
           /\ fate' = [fate EXCEPT ![r] = "queued", ![Head(ring)] = "queue_full"]
  <2> DEFINE v == Head(ring)
  <2>1. ring # <<>>
    <3>1. Len(ring) # 0
      BY <1>7, QueueAssumption
    <3> QED
      BY <3>1, <1>2, EmptySeq
  <2>2. /\ v \in Record /\ Tail(ring) \in Seq(Record) /\ Distinct(Tail(ring))
        /\ R = ToSet(Tail(ring)) \cup {v} /\ v \notin ToSet(Tail(ring))
    <3>1. Distinct(ring)
      BY DEF PlacesInv
    <3> QED
      BY <1>2, <2>1, <3>1, SetOfTail DEF R
  <2>3. R' = (R \ {v}) \cup {r} /\ Distinct(ring')
    <3> DEFINE rest == Tail(ring)
    <3>1. rest \in Seq(Record) /\ Distinct(rest) /\ r \notin ToSet(rest)
          /\ ring' = Append(rest, r) /\ ToSet(rest) = R \ {v}
      BY <1>3, <1>7, <2>2
    <3> HIDE DEF rest
    <3>2. ToSet(Append(rest, r)) = ToSet(rest) \cup {r}
      BY <3>1, SetOfAppend
    <3>3. Distinct(Append(rest, r))
      BY <3>1, DistinctAppend
    <3> QED
      BY <3>1, <3>2, <3>3 DEF R
  <2>4. fate[v] = "queued" /\ v # r /\ outcome[v] = "none"
    BY <1>2, <2>2 DEF PlacesInv, LossInv, Accounted
  <2>5. \A q \in Record : fate'[q] = IF q = v THEN "queue_full"
                                     ELSE IF q = r THEN "queued" ELSE fate[q]
    BY <1>7, <2>2, <2>4 DEF TypeOK, QueueTypeOK
  <2>6. v \notin B \cup H /\ \A s \in Slot : v \notin G(s)
    BY <2>4 DEF PlacesInv
  <2> HIDE DEF v
  <2>7. PlacesInv'
    <3>1. ASSUME NEW q \in R' PROVE fate'[q] = "queued"
      <4>1. q = r \/ (q \in R /\ q # v)
        BY <2>3
      <4> QED
        BY <1>4, <2>4, <2>5, <4>1 DEF PlacesInv
    <3>2. ASSUME NEW q \in B \cup H PROVE fate'[q] = "taken"
      BY <1>3, <1>4, <2>5, <2>6 DEF PlacesInv
    <3>3. ASSUME NEW s \in Slot, NEW q \in G(s) PROVE fate'[q] = "taken"
      BY <1>3, <1>4, <2>5, <2>6 DEF PlacesInv
    <3> QED
      BY <1>1, <2>3, <3>1, <3>2, <3>3 DEF PlacesInv
  <2>8. OutcomeInv'
    BY <1>1, <2>4, <2>5 DEF OutcomeInv
  <2>9. LossInv'
    BY <1>1, <1>2, <1>3, <2>3, <2>4, <2>5, <2>6 DEF LossInv, Accounted
  <2> QED
    BY <2>7, <2>8, <2>9 DEF RecordInv
<1> QED
  BY <1>5, <1>6, <1>7 DEF Enqueue, Offer, Full, Victim

-----------------------------------------------------------------------------
(* Types, and where the worker stands.                                     *)
LEMMA DropType ==
  ASSUME TypeOK, NEW c \in Causes, NEW n \in Int, Drop(c, n)
  PROVE  dropped' \in [Causes -> Int]
BY DEF Drop, TypeOK

LEMMA SettleType ==
  ASSUME TypeOK, NEW X, NEW o \in Outcomes, Settle(X, o)
  PROVE  outcome' \in [Record -> Outcomes]
BY DEF Settle, TypeOK

LEMMA LenIsInt ==
  ASSUME NEW q \in Seq(Record)
  PROVE  Len(q) \in Int
BY LenProperties

(* Everything the worker writes when it pushes a record.                   *)
PushType ==
  /\ batch' \in Seq(Record)
  /\ batchBytes' \in Nat
  /\ hand' \in Seq(Record) /\ Len(hand') <= 1
  /\ dropped' \in [Causes -> Int]
  /\ outcome' \in [Record -> Outcomes]

LEMMA PushTypes ==
  ASSUME TypeOK, NEW r \in Record, PushOrDrop(r)
  PROVE  PushType
<1>1. /\ batch \in Seq(Record) /\ batchBytes \in Nat /\ size[r] \in Nat
      /\ dropped \in [Causes -> Int] /\ outcome \in [Record -> Outcomes]
  BY DEF TypeOK
<1>2. /\ <<>> \in Seq(Record) /\ Len(<<>>) <= 1
      /\ <<r>> \in Seq(Record) /\ Len(<<r>>) <= 1
  OBVIOUS
<1>3. CASE /\ hand' = <<>> /\ SetBatch(batch, batchBytes)
           /\ Drop("send_failed", 1) /\ Settle({r}, "send_failed")
  <2>1. dropped' \in [Causes -> Int]
    BY <1>3, DropType DEF Causes
  <2>2. outcome' \in [Record -> Outcomes]
    BY <1>3, SettleType DEF Outcomes
  <2> QED
    BY <1>1, <1>2, <1>3, <2>1, <2>2 DEF SetBatch, PushType
<1>4. CASE hand' = <<r>> /\ UNCHANGED <<batch, batchBytes, dropped, outcome>>
  BY <1>1, <1>2, <1>4 DEF PushType
<1>5. CASE /\ hand' = <<>> /\ SetBatch(Append(batch, r), batchBytes + size[r])
           /\ UNCHANGED <<dropped, outcome>>
  <2>1. Append(batch, r) \in Seq(Record) /\ batchBytes + size[r] \in Nat
    BY <1>1, AppendProperties
  <2> QED
    BY <1>1, <1>2, <1>5, <2>1 DEF SetBatch, PushType
<1> QED
  BY <1>3, <1>4, <1>5 DEF PushOrDrop

(* What one permit's task may become.                                      *)
TaskActs(s) == TaskStep(s) \/ Reply(s) \/ TaskDeadlinePasses(s)

EndOutcomes == {"acked", "send_failed", "shutdown_dropped"}

GoesOn(s) ==
  /\ KeepTask(s)
  /\ \A t \in Slot : task'[t].group = task[t].group
  /\ \A t \in Slot : task'[t].at = "idle" <=> task[t].at = "idle"
  /\ task' \in [Slot -> Task]

LEMMA TaskCases ==
  ASSUME TypeOK, NEW s \in Slot, TaskActs(s)
  PROVE  /\ UNCHANGED <<queueVars, size, worker, batch, batchBytes, hand, shutdown, late>>
         /\ (\E o \in EndOutcomes : EndTask(s, o)) \/ GoesOn(s)
<1>1. UNCHANGED <<queueVars, size, worker, batch, batchBytes, hand, shutdown, late>>
  BY DEF TaskActs, TaskStep, Reply, BeginAttempt, Encoded, EncodePanics, PutExpires,
         HearShutdown, Acknowledged, PutRefused, PutFails, TaskDeadlinePasses, At
<1> SUFFICES (\E o \in EndOutcomes : EndTask(s, o)) \/ GoesOn(s)
  BY <1>1
<1>2. ASSUME NEW a \in {"encode", "put", "backoff"}, KeepTask(s),
             task' = [task EXCEPT ![s].at = a], task[s].at # "idle"
      PROVE  GoesOn(s)
  BY <1>2 DEF TypeOK, Task, GoesOn
<1>a. ASSUME NEW w \in Task, KeepTask(s), task' = [task EXCEPT ![s] = w],
             w.group = task[s].group, w.at = "idle" <=> task[s].at = "idle"
      PROVE  GoesOn(s)
  BY <1>a DEF TypeOK, GoesOn
<1>b. task[s] \in Task
  BY DEF TypeOK
<1>3. CASE BeginAttempt(s)
  BY <1>2, <1>3 DEF BeginAttempt, EndOutcomes, At
<1>4. CASE Encoded(s)
  BY <1>2, <1>4 DEF Encoded, At
<1>5. CASE EncodePanics(s) \/ PutRefused(s)
  BY <1>5 DEF EncodePanics, PutRefused, EndOutcomes
<1>6. CASE PutExpires(s)
  BY <1>6 DEF PutExpires, EndOutcomes
<1>7. CASE Acknowledged(s)
  BY <1>7 DEF Acknowledged, EndOutcomes
<1>8. CASE HearShutdown(s)
  <2> DEFINE a == IF task[s].at = "put" THEN "put" ELSE "encode"
             w == [task[s] EXCEPT !.deadline = "own", !.at = a]
  <2>1. task' = [task EXCEPT ![s] = w] /\ KeepTask(s) /\ task[s].at # "idle"
    BY <1>8 DEF HearShutdown, At
  <2>2. w \in Task /\ w.group = task[s].group /\ w.at # "idle"
    BY <1>b DEF Task
  <2> HIDE DEF w
  <2> QED
    BY <1>a, <2>1, <2>2
<1>9. CASE TaskDeadlinePasses(s)
  <2> DEFINE w == [task[s] EXCEPT !.deadline = "past"]
  <2>1. task' = [task EXCEPT ![s] = w] /\ KeepTask(s)
    BY <1>9 DEF TaskDeadlinePasses
  <2>2. w \in Task /\ w.group = task[s].group /\ w.at = task[s].at
    BY <1>b DEF Task
  <2> HIDE DEF w
  <2> QED
    BY <1>a, <2>1, <2>2
<1>10. CASE PutFails(s)
  <2>1. CASE EndTask(s, "send_failed") \/ EndTask(s, "shutdown_dropped")
    BY <2>1 DEF EndOutcomes
  <2>2. CASE /\ task' = [task EXCEPT ![s].at = "backoff", ![s].attempt = @ + 1]
             /\ KeepTask(s)
    <3>1. task[s] \in Task /\ task[s].attempt + 1 \in Nat
      BY DEF TypeOK, Task
    <3>2. \A t \in Slot : task'[t] =
            IF t = s THEN [task[s] EXCEPT !.at = "backoff", !.attempt = @ + 1]
            ELSE task[t]
      BY <2>2 DEF TypeOK
    <3>3. task' \in [Slot -> Task]
      BY <2>2, <3>1 DEF TypeOK, Task
    <3>4. /\ task'[s].group = task[s].group
          /\ task'[s].at = "backoff" /\ task[s].at # "idle"
      BY <1>10, <3>1, <3>2 DEF Task, PutFails, At
    <3> QED
      BY <2>2, <3>2, <3>3, <3>4 DEF GoesOn
  <2> QED
    BY <1>10, <2>1, <2>2 DEF PutFails
<1> QED
  BY <1>1, <1>3, <1>4, <1>5, <1>6, <1>7, <1>8, <1>9, <1>10 DEF TaskActs, TaskStep, Reply

LEMMA EndTaskTypes ==
  ASSUME TypeOK, NEW s \in Slot, NEW o \in EndOutcomes, EndTask(s, o)
  PROVE  /\ task' \in [Slot -> Task]
         /\ pending' \in Int
         /\ dropped' \in [Causes -> Int]
         /\ outcome' \in [Record -> Outcomes]
<1>1. NoTask \in Task
  BY DEF NoTask, Task
<1>2. Len(task[s].group) \in Int
  BY LenIsInt DEF TypeOK, Task
<1>3. task' \in [Slot -> Task]
  BY <1>1 DEF EndTask, TypeOK
<1>4. pending' \in Int
  BY <1>2 DEF EndTask, TypeOK
<1>5. dropped' \in [Causes -> Int]
  <2>1. CASE o = "acked"
    BY <2>1 DEF EndTask, TypeOK
  <2>2. CASE o # "acked"
    BY <1>2, <2>2, DropType DEF EndTask, EndOutcomes, Causes
  <2> QED
    BY <2>1, <2>2
<1>6. outcome' \in [Record -> Outcomes]
  BY SettleType DEF EndTask, EndOutcomes, Outcomes
<1> QED
  BY <1>3, <1>4, <1>5, <1>6

(* The queue's own steps keep its type.                                    *)
LEMMA QueueKeepsType ==
  ASSUME QueueTypeOK, [QueueNext]_queueVars
  PROVE  QueueTypeOK'
<1> USE DEF QueueTypeOK
<1>1. ASSUME NEW r \in Record, Offer(r) PROVE QueueTypeOK'
  <2>1. CASE Full
    <3>1. ring # <<>>
      <4>1. Len(ring) # 0
        BY <2>1, QueueAssumption DEF Full
      <4> QED
        BY <4>1, EmptySeq
    <3>2. Tail(ring) \in Seq(Record)
      BY <3>1, HeadTailProperties
    <3>3. Append(Tail(ring), r) \in Seq(Record)
      BY <3>2, AppendProperties
    <3>4. ring' \in Seq(Record)
      BY <1>1, <2>1, <3>3 DEF Offer
    <3>5. fate' \in [Record -> QueueFate]
      BY <1>1, <2>1 DEF Offer, QueueFate
    <3> QED
      BY <1>1, <3>4, <3>5 DEF Offer
  <2>2. CASE ~Full
    <3>1. ring' \in Seq(Record)
      BY <1>1, <2>2, AppendProperties DEF Offer
    <3>2. fate' \in [Record -> QueueFate]
      BY <1>1, <2>2 DEF Offer, QueueFate
    <3> QED
      BY <1>1, <3>1, <3>2 DEF Offer
  <2> QED
    BY <2>1, <2>2
<1>2. ASSUME NEW r \in Record, Refuse(r) PROVE QueueTypeOK'
  BY <1>2 DEF Refuse, QueueFate
<1>3. CASE Take
  <2>1. ring' \in Seq(Record)
    BY <1>3, HeadTailProperties DEF Take
  <2>2. fate' \in [Record -> QueueFate]
    BY <1>3 DEF Take, QueueFate
  <2> QED
    BY <1>3, <2>1, <2>2 DEF Take
<1>4. CASE BeginClose \/ EndClose \/ UNCHANGED queueVars
  BY <1>4 DEF BeginClose, EndClose, queueVars
<1> QED
  BY <1>1, <1>2, <1>3, <1>4 DEF QueueNext

(* The variables of the pipeline that are not PushType's.                  *)
RestType ==
  /\ QueueTypeOK
  /\ size \in [Record -> Nat]
  /\ worker \in WorkerPoint
  /\ task \in [Slot -> Task]
  /\ pending \in Int
  /\ shutdown \in BOOLEAN
  /\ late \in BOOLEAN

LEMMA TypeSplits == RestType' /\ PushType => TypeOK'
BY DEF RestType, PushType, TypeOK

LEMMA TypeHasRest == TypeOK => RestType
BY DEF RestType, TypeOK

LEMMA PushKept ==
  ASSUME TypeOK, UNCHANGED <<batch, batchBytes, hand, dropped, outcome>>
  PROVE  PushType
BY DEF TypeOK, PushType

(* Steps that move the worker, a flag or the phase, and no record.         *)
Moves ==
  \/ Signal \/ StartWorker \/ RuntimeFails \/ FailClosed \/ TimerFlush \/ SeeShutdown
  \/ DeferFlush \/ CloseReturn \/ DeadlinePasses

LEMMA MovesShape ==
  ASSUME TypeOK, Moves
  PROVE  /\ UNCHANGED <<ring, fate, size, batch, batchBytes, hand, task, pending,
                        dropped, outcome>>
         /\ [QueueNext]_queueVars
         /\ worker' \in WorkerPoint
         /\ shutdown' \in BOOLEAN /\ late' \in BOOLEAN
<1>1. worker \in WorkerPoint /\ shutdown \in BOOLEAN /\ late \in BOOLEAN
  BY DEF TypeOK
<1>2. CASE Signal \/ StartWorker \/ TimerFlush \/ DeadlinePasses
  BY <1>1, <1>2 DEF Signal, StartWorker, TimerFlush, DeadlinePasses, WorkerPoint, queueVars
<1>3. CASE RuntimeFails \/ SeeShutdown \/ DeferFlush
  BY <1>1, <1>3 DEF RuntimeFails, SeeShutdown, DeferFlush, BeginClose, QueueNext,
                    WorkerPoint
<1>4. CASE FailClosed \/ CloseReturn
  BY <1>1, <1>4 DEF FailClosed, CloseReturn, EndClose, QueueNext, WorkerPoint
<1> QED
  BY <1>2, <1>3, <1>4 DEF Moves

LEMMA MovesTypes == TypeOK /\ Moves => TypeOK'
<1> SUFFICES ASSUME TypeOK, Moves PROVE TypeOK'
  OBVIOUS
<1>1. QueueTypeOK'
  BY MovesShape, QueueKeepsType DEF TypeOK
<1>2. RestType'
  BY <1>1, MovesShape DEF RestType, TypeOK
<1>3. PushType
  BY MovesShape, PushKept
<1> QED
  BY <1>2, <1>3, TypeSplits

LEMMA EnqueueTypes ==
  ASSUME TypeOK, NEW r \in Record, Enqueue(r) \/ EnqueueRefused(r)
  PROVE  TypeOK'
<1>1. QueueTypeOK'
  BY QueueKeepsType DEF TypeOK, Enqueue, EnqueueRefused, QueueNext
<1>2. size' \in [Record -> Nat]
  BY SinkAssumption DEF TypeOK, Enqueue, EnqueueRefused
<1>3. dropped' \in [Causes -> Int]
  <2>1. CASE UNCHANGED dropped
    BY <2>1 DEF TypeOK
  <2>2. CASE Drop("queue_full", 1) \/ Drop("worker_closed", 1)
    BY <2>2, DropType DEF Causes
  <2> QED
    BY <2>1, <2>2 DEF Enqueue, EnqueueRefused
<1>4. UNCHANGED <<worker, batch, batchBytes, hand, task, pending, shutdown, late, outcome>>
  BY DEF Enqueue, EnqueueRefused
<1>5. RestType'
  BY <1>1, <1>2, <1>4 DEF RestType, TypeOK
<1>6. PushType
  BY <1>3, <1>4 DEF PushType, TypeOK
<1> QED
  BY <1>5, <1>6, TypeSplits

LEMMA TaskTypes ==
  ASSUME TypeOK, NEW s \in Slot, TaskActs(s)
  PROVE  TypeOK'
<1>1. UNCHANGED <<queueVars, size, worker, batch, batchBytes, hand, shutdown, late>>
  BY TaskCases
<1>2. /\ task' \in [Slot -> Task] /\ pending' \in Int
      /\ dropped' \in [Causes -> Int] /\ outcome' \in [Record -> Outcomes]
  <2>1. CASE GoesOn(s)
    BY <2>1 DEF GoesOn, KeepTask, TypeOK
  <2>2. CASE \E o \in EndOutcomes : EndTask(s, o)
    BY <2>2, EndTaskTypes
  <2> QED
    BY <2>1, <2>2, TaskCases
<1>3. RestType'
  BY <1>1, <1>2 DEF RestType, TypeOK, QueueTypeOK, queueVars
<1>4. PushType
  BY <1>1, <1>2 DEF PushType, TypeOK
<1> QED
  BY <1>3, <1>4, TypeSplits

LEMMA PushStepTypes ==
  ASSUME TypeOK, RecvRecord \/ DrainPop \/ (PushDeferred /\ hand # <<>>)
  PROVE  TypeOK'
<1>1. PushType /\ worker' \in WorkerPoint
  <2> SUFFICES ASSUME NEW r \in Record, PushOrDrop(r)
               PROVE  PushType /\ worker' \in WorkerPoint
    <3>1. CASE RecvRecord \/ DrainPop
      <4>1. Head(ring) \in Record
        BY <3>1, HeadTailProperties
           DEF TypeOK, QueueTypeOK, RecvRecord, DrainPop, Take
      <4> QED
        BY <3>1, <4>1 DEF RecvRecord, DrainPop
    <3>2. CASE PushDeferred /\ hand # <<>>
      BY <3>2, HandIsOne DEF PushDeferred
    <3> QED
      BY <3>1, <3>2
  <2>1. worker' \in {"flush", Home}
    BY PushCases
  <2> QED
    BY <2>1, PushTypes DEF Home, WorkerPoint
<1>2. [QueueNext]_queueVars
  BY DEF RecvRecord, DrainPop, PushDeferred, QueueNext
<1>3. QueueTypeOK'
  BY <1>2, QueueKeepsType DEF TypeOK
<1>4. UNCHANGED <<size, task, pending, shutdown, late>>
  BY DEF RecvRecord, DrainPop, PushDeferred
<1>5. RestType'
  BY <1>1, <1>3, <1>4 DEF RestType, TypeOK
<1> QED
  BY <1>1, <1>5, TypeSplits

LEMMA SpawnTypes ==
  ASSUME TypeOK, NEW s \in Slot, SpawnFlush(s)
  PROVE  TypeOK'
<1>1. /\ batch \in Seq(Record) /\ ring \in Seq(Record) /\ Len(batch) \in Int
      /\ Len(ring) \in Int /\ <<>> \in Seq(Record) /\ Len(<<>>) <= 1
  BY LenIsInt DEF TypeOK, QueueTypeOK
<1>2. UNCHANGED <<ring, fate, phase, size, shutdown, late>>
  BY DEF SpawnFlush, queueVars
<1>3. task' \in [Slot -> Task]
  <2> DEFINE new == [at |-> "start", group |-> batch, attempt |-> 0,
                     deadline |-> IF phase = "open" THEN "none" ELSE "worker"]
  <2>1. new \in Task
    BY <1>1 DEF Task
  <2>2. task' = [task EXCEPT ![s] = new]
    BY DEF SpawnFlush
  <2> HIDE DEF new
  <2> QED
    BY <2>1, <2>2 DEF TypeOK
<1>4. pending' \in Int
  BY <1>1 DEF SpawnFlush, TypeOK
<1>5. worker' \in WorkerPoint
  BY DEF SpawnFlush, SetBatch, Home, WorkerPoint
<1>6. RestType'
  BY <1>2, <1>3, <1>4, <1>5 DEF RestType, TypeOK, QueueTypeOK
<1>7. hand' \in Seq(Record) /\ Len(hand') <= 1
  BY <1>1 DEF SpawnFlush
<1>8. CASE worker = "tailflush"
  <2>1. batch' = <<>> /\ batchBytes' = 0
    BY <1>8 DEF SpawnFlush
  <2>2. dropped' \in [Causes -> Int]
    BY <1>1, <1>8, DropType DEF SpawnFlush, Causes
  <2>3. outcome' \in [Record -> Outcomes]
    BY <1>8, SettleType DEF SpawnFlush, Outcomes
  <2>4. PushType
    BY <1>1, <1>7, <2>1, <2>2, <2>3 DEF PushType
  <2> QED
    BY <1>6, <2>4, TypeSplits
<1>9. CASE worker # "tailflush"
  <2>1. batch' \in Seq(Record) /\ batchBytes' \in Nat
    <3>1. CASE hand = <<>>
      BY <1>1, <1>9, <3>1 DEF SpawnFlush, SetBatch
    <3>2. CASE hand # <<>>
      <4>1. size[hand[1]] \in Nat /\ hand \in Seq(Record)
        BY <3>2, HandIsOne DEF TypeOK
      <4> QED
        BY <1>9, <3>2, <4>1 DEF SpawnFlush, SetBatch
    <3> QED
      BY <3>1, <3>2
  <2>2. PushType
    BY <1>7, <1>9, <2>1 DEF PushType, SpawnFlush, TypeOK
  <2> QED
    BY <1>6, <2>2, TypeSplits
<1> QED
  BY <1>8, <1>9

(* Steps that end with the batch empty and records written off.            *)
LEMMA WriteOffTypes ==
  ASSUME TypeOK, RestType', NEW c \in Causes \cap Outcomes, NEW n \in Int, NEW X,
         Drop(c, n), Settle(X, c), batch' \in Seq(Record), batchBytes' \in Nat,
         hand' \in Seq(Record), Len(hand') <= 1
  PROVE  TypeOK'
<1>1. dropped' \in [Causes -> Int]
  BY DropType
<1>2. outcome' \in [Record -> Outcomes]
  BY SettleType
<1>3. PushType
  BY <1>1, <1>2 DEF PushType
<1> QED
  BY <1>3, TypeSplits

LEMMA DropFlushTypes == TypeOK /\ DropFlush => TypeOK'
<1> SUFFICES ASSUME TypeOK, DropFlush PROVE TypeOK'
  OBVIOUS
<1> DEFINE lost == batch \o hand \o (IF worker = "tailflush" THEN ring ELSE <<>>)
<1>1. /\ batch' = <<>> /\ batchBytes' = 0 /\ hand' = <<>>
      /\ Drop("shutdown_dropped", Len(lost))
      /\ Settle(ToSet(lost), "shutdown_dropped")
  BY DEF DropFlush
<1>2. lost \in Seq(Record)
  BY ConcatProperties DEF TypeOK, QueueTypeOK
<1> HIDE DEF lost
<1>3. Len(lost) \in Int
  BY <1>2, LenIsInt
<1>4. RestType'
  BY DEF RestType, TypeOK, QueueTypeOK, DropFlush, queueVars, WorkerPoint
<1>5. <<>> \in Seq(Record) /\ Len(<<>>) <= 1 /\ 0 \in Nat
  OBVIOUS
<1> QED
  BY <1>1, <1>3, <1>4, <1>5, WriteOffTypes DEF Causes, Outcomes

LEMMA DrainStopTypes == TypeOK /\ DrainStop => TypeOK'
<1> SUFFICES ASSUME TypeOK, DrainStop PROVE TypeOK'
  OBVIOUS
<1>1. RestType'
  BY DEF RestType, TypeOK, QueueTypeOK, DrainStop, queueVars, WorkerPoint
<1>2. hand' \in Seq(Record) /\ Len(hand') <= 1
  BY DEF DrainStop, TypeOK
<1>3. CASE UNCHANGED <<batch, batchBytes, dropped, outcome>>
  BY <1>1, <1>2, <1>3, TypeSplits DEF PushType, TypeOK
<1>4. CASE /\ batch' = <<>> /\ batchBytes' = 0
           /\ Drop("shutdown_dropped", Len(batch) + Len(ring))
           /\ Settle(ToSet(batch \o ring), "shutdown_dropped")
  <2>1. Len(batch) + Len(ring) \in Int
    BY LenProperties DEF TypeOK, QueueTypeOK
  <2>2. <<>> \in Seq(Record) /\ 0 \in Nat
    OBVIOUS
  <2> QED
    BY <1>1, <1>2, <1>4, <2>1, <2>2, WriteOffTypes DEF Causes, Outcomes
<1> QED
  BY <1>3, <1>4 DEF DrainStop

LEMMA StopTypes == TypeOK /\ StopWaiting => TypeOK'
<1> SUFFICES ASSUME TypeOK, StopWaiting PROVE TypeOK'
  OBVIOUS
<1>1. task' \in [Slot -> Task] /\ pending' \in Int /\ pending \in Int
  BY DEF StopWaiting, NoTask, Task, TypeOK
<1>2. RestType'
  BY <1>1 DEF RestType, TypeOK, QueueTypeOK, StopWaiting, queueVars, WorkerPoint
<1>3. /\ batch' \in Seq(Record) /\ batchBytes' \in Nat
      /\ hand' \in Seq(Record) /\ Len(hand') <= 1
  BY DEF StopWaiting, TypeOK
<1>4. Drop("shutdown_dropped", pending) /\ Settle(InFlight, "shutdown_dropped")
  BY DEF StopWaiting
<1> QED
  BY <1>1, <1>2, <1>3, <1>4, WriteOffTypes DEF Causes, Outcomes

LEMMA FailDrainTypes == TypeOK /\ FailDrain => TypeOK'
<1> SUFFICES ASSUME TypeOK, FailDrain PROVE TypeOK'
  OBVIOUS
<1>1. fate' \in [Record -> QueueFate] /\ ring' \in Seq(Record)
  BY DEF FailDrain, TypeOK, QueueTypeOK, QueueFate
<1>2. RestType'
  BY <1>1 DEF RestType, TypeOK, QueueTypeOK, FailDrain, WorkerPoint
<1>3. /\ batch' \in Seq(Record) /\ batchBytes' \in Nat
      /\ hand' \in Seq(Record) /\ Len(hand') <= 1
  BY DEF FailDrain, TypeOK
<1>4. Drop("worker_closed", Len(ring)) /\ Settle(ToSet(ring), "worker_closed")
  BY DEF FailDrain
<1>5. Len(ring) \in Int
  BY LenIsInt DEF TypeOK, QueueTypeOK
<1> QED
  BY <1>2, <1>3, <1>4, <1>5, WriteOffTypes DEF Causes, Outcomes

-----------------------------------------------------------------------------
(* The steps, in the classes the lemmas above are about.                   *)
Pushes == RecvRecord \/ DrainPop \/ PushDeferred

WriteOffs == DropFlush \/ DrainStop \/ StopWaiting \/ FailDrain

LEMMA StepCases ==
  ASSUME [Next]_vars
  PROVE  \/ \E r \in Record : Enqueue(r) \/ EnqueueRefused(r)
         \/ Moves \/ Pushes \/ WriteOffs
         \/ \E s \in Slot : SpawnFlush(s) \/ TaskActs(s)
         \/ UNCHANGED vars
BY DEF Next, WorkerStep, FlushStep, Timeout, Finished, Moves, Pushes, WriteOffs, TaskActs

LEMMA MovesControl ==
  ASSUME Inv, Moves
  PROVE  ControlInv'
<1> USE DEF Inv
<1>1. /\ batch' = batch /\ hand' = hand /\ task' = task
  BY MovesShape
<1>2. CASE Signal \/ DeadlinePasses
  BY <1>1, <1>2 DEF Signal, DeadlinePasses, ControlInv, queueVars
<1>3. CASE StartWorker \/ TimerFlush
  BY <1>1, <1>3 DEF StartWorker, TimerFlush, ControlInv, Early, Closing, Late, queueVars
<1>4. CASE RuntimeFails \/ SeeShutdown \/ DeferFlush
  BY <1>1, <1>4 DEF RuntimeFails, SeeShutdown, DeferFlush, BeginClose, ControlInv,
                    Early, Closing, Late
<1>5. CASE FailClosed \/ CloseReturn
  BY <1>1, <1>5 DEF FailClosed, CloseReturn, EndClose, ControlInv, Early, Closing, Late
<1> QED
  BY <1>2, <1>3, <1>4, <1>5 DEF Moves

LEMMA EnqueueControl ==
  ASSUME Inv, NEW r \in Record, Enqueue(r) \/ EnqueueRefused(r)
  PROVE  ControlInv'
BY DEF Inv, Enqueue, EnqueueRefused, Offer, Refuse, ControlInv

LEMMA PushControl ==
  ASSUME Inv, Pushes
  PROVE  ControlInv'
<1> USE DEF Inv
<1>1. PICK r \in Record : PushOrDrop(r)
  <2>1. CASE RecvRecord \/ DrainPop
    <3>1. Head(ring) \in Record
      BY <2>1, HeadTailProperties
         DEF TypeOK, QueueTypeOK, RecvRecord, DrainPop, Take
    <3> QED
      BY <2>1, <3>1 DEF RecvRecord, DrainPop
  <2>2. CASE PushDeferred
    BY <2>2, HandIsOne DEF PushDeferred, ControlInv
  <2> QED
    BY <2>1, <2>2 DEF Pushes
<1>2. worker' \in {"flush", Home} /\ (worker' # "flush" => hand' = <<>>)
  BY <1>1, PushCases
<1>3. UNCHANGED <<phase, task>> /\ worker \in {"select", "drain", "deferred"}
  BY DEF Pushes, RecvRecord, DrainPop, PushDeferred, Take, queueVars
<1>4. phase \in {"open", "closed"}
  BY <1>3 DEF ControlInv, Early, Late
<1> QED
  BY <1>2, <1>3, <1>4 DEF ControlInv, Home, Early, Closing, Late

LEMMA SpawnControl ==
  ASSUME Inv, NEW s \in Slot, SpawnFlush(s)
  PROVE  ControlInv'
<1> USE DEF Inv
<1>1. /\ UNCHANGED phase /\ phase # "closing" /\ phase \in {"open", "closing", "closed"}
      /\ hand' = <<>>
  BY DEF SpawnFlush, ControlInv, Late, TypeOK, QueueTypeOK, queueVars
<1>2. \A t \in Slot : task'[t].at = "idle" => task'[t].group = <<>>
  <2>1. \A t \in Slot : t # s => task'[t] = task[t]
    BY DEF SpawnFlush, TypeOK
  <2>2. task'[s].at = "start"
    BY DEF SpawnFlush, TypeOK
  <2> QED
    BY <2>1, <2>2 DEF ControlInv
<1>3. CASE worker = "tailflush"
  <2>1. worker' = "wait" /\ batch' = <<>> /\ phase = "closed"
    BY <1>3 DEF SpawnFlush, ControlInv, Late
  <2> QED
    BY <1>1, <1>2, <2>1 DEF ControlInv, Early, Closing, Late
<1>4. CASE worker # "tailflush"
  <2>1. worker' \in {"flush", Home}
    BY <1>4 DEF SpawnFlush, SetBatch
  <2> QED
    BY <1>1, <1>2, <2>1 DEF ControlInv, Home, Early, Closing, Late
<1> QED
  BY <1>3, <1>4

LEMMA WriteOffControl ==
  ASSUME Inv, WriteOffs
  PROVE  ControlInv'
<1> USE DEF Inv
<1>1. CASE DropFlush
  BY <1>1 DEF DropFlush, ControlInv, Early, Closing, Late, queueVars
<1>2. CASE DrainStop
  BY <1>2 DEF DrainStop, ControlInv, Early, Closing, Late, queueVars
<1>3. CASE StopWaiting
  BY <1>3 DEF StopWaiting, ControlInv, NoTask, Early, Closing, Late, queueVars
<1>4. CASE FailDrain
  BY <1>4 DEF FailDrain, ControlInv, Early, Closing, Late
<1> QED
  BY <1>1, <1>2, <1>3, <1>4 DEF WriteOffs

LEMMA TaskControl ==
  ASSUME Inv, NEW s \in Slot, TaskActs(s)
  PROVE  ControlInv'
<1> USE DEF Inv
<1>1. UNCHANGED <<worker, phase, batch, hand>>
  BY TaskCases DEF queueVars
<1>2. CASE GoesOn(s)
  BY <1>1, <1>2 DEF GoesOn, ControlInv
<1>3. CASE \E o \in EndOutcomes : EndTask(s, o)
  <2>1. \A t \in Slot : task'[t] = IF t = s THEN NoTask ELSE task[t]
    BY <1>3 DEF EndTask, TypeOK
  <2> QED
    BY <1>1, <2>1 DEF ControlInv, NoTask
<1> QED
  BY <1>2, <1>3, TaskCases

-----------------------------------------------------------------------------
(* The records through each class of step.                                 *)
LEMMA MovesKeep ==
  ASSUME Inv, Moves
  PROVE  RecordInv'
<1>1. UNCHANGED <<ring, fate, batch, hand, task, outcome>>
  BY MovesShape DEF Inv
<1>2. Gone' <=> Gone
  BY DEF Moves, Signal, StartWorker, RuntimeFails, FailClosed, TimerFlush, SeeShutdown,
         DeferFlush, CloseReturn, DeadlinePasses, Gone
<1>3. RecordInv
  BY DEF Inv, RecordInv
<1> QED
  BY <1>1, <1>2, <1>3, Keep

LEMMA PushesKeep ==
  ASSUME Inv, Pushes
  PROVE  RecordInv'
<1>1. CASE RecvRecord \/ DrainPop
  <2>1. hand = <<>> /\ ~Gone /\ UNCHANGED task
    BY <1>1 DEF RecvRecord, DrainPop, Gone, Inv, ControlInv
  <2> QED
    BY <1>1, <2>1, TakeKeeps DEF RecvRecord, DrainPop
<1>2. CASE PushDeferred
  <2>1. hand # <<>> /\ ~Gone /\ UNCHANGED <<ring, fate, task>>
    BY <1>2 DEF PushDeferred, Gone, Inv, ControlInv, queueVars
  <2> QED
    BY <1>2, <2>1, DeferredKeeps DEF PushDeferred
<1> QED
  BY <1>1, <1>2 DEF Pushes

LEMMA TaskKeeps ==
  ASSUME Inv, NEW s \in Slot, TaskActs(s)
  PROVE  RecordInv'
<1>1. UNCHANGED <<queueVars, worker, batch, hand>>
  BY TaskCases DEF Inv
<1>2. CASE GoesOn(s)
  <2>1. /\ UNCHANGED <<ring, fate, batch, hand, outcome>> /\ (Gone' <=> Gone)
        /\ \A t \in Slot : task'[t].group = task[t].group
    BY <1>1, <1>2 DEF GoesOn, KeepTask, queueVars, Gone
  <2>2. RecordInv
    BY DEF Inv, RecordInv
  <2> QED
    BY <2>1, <2>2, Keep
<1>3. CASE \E o \in EndOutcomes : EndTask(s, o)
  BY <1>1, <1>3, EndTaskKeeps DEF EndOutcomes, Outcomes
<1> QED
  BY <1>2, <1>3, TaskCases DEF Inv

LEMMA StutterKeeps == Inv /\ UNCHANGED vars => Inv'
<1> SUFFICES ASSUME Inv, UNCHANGED vars PROVE Inv'
  OBVIOUS
<1>1. UNCHANGED <<ring, phase, fate, size, worker, batch, batchBytes, hand, task,
                  pending, dropped, shutdown, late, outcome>>
  BY DEF vars, queueVars, pipeVars
<1>2. TypeOK' /\ ControlInv'
  BY <1>1 DEF Inv, TypeOK, QueueTypeOK, ControlInv
<1>3. RecordInv /\ (Gone' <=> Gone) /\ \A s \in Slot : task'[s].group = task[s].group
  BY <1>1 DEF Inv, RecordInv, Gone
<1>4. RecordInv'
  BY <1>1, <1>3, Keep
<1> QED
  BY <1>2, <1>4 DEF Inv, RecordInv

LEMMA StepKeepsInv == Inv /\ [Next]_vars => Inv'
<1> SUFFICES ASSUME Inv, [Next]_vars PROVE Inv'
  OBVIOUS
<1>0. TypeOK
  BY DEF Inv
<1>1. ASSUME NEW r \in Record, Enqueue(r) \/ EnqueueRefused(r) PROVE Inv'
  BY <1>0, <1>1, EnqueueTypes, EnqueueControl, EnqueueKeeps, RefusedKeeps
     DEF Inv, RecordInv
<1>2. CASE Moves
  BY <1>0, <1>2, MovesTypes, MovesControl, MovesKeep DEF Inv, RecordInv
<1>3. CASE Pushes
  <2>1. PushDeferred => hand # <<>>
    BY DEF Inv, ControlInv, PushDeferred
  <2>2. TypeOK'
    BY <1>0, <1>3, <2>1, PushStepTypes DEF Pushes
  <2> QED
    BY <1>3, <2>2, PushControl, PushesKeep DEF Inv, RecordInv
<1>4. CASE WriteOffs
  <2>1. TypeOK'
    BY <1>0, <1>4, DropFlushTypes, DrainStopTypes, StopTypes, FailDrainTypes
       DEF WriteOffs
  <2>2. RecordInv'
    BY <1>4, DropKeeps, DrainStopKeeps, StopKeeps, FailDrainKeeps DEF WriteOffs
  <2> QED
    BY <1>4, <2>1, <2>2, WriteOffControl DEF Inv, RecordInv
<1>5. ASSUME NEW s \in Slot, SpawnFlush(s) PROVE Inv'
  BY <1>0, <1>5, SpawnTypes, SpawnControl, SpawnKeeps DEF Inv, RecordInv
<1>6. ASSUME NEW s \in Slot, TaskActs(s) PROVE Inv'
  BY <1>0, <1>6, TaskTypes, TaskControl, TaskKeeps DEF Inv, RecordInv
<1>7. CASE UNCHANGED vars
  BY <1>7, StutterKeeps
<1> QED
  BY <1>1, <1>2, <1>3, <1>4, <1>5, <1>6, <1>7, StepCases

LEMMA InvHolds == Spec => []Inv
BY InitSinkInv, StepKeepsInv, PTL DEF Spec

(* The variables of the pipeline keep their types.                         *)
THEOREM Typed == Spec => []TypeOK
<1>1. Inv => TypeOK
  BY DEF Inv
<1> QED
  BY <1>1, InvHolds, PTL

(* No accepted record falls out of the pipeline unaccounted, through any   *)
(* flush, deferral, drain or abort, and none that was delivered or counted *)
(* is still held (spawn_flush, drain_into_buf, run_pipeline).              *)
THEOREM NoRecordIsLost == Spec => []NothingLost
<1>1. Inv => NothingLost
  BY LossIsNothingLost DEF Inv
<1> QED
  BY <1>1, InvHolds, PTL

(* When run_pipeline has returned, every record the queue accepted was     *)
(* delivered or counted under one of the drop causes.                      *)
THEOREM EndAccountsForAll == Spec => []DoneSettlesAll
<1>1. Inv => DoneSettlesAll
  <2> SUFFICES ASSUME Inv, worker = "done", NEW r \in Record,
                      fate[r] \in {"queued", "taken"}
               PROVE  outcome[r] # "none"
    BY DEF DoneSettlesAll
  <2>1. B = {} /\ H = {} /\ Gone /\ \A s \in Slot : G(s) = {}
    BY SetOfEmpty DEF Inv, ControlInv, B, H, G, Gone
  <2>2. Accounted(r)
    BY DEF Inv, LossInv
  <2> QED
    BY <2>1, <2>2 DEF Accounted
<1> QED
  BY <1>1, InvHolds, PTL

-----------------------------------------------------------------------------
(* A record's end is decided once.                                         *)
EndsKept == \A r \in Record : outcome[r] # "none" => outcome'[r] = outcome[r]

LEMMA SettleKeepsEnds ==
  ASSUME Inv, NEW X, NEW o, Settle(X, o),
         \A r \in X : \/ r \in B \cup H
                      \/ \E s \in Slot : r \in G(s)
                      \/ ~Gone /\ r \in R
  PROVE  EndsKept
BY DEF Inv, LossInv, Accounted, Settle, EndsKept

LEMMA SameKeepsEnds == UNCHANGED outcome => EndsKept
BY DEF EndsKept

LEMMA StepKeepsEnds == Inv /\ [Next]_vars => EndsKept
<1> SUFFICES ASSUME Inv, [Next]_vars PROVE EndsKept
  OBVIOUS
<1> USE DEF Inv
<1>1. ASSUME NEW r \in Record, Enqueue(r) \/ EnqueueRefused(r) PROVE EndsKept
  BY <1>1, SameKeepsEnds DEF Enqueue, EnqueueRefused
<1>2. CASE Moves
  BY <1>2, MovesShape, SameKeepsEnds
<1>3. CASE Pushes
  <2>1. PICK r \in Record : /\ PushOrDrop(r)
                            /\ r \in H \/ (~Gone /\ r \in R)
    <3>1. CASE RecvRecord \/ DrainPop
      <4>1. /\ ring # <<>> /\ ring \in Seq(Record) /\ Distinct(ring)
            /\ ~Gone /\ PushOrDrop(Head(ring))
        BY <3>1 DEF RecvRecord, DrainPop, Take, Gone, TypeOK, QueueTypeOK, PlacesInv
      <4>2. Head(ring) \in Record /\ Head(ring) \in R
        BY <4>1, SetOfTail DEF R
      <4> QED
        BY <4>1, <4>2
    <3>2. CASE PushDeferred
      <4>1. hand # <<>> /\ PushOrDrop(hand[1])
        BY <3>2 DEF PushDeferred, ControlInv
      <4> QED
        BY <4>1, HandIsOne
    <3> QED
      BY <1>3, <3>1, <3>2 DEF Pushes
  <2>2. UNCHANGED outcome \/ Settle({r}, "send_failed")
    BY <2>1 DEF PushOrDrop
  <2> QED
    BY <2>1, <2>2, SettleKeepsEnds, SameKeepsEnds
<1>4. CASE DropFlush
  <2> DEFINE rest == IF worker = "tailflush" THEN ring ELSE <<>>
  <2>1. Settle(ToSet(batch \o hand \o rest), "shutdown_dropped") /\ ~Gone
    BY <1>4 DEF DropFlush, Gone
  <2>2. /\ batch \in Seq(Record) /\ hand \in Seq(Record) /\ rest \in Seq(Record)
        /\ ToSet(rest) \subseteq R
    BY SetOfEmpty DEF TypeOK, QueueTypeOK, R
  <2> HIDE DEF rest
  <2>3. ToSet(batch \o hand \o rest) = B \cup H \cup ToSet(rest)
    BY <2>2, SetOfConcat3 DEF B, H
  <2> QED
    BY <2>1, <2>2, <2>3, SettleKeepsEnds
<1>5. CASE DrainStop
  <2>1. ToSet(batch \o ring) = B \cup R /\ ~Gone
    BY <1>5, SetOfConcat DEF TypeOK, QueueTypeOK, DrainStop, Gone, B, R
  <2>2. UNCHANGED outcome \/ Settle(ToSet(batch \o ring), "shutdown_dropped")
    BY <1>5 DEF DrainStop
  <2> QED
    BY <2>1, <2>2, SettleKeepsEnds, SameKeepsEnds
<1>6. CASE StopWaiting
  <2>1. Settle(UNION {G(s) : s \in Slot}, "shutdown_dropped")
    BY <1>6, InFlightIs DEF StopWaiting
  <2>2. \A r \in UNION {G(s) : s \in Slot} : \E s \in Slot : r \in G(s)
    OBVIOUS
  <2> QED
    BY <2>1, <2>2, SettleKeepsEnds
<1>7. CASE FailDrain
  <2>1. Settle(R, "worker_closed") /\ ~Gone
    BY <1>7 DEF FailDrain, R, Gone
  <2> QED
    BY <2>1, SettleKeepsEnds
<1>8. ASSUME NEW s \in Slot, SpawnFlush(s) PROVE EndsKept
  <2>1. ~Gone /\ (UNCHANGED outcome \/ Settle(R, "shutdown_dropped"))
    BY <1>8 DEF SpawnFlush, Gone, R
  <2> QED
    BY <2>1, SettleKeepsEnds, SameKeepsEnds
<1>9. ASSUME NEW s \in Slot, TaskActs(s) PROVE EndsKept
  <2>1. UNCHANGED outcome \/ \E o \in EndOutcomes : Settle(G(s), o)
    BY <1>9, TaskCases DEF GoesOn, KeepTask, EndTask, G
  <2> QED
    BY <2>1, SettleKeepsEnds, SameKeepsEnds
<1>10. CASE UNCHANGED vars
  BY <1>10, SameKeepsEnds DEF vars, pipeVars
<1> QED
  BY <1>1, <1>2, <1>3, <1>4, <1>5, <1>6, <1>7, <1>8, <1>9, <1>10, StepCases
     DEF WriteOffs

(* A record's end is decided once: an abort, a deadline and a late reply   *)
(* never count the same record twice or revise what was counted            *)
(* (send_with_retry, await_put_logs, the abort at the end of run_pipeline).*)
THEOREM EndIsDecidedOnce == Spec => SettledOnce
<1>1. Inv /\ [Next]_vars =>
        [\A r \in Record : outcome[r] # "none" => outcome'[r] = outcome[r]]_vars
  BY StepKeepsEnds DEF EndsKept
<1>2. Spec => [][\A r \in Record : outcome[r] # "none" => outcome'[r] = outcome[r]]_vars
  BY <1>1, InvHolds, PTL DEF Spec
<1> QED
  BY <1>2 DEF SettledOnce

-----------------------------------------------------------------------------
(* The order in which records are logged, from the groups of the tasks     *)
(* over the batch and the hand to the ring.                                *)
Rising(q) == \A i, j \in 1..Len(q) : i < j => q[i] < q[j]

Below(X, Y) == \A x \in X, y \in Y : x < y

LineInv ==
  /\ Rising(batch) /\ Rising(hand) /\ Rising(ring)
  /\ Below(B, H) /\ Below(B, R) /\ Below(H, R)
  /\ \A s \in Slot : Rising(task[s].group) /\ Below(G(s), B \cup H \cup R)

(* Records are logged in the order of their numbers.                       *)
LoggedInv == \A p, q \in Record : p < q /\ fate[q] # "fresh" => fate[p] # "fresh"

LEMMA RisingShort ==
  /\ Rising(<<>>)
  /\ \A r : Rising(<<r>>)
BY DEF Rising

LEMMA RisingAppend ==
  ASSUME NEW S \in SUBSET Nat, NEW q \in Seq(S), NEW r \in S, Rising(q), Below(ToSet(q), {r})
  PROVE  Rising(Append(q, r))
<1>1. /\ Len(Append(q, r)) = Len(q) + 1 /\ Len(q) \in Nat
      /\ \A i \in 1..Len(q) : Append(q, r)[i] = q[i]
      /\ Append(q, r)[Len(q) + 1] = r
  BY AppendProperties, LenProperties
<1>2. \A i \in 1..Len(q) : q[i] < r
  BY LenProperties DEF ToSet, Below
<1> SUFFICES ASSUME NEW i \in 1..(Len(q) + 1), NEW j \in 1..(Len(q) + 1), i < j
             PROVE  Append(q, r)[i] < Append(q, r)[j]
  BY <1>1 DEF Rising
<1>3. i \in 1..Len(q) /\ (j \in 1..Len(q) \/ j = Len(q) + 1)
  BY <1>1
<1> QED
  BY <1>1, <1>2, <1>3 DEF Rising

LEMMA RisingIsDistinct ==
  ASSUME NEW S \in SUBSET Nat, NEW q \in Seq(S), Rising(q)
  PROVE  Distinct(q)
<1> SUFFICES ASSUME NEW i \in 1..Len(q), NEW j \in 1..Len(q), i < j
             PROVE  q[i] # q[j]
  BY DEF Distinct
<1>1. q[i] \in S
  OBVIOUS
<1>2. q[i] \in Nat /\ q[i] < q[j]
  BY <1>1 DEF Rising
<1> QED
  BY <1>2

LEMMA RisingTail ==
  ASSUME NEW S \in SUBSET Nat, NEW q \in Seq(S), q # <<>>, Rising(q)
  PROVE  /\ Tail(q) \in Seq(S) /\ Head(q) \in S
         /\ Rising(Tail(q)) /\ Below({Head(q)}, ToSet(Tail(q)))
         /\ ToSet(q) = ToSet(Tail(q)) \cup {Head(q)}
<1>1. /\ Head(q) \in S /\ Head(q) = q[1]
      /\ Tail(q) \in Seq(S) /\ Len(Tail(q)) = Len(q) - 1
      /\ Len(q) \in Nat \ {0}
      /\ \A i \in 1..Len(Tail(q)) : Tail(q)[i] = q[i + 1]
  BY HeadTailProperties, EmptySeq
<1>2. Distinct(q)
  BY RisingIsDistinct
<1>3. Rising(Tail(q))
  <2> SUFFICES ASSUME NEW i \in 1..(Len(q) - 1), NEW j \in 1..(Len(q) - 1), i < j
               PROVE  Tail(q)[i] < Tail(q)[j]
    BY <1>1 DEF Rising
  <2>1. i + 1 \in 1..Len(q) /\ j + 1 \in 1..Len(q) /\ i + 1 < j + 1
    BY <1>1
  <2> QED
    BY <1>1, <2>1 DEF Rising
<1>4. ASSUME NEW x \in ToSet(Tail(q)) PROVE Head(q) < x
  <2>1. PICK i \in 1..(Len(q) - 1) : x = Tail(q)[i]
    BY <1>1, LenProperties DEF ToSet
  <2>2. i + 1 \in 1..Len(q) /\ 1 \in 1..Len(q) /\ 1 < i + 1 /\ x = q[i + 1]
    BY <1>1, <2>1
  <2> QED
    BY <1>1, <2>2 DEF Rising
<1> QED
  BY <1>1, <1>2, <1>3, <1>4, SetOfTail DEF Below

LEMMA RisingConcat ==
  ASSUME NEW S \in SUBSET Nat, NEW p \in Seq(S), NEW q \in Seq(S), Rising(p), Rising(q),
         Below(ToSet(p), ToSet(q))
  PROVE  Rising(p \o q) /\ p \o q \in Seq(S)
<1>1. /\ p \o q \in Seq(S) /\ Len(p \o q) = Len(p) + Len(q)
      /\ Len(p) \in Nat /\ Len(q) \in Nat
      /\ \A i \in 1..Len(p) : (p \o q)[i] = p[i]
      /\ \A i \in 1..Len(q) : (p \o q)[Len(p) + i] = q[i]
  BY ConcatProperties, LenProperties
<1>2. \A i \in 1..Len(p), j \in 1..Len(q) : p[i] < q[j]
  BY LenProperties DEF ToSet, Below
<1> SUFFICES ASSUME NEW i \in 1..(Len(p) + Len(q)), NEW j \in 1..(Len(p) + Len(q)), i < j
             PROVE  (p \o q)[i] < (p \o q)[j]
  BY <1>1 DEF Rising
<1>3. CASE i \in 1..Len(p) /\ j \in 1..Len(p)
  BY <1>1, <1>3 DEF Rising
<1>4. CASE i \in 1..Len(p) /\ j \notin 1..Len(p)
  <2>1. j - Len(p) \in 1..Len(q) /\ j = Len(p) + (j - Len(p))
    BY <1>1, <1>4
  <2> QED
    BY <1>1, <1>2, <1>4, <2>1
<1>5. CASE i \notin 1..Len(p)
  <2>1. /\ i - Len(p) \in 1..Len(q) /\ i = Len(p) + (i - Len(p))
        /\ j - Len(p) \in 1..Len(q) /\ j = Len(p) + (j - Len(p))
        /\ i - Len(p) < j - Len(p)
    BY <1>1, <1>5
  <2> QED
    BY <1>1, <2>1 DEF Rising
<1> QED
  BY <1>3, <1>4, <1>5

LEMMA InitLine == Init => LineInv /\ LoggedInv
BY SetOfEmpty, RisingShort
DEF Init, QueueInit, NoTask, LineInv, LoggedInv, Below, B, H, R, G

(* A place that is left as it is, or emptied, is still in line.            *)
LEMMA EmptyingKeepsLine ==
  ASSUME LineInv, ring' \in {ring, <<>>}, batch' \in {batch, <<>>}, hand' \in {hand, <<>>},
         \A s \in Slot : task'[s].group \in {task[s].group, <<>>}
  PROVE  LineInv'
<1>1. /\ B' \in {B, {}} /\ H' \in {H, {}} /\ R' \in {R, {}}
      /\ \A s \in Slot : G(s)' \in {G(s), {}}
  BY SetOfEmpty DEF B, H, R, G
<1>2. Rising(batch') /\ Rising(hand') /\ Rising(ring')
  BY RisingShort DEF LineInv
<1>3. \A s \in Slot : Rising(task'[s].group)
  BY RisingShort DEF LineInv
<1>4. Below(B', H') /\ Below(B', R') /\ Below(H', R')
  BY <1>1 DEF LineInv, Below
<1>5. \A s \in Slot : Below(G(s)', B' \cup H' \cup R')
  BY <1>1 DEF LineInv, Below
<1> QED
  BY <1>2, <1>3, <1>4, <1>5 DEF LineInv

LEMMA EnqueueLine ==
  ASSUME Inv, LineInv, LoggedInv, NEW r \in Record, Enqueue(r)
  PROVE  LineInv'
<1>1. /\ B' = B /\ H' = H /\ (\A s \in Slot : G(s)' = G(s))
      /\ UNCHANGED <<batch, hand, task>>
  BY DEF Enqueue, B, H, G
<1>2. /\ fate[r] = "fresh" /\ ring \in Seq(Record) /\ Record \in SUBSET Nat
      /\ \A q \in Record : q < r => fate[q] # "fresh"
  BY SinkAssumption DEF Enqueue, Offer, IsNext, Inv, TypeOK, QueueTypeOK
<1>3. \A q \in Record : fate[q] # "fresh" => q < r
  <2> SUFFICES ASSUME NEW q \in Record, fate[q] # "fresh" PROVE q < r
    OBVIOUS
  <2>1. ~(r < q) /\ q # r /\ q \in Nat /\ r \in Nat
    BY <1>2 DEF LoggedInv
  <2> QED
    BY <2>1
<1>4. B \cup H \cup R \subseteq Record /\ \A s \in Slot : G(s) \subseteq Record
  BY SetsInRecord DEF Inv
<1>5. /\ Below(B \cup H \cup R, {r})
      /\ \A s \in Slot : Below(G(s), {r})
  BY <1>3, <1>4 DEF Inv, PlacesInv, Below
<1>6. Rising(ring') /\ R' \subseteq R \cup {r}
  <2>1. CASE ring' = Append(ring, r)
    BY <1>2, <1>5, <2>1, RisingAppend, SetOfAppend DEF LineInv, R, Below
  <2>2. CASE ring' = ring
    BY <2>2 DEF LineInv, R
  <2>3. CASE Full /\ ring' = Append(Tail(ring), r)
    <3> DEFINE rest == Tail(ring)
    <3>1. ring # <<>>
      <4>1. Len(ring) # 0
        BY <2>3, QueueAssumption DEF Full
      <4> QED
        BY <4>1, <1>2, EmptySeq
    <3>2. rest \in Seq(Record) /\ Rising(rest) /\ ToSet(rest) \subseteq R
      BY <1>2, <3>1, RisingTail DEF LineInv, R
    <3>3. Below(ToSet(rest), {r})
      BY <1>5, <3>2 DEF Below
    <3>4. ring' = Append(rest, r)
      BY <2>3
    <3> HIDE DEF rest
    <3>5. Rising(Append(rest, r)) /\ ToSet(Append(rest, r)) = ToSet(rest) \cup {r}
      BY <1>2, <3>2, <3>3, RisingAppend, SetOfAppend
    <3> QED
      BY <3>2, <3>4, <3>5 DEF R
  <2> QED
    BY <2>1, <2>2, <2>3 DEF Enqueue, Offer
<1>7. Below(B', R') /\ Below(H', R')
  BY <1>1, <1>5, <1>6 DEF LineInv, Below
<1>8. \A s \in Slot : Below(G(s)', B' \cup H' \cup R')
  BY <1>1, <1>5, <1>6 DEF LineInv, Below
<1> QED
  BY <1>1, <1>6, <1>7, <1>8 DEF LineInv

(* A record that stands before the ring is pushed into the batch.          *)
LEMMA PushLine ==
  ASSUME Inv, LineInv, NEW r \in Record, PushOrDrop(r), UNCHANGED task,
         Rising(ring'), R' \subseteq R, Below(B, {r}), Below({r}, R'),
         \A s \in Slot : Below(G(s), {r})
  PROVE  LineInv'
<1>1. batch \in Seq(Record) /\ Record \in SUBSET Nat
  BY SinkAssumption DEF Inv, TypeOK
<1>2. \/ batch' = batch /\ hand' \in {<<>>, <<r>>}
      \/ batch' = Append(batch, r) /\ hand' = <<>>
  BY DEF PushOrDrop, SetBatch
<1>3. \/ Rising(batch') /\ Rising(hand') /\ B' = B /\ H' \in {{}, {r}}
      \/ Rising(batch') /\ Rising(hand') /\ B' = B \cup {r} /\ H' = {}
  <2>1. CASE batch' = batch /\ hand' \in {<<>>, <<r>>}
    BY <2>1, RisingShort, SetOfEmpty, SetOfOne DEF LineInv, B, H
  <2>2. CASE batch' = Append(batch, r) /\ hand' = <<>>
    BY <1>1, <2>2, RisingShort, RisingAppend, SetOfEmpty, SetOfAppend DEF LineInv, B, H
  <2> QED
    BY <1>2, <2>1, <2>2
<1>4. Below(B', H') /\ Below(B', R') /\ Below(H', R')
  BY <1>3 DEF LineInv, Below
<1>5. \A s \in Slot : G(s)' = G(s) /\ Rising(task'[s].group)
  BY DEF G, LineInv
<1>6. \A s \in Slot : Below(G(s)', B' \cup H' \cup R')
  BY <1>3, <1>5 DEF LineInv, Below
<1> QED
  BY <1>3, <1>4, <1>5, <1>6 DEF LineInv

LEMMA PushesLine ==
  ASSUME Inv, LineInv, Pushes
  PROVE  LineInv'
<1>1. ring \in Seq(Record) /\ Record \in SUBSET Nat
  BY SinkAssumption DEF Inv, TypeOK, QueueTypeOK
<1>2. CASE RecvRecord \/ DrainPop
  <2> DEFINE r == Head(ring)
  <2>1. ring # <<>> /\ ring' = Tail(ring) /\ PushOrDrop(r) /\ UNCHANGED task
    BY <1>2 DEF RecvRecord, DrainPop, Take
  <2>2. /\ r \in Record /\ Rising(ring') /\ Below({r}, R')
        /\ R = R' \cup {r}
    BY <1>1, <2>1, RisingTail DEF LineInv, R
  <2>3. Below(B, {r}) /\ \A s \in Slot : Below(G(s), {r})
    BY <2>2 DEF LineInv, Below
  <2> HIDE DEF r
  <2> QED
    BY <2>1, <2>2, <2>3, PushLine
<1>3. CASE PushDeferred
  <2>1. hand # <<>> /\ UNCHANGED <<ring, task>> /\ PushOrDrop(hand[1])
    BY <1>3 DEF PushDeferred, Inv, ControlInv, queueVars
  <2>2. hand[1] \in Record /\ H = {hand[1]} /\ R' = R
    BY <2>1, HandIsOne DEF Inv, R
  <2>3. /\ Rising(ring') /\ Below(B, {hand[1]}) /\ Below({hand[1]}, R')
        /\ \A s \in Slot : Below(G(s), {hand[1]})
    BY <2>1, <2>2 DEF LineInv, Below
  <2> QED
    BY <2>1, <2>2, <2>3, PushLine
<1> QED
  BY <1>2, <1>3 DEF Pushes

LEMMA SpawnLine ==
  ASSUME Inv, LineInv, NEW s \in Slot, SpawnFlush(s)
  PROVE  LineInv'
<1>1. \A t \in Slot : task'[t].group = IF t = s THEN batch ELSE task[t].group
  BY DEF SpawnFlush, Inv, TypeOK
<1>2. G(s)' = B /\ \A t \in Slot : t # s => G(t)' = G(t)
  BY <1>1 DEF G, B
<1>3. hand' = <<>> /\ ring' = ring /\ batch' \in {hand, <<>>}
  BY DEF SpawnFlush, SetBatch, queueVars
<1>4. /\ Rising(batch') /\ Rising(hand') /\ Rising(ring')
      /\ B' \in {H, {}} /\ H' = {} /\ R' = R
  BY <1>3, RisingShort, SetOfEmpty DEF LineInv, B, H, R
<1>5. \A t \in Slot : Rising(task'[t].group)
  BY <1>1 DEF LineInv
<1>6. Below(B', H') /\ Below(B', R') /\ Below(H', R')
  BY <1>4 DEF LineInv, Below
<1>7. \A t \in Slot : Below(G(t)', B' \cup H' \cup R')
  BY <1>2, <1>4 DEF LineInv, Below
<1> QED
  BY <1>4, <1>5, <1>6, <1>7 DEF LineInv

LEMMA StepKeepsLine == Inv /\ LineInv /\ LoggedInv /\ [Next]_vars => LineInv'
<1> SUFFICES ASSUME Inv, LineInv, LoggedInv, [Next]_vars PROVE LineInv'
  OBVIOUS
<1>1. ASSUME NEW r \in Record, Enqueue(r) PROVE LineInv'
  BY <1>1, EnqueueLine
<1>2. ASSUME NEW r \in Record, EnqueueRefused(r) PROVE LineInv'
  BY <1>2, EmptyingKeepsLine DEF EnqueueRefused, Refuse
<1>3. CASE Moves
  BY <1>3, MovesShape, EmptyingKeepsLine DEF Inv
<1>4. CASE Pushes
  BY <1>4, PushesLine
<1>5. CASE WriteOffs
  <2>1. /\ ring' \in {ring, <<>>} /\ batch' \in {batch, <<>>} /\ hand' \in {hand, <<>>}
        /\ UNCHANGED task \/ task' = [s \in Slot |-> NoTask]
    BY <1>5 DEF WriteOffs, DropFlush, DrainStop, StopWaiting, FailDrain, queueVars
  <2>2. \A s \in Slot : task'[s].group \in {task[s].group, <<>>}
    BY <2>1 DEF NoTask
  <2> QED
    BY <2>1, <2>2, EmptyingKeepsLine
<1>6. ASSUME NEW s \in Slot, SpawnFlush(s) PROVE LineInv'
  BY <1>6, SpawnLine
<1>7. ASSUME NEW s \in Slot, TaskActs(s) PROVE LineInv'
  <2>1. UNCHANGED <<ring, batch, hand>>
    BY <1>7, TaskCases DEF Inv, queueVars
  <2>2. \A t \in Slot : task'[t].group \in {task[t].group, <<>>}
    <3>1. CASE GoesOn(s)
      BY <3>1 DEF GoesOn
    <3>2. ASSUME NEW o, EndTask(s, o)
          PROVE  \A t \in Slot : task'[t].group \in {task[t].group, <<>>}
      BY <3>2 DEF EndTask, NoTask, Inv, TypeOK
    <3> QED
      BY <1>7, <3>1, <3>2, TaskCases DEF Inv
  <2> QED
    BY <2>1, <2>2, EmptyingKeepsLine
<1>8. CASE UNCHANGED vars
  BY <1>8, EmptyingKeepsLine DEF vars, queueVars, pipeVars
<1> QED
  BY <1>1, <1>2, <1>3, <1>4, <1>5, <1>6, <1>7, <1>8, StepCases

(* Only logging a record makes it other than fresh.                        *)
LEMMA SameFreshKeepsLogged ==
  ASSUME LoggedInv, \A r \in Record : fate'[r] = "fresh" <=> fate[r] = "fresh"
  PROVE  LoggedInv'
BY DEF LoggedInv

LEMMA OfferLogs ==
  ASSUME Inv, NEW r \in Record, Enqueue(r) \/ EnqueueRefused(r)
  PROVE  \A q \in Record : fate'[q] = "fresh" <=> fate[q] = "fresh" /\ q # r
<1>1. fate \in [Record -> QueueFate] /\ ring \in Seq(Record) /\ fate[r] = "fresh"
  BY DEF Inv, TypeOK, QueueTypeOK, Enqueue, EnqueueRefused, Offer, Refuse
<1>2. CASE EnqueueRefused(r)
  BY <1>1, <1>2 DEF EnqueueRefused, Refuse
<1>3. CASE Enqueue(r) /\ ~Full
  BY <1>1, <1>3 DEF Enqueue, Offer
<1>4. CASE Enqueue(r) /\ Full
  <2>1. fate' = [fate EXCEPT ![r] = "queued", ![Victim(r)] = "queue_full"]
    BY <1>4 DEF Enqueue, Offer
  <2>2. Victim(r) = r \/ (Victim(r) \in Record /\ fate[Victim(r)] = "queued")
    <3>1. CASE DropOldest
      <4>1. ring # <<>>
        <5>1. Len(ring) # 0
          BY <1>4, QueueAssumption DEF Full
        <5> QED
          BY <5>1, <1>1, EmptySeq
      <4>2. Head(ring) \in Record /\ Head(ring) \in R
        <5>1. Distinct(ring)
          BY DEF Inv, PlacesInv
        <5> QED
          BY <1>1, <4>1, <5>1, SetOfTail DEF R
      <4> QED
        BY <3>1, <4>2 DEF Victim, Inv, PlacesInv
    <3>2. CASE ~DropOldest
      BY <3>2 DEF Victim
    <3> QED
      BY <3>1, <3>2
  <2> QED
    BY <1>1, <2>1, <2>2
<1> QED
  BY <1>2, <1>3, <1>4

LEMMA TakeIsNotFresh ==
  ASSUME Inv, Take
  PROVE  \A q \in Record : fate'[q] = "fresh" <=> fate[q] = "fresh"
<1>1. ring \in Seq(Record) /\ Distinct(ring) /\ ring # <<>> /\ fate \in [Record -> QueueFate]
  BY DEF Take, Inv, PlacesInv, TypeOK, QueueTypeOK
<1>2. Head(ring) \in R
  BY <1>1, SetOfTail DEF R
<1>3. fate[Head(ring)] = "queued"
  BY <1>2 DEF Inv, PlacesInv
<1> QED
  BY <1>1, <1>3 DEF Take

LEMMA StepKeepsLogged == Inv /\ LoggedInv /\ [Next]_vars => LoggedInv'
<1> SUFFICES ASSUME Inv, LoggedInv, [Next]_vars PROVE LoggedInv'
  OBVIOUS
<1>1. ASSUME NEW r \in Record, Enqueue(r) \/ EnqueueRefused(r) PROVE LoggedInv'
  <2>1. \A q \in Record : q < r => fate[q] # "fresh"
    BY <1>1 DEF Enqueue, EnqueueRefused, IsNext
  <2>2. Record \subseteq Nat
    BY SinkAssumption
  <2> QED
    BY <1>1, <2>1, <2>2, OfferLogs DEF LoggedInv
<1>2. CASE Moves
  BY <1>2, MovesShape, SameFreshKeepsLogged DEF Inv
<1>3. CASE Pushes
  <2>1. CASE Take
    BY <2>1, TakeIsNotFresh, SameFreshKeepsLogged
  <2>2. CASE UNCHANGED fate
    BY <2>2, SameFreshKeepsLogged
  <2> QED
    BY <1>3, <2>1, <2>2 DEF Pushes, RecvRecord, DrainPop, PushDeferred, queueVars
<1>4. CASE WriteOffs
  <2>1. CASE FailDrain
    <3>1. \A q \in Record : q \in R => fate[q] = "queued"
      BY DEF Inv, PlacesInv
    <3>2. \A q \in Record : fate'[q] = IF q \in R THEN "taken" ELSE fate[q]
      BY <2>1 DEF FailDrain, R
    <3> QED
      BY <3>1, <3>2, SameFreshKeepsLogged
  <2>2. CASE UNCHANGED fate
    BY <2>2, SameFreshKeepsLogged
  <2> QED
    BY <1>4, <2>1, <2>2 DEF WriteOffs, DropFlush, DrainStop, StopWaiting, queueVars
<1>5. ASSUME NEW s \in Slot, SpawnFlush(s) \/ TaskActs(s) PROVE LoggedInv'
  <2>1. UNCHANGED fate
    BY <1>5, TaskCases DEF Inv, SpawnFlush, queueVars
  <2> QED
    BY <2>1, SameFreshKeepsLogged
<1>6. CASE UNCHANGED vars
  BY <1>6, SameFreshKeepsLogged DEF vars, queueVars
<1> QED
  BY <1>1, <1>2, <1>3, <1>4, <1>5, <1>6, StepCases

LEMMA LineIsInOrder ==
  ASSUME TypeOK, LineInv
  PROVE  DispatchInOrder
<1> DEFINE front == batch \o hand
           line == front \o ring
<1>1. /\ batch \in Seq(Record) /\ hand \in Seq(Record) /\ ring \in Seq(Record)
      /\ Record \in SUBSET Nat
  BY SinkAssumption DEF TypeOK, QueueTypeOK
<1>2. front \in Seq(Record) /\ Rising(front) /\ ToSet(front) = B \cup H
  BY <1>1, RisingConcat, SetOfConcat DEF LineInv, B, H
<1>3. Below(ToSet(front), R)
  BY <1>2 DEF LineInv, Below
<1> HIDE DEF front
<1>4. line \in Seq(Record) /\ Rising(line) /\ ToSet(line) = B \cup H \cup R
  <2>1. Rising(ring)
    BY DEF LineInv
  <2>2. line \in Seq(Record) /\ Rising(line)
    BY <1>1, <1>2, <1>3, <2>1, RisingConcat DEF R
  <2>3. ToSet(line) = ToSet(front) \cup R
    BY <1>1, <1>2, SetOfConcat DEF R
  <2> QED
    BY <1>2, <2>2, <2>3
<1>5. line = batch \o hand \o ring
  BY DEF front
<1> HIDE DEF line
<1>6. \A i, j \in DOMAIN line : i < j => line[i] < line[j]
  BY <1>4, LenProperties DEF Rising
<1>7. ASSUME NEW s \in Slot
      PROVE  /\ \A i, j \in DOMAIN task[s].group : i < j => task[s].group[i] < task[s].group[j]
             /\ \A r \in ToSet(task[s].group), q \in ToSet(line) : r < q
  <2>1. task[s].group \in Seq(Record)
    BY DEF TypeOK, Task
  <2>2. Rising(task[s].group) /\ Below(G(s), B \cup H \cup R)
    BY DEF LineInv
  <2> QED
    BY <1>4, <2>1, <2>2, LenProperties DEF Rising, Below, G
<1> QED
  BY <1>5, <1>6, <1>7 DEF DispatchInOrder

(* Records are handed to the send tasks in the order in which they were    *)
(* logged, also across a flush deferred by the shutdown (spawn_flush,      *)
(* push_or_drop, run_pipeline).                                            *)
THEOREM DispatchKeepsOrder == Spec => []DispatchInOrder
<1>1. Inv /\ LineInv => DispatchInOrder
  BY LineIsInOrder DEF Inv
<1>2. Spec => [](LineInv /\ LoggedInv)
  BY InitLine, InvHolds, StepKeepsLine, StepKeepsLogged, PTL DEF Spec
<1> QED
  BY <1>1, <1>2, InvHolds, PTL

-----------------------------------------------------------------------------
(* The counters, each with the set it counts.                              *)
Counts(n, S) == IsFiniteSet(S) /\ Cardinality(S) = n

LostTo(c) == {r \in Record : fate[r] = c \/ outcome[r] = c}

DropsCount == \A c \in Causes : Counts(dropped[c], LostTo(c))

PendingCount == Counts(pending, InFlight)

LEMMA CountOfNone == Counts(0, {})
BY FS_EmptySet DEF Counts

LEMMA CountOfOne == \A r : Counts(1, {r})
BY FS_Singleton DEF Counts

LEMMA CountOfBoth ==
  ASSUME NEW n, NEW S, NEW k, NEW X, Counts(n, S), Counts(k, X), S \cap X = {}
  PROVE  Counts(n + k, S \cup X)
<1>1. IsFiniteSet(S) /\ IsFiniteSet(X) /\ Cardinality(S \cap X) = 0
  BY FS_EmptySet DEF Counts
<1>2. /\ IsFiniteSet(S \cup X)
      /\ Cardinality(S \cup X) = Cardinality(S) + Cardinality(X) - 0
  BY <1>1, FS_Union
<1>3. n \in Nat /\ k \in Nat /\ n = Cardinality(S) /\ k = Cardinality(X)
  BY <1>1, FS_CardinalityType DEF Counts
<1> QED
  BY <1>2, <1>3 DEF Counts

LEMMA CountOfRest ==
  ASSUME NEW n, NEW S, NEW k, NEW X, Counts(n, S), Counts(k, X), X \subseteq S
  PROVE  Counts(n - k, S \ X)
<1>1. IsFiniteSet(S) /\ S \cap X = X
  BY DEF Counts
<1>2. IsFiniteSet(S \ X) /\ Cardinality(S \ X) = Cardinality(S) - Cardinality(X)
  BY <1>1, FS_Difference
<1> QED
  BY <1>2 DEF Counts

LEMMA CountOfSequence ==
  ASSUME NEW S, NEW q \in Seq(S), Distinct(q)
  PROVE  Counts(Len(q), ToSet(q))
<1> DEFINE D == 1..Len(q)
<1>1. Len(q) \in Nat /\ DOMAIN q = D
  BY LenProperties
<1>2. IsFiniteSet(D) /\ Cardinality(D) = Len(q)
  <2>1. /\ IsFiniteSet(1..Len(q))
        /\ Cardinality(1..Len(q)) = IF 1 > Len(q) THEN 0 ELSE Len(q) - 1 + 1
    BY <1>1, FS_Interval
  <2> QED
    BY <1>1, <2>1
<1>3. q \in Bijection(D, ToSet(q))
  <2>1. q \in [D -> ToSet(q)]
    BY <1>1 DEF ToSet
  <2>2. \A a, b \in D : q[a] = q[b] => a = b
    BY DEF Distinct
  <2>3. \A x \in ToSet(q) : \E a \in D : q[a] = x
    BY <1>1 DEF ToSet
  <2> HIDE DEF D
  <2> QED
    BY <2>1, <2>2, <2>3, Fun_IsBij
<1>4. ExistsBijection(D, ToSet(q))
  BY <1>3 DEF ExistsBijection
<1> HIDE DEF D
<1> QED
  BY <1>2, <1>4, FS_Bijection DEF Counts

LEMMA CountOfRising ==
  ASSUME NEW q \in Seq(Record), Rising(q)
  PROVE  Counts(Len(q), ToSet(q))
BY SinkAssumption, RisingIsDistinct, CountOfSequence

(* Neither a counter nor what it counts has changed.                       *)
LEMMA SameDrops ==
  ASSUME DropsCount, UNCHANGED <<dropped, outcome>>,
         \A r \in Record, c \in Causes : fate'[r] = c <=> fate[r] = c
  PROVE  DropsCount'
<1>1. \A c \in Causes : LostTo(c)' = LostTo(c)
  BY DEF LostTo
<1> QED
  BY <1>1 DEF DropsCount

(* The records of X are lost to c, and counted.                            *)
LEMMA MoreDrops ==
  ASSUME TypeOK, DropsCount, NEW c \in Causes, NEW n, NEW X, Counts(n, X), Drop(c, n),
         LostTo(c) \cap X = {}, LostTo(c)' = LostTo(c) \cup X,
         \A d \in Causes \ {c} : LostTo(d)' = LostTo(d)
  PROVE  DropsCount'
<1>1. \A d \in Causes : dropped'[d] = IF d = c THEN dropped[c] + n ELSE dropped[d]
  BY DEF Drop, TypeOK
<1>2. Counts(dropped[c] + n, LostTo(c) \cup X)
  BY CountOfBoth DEF DropsCount
<1>3. Counts(dropped[c], LostTo(c))'
  BY <1>1, <1>2
<1>4. \A d \in Causes \ {c} : Counts(dropped[d], LostTo(d))'
  BY <1>1 DEF DropsCount
<1> QED
  BY <1>3, <1>4 DEF DropsCount

(* What the pipeline holds.                                                *)
Holds(X) ==
  \A r \in X : \/ r \in B \cup H
               \/ \E s \in Slot : r \in G(s)
               \/ ~Gone /\ r \in R

LEMMA HeldIsOpen ==
  ASSUME Inv, NEW X, Holds(X)
  PROVE  /\ X \subseteq Record
         /\ \A r \in X : fate[r] \in {"queued", "taken"} /\ outcome[r] = "none"
BY SetsInRecord DEF Inv, LossInv, Accounted, Holds

(* What is held is written off to c; a drain may take it from the ring.    *)
LEMMA WriteOffCounts ==
  ASSUME Inv, DropsCount, NEW c \in Causes \cap Outcomes, NEW n, NEW X,
         Counts(n, X), Drop(c, n), Settle(X, c), Holds(X),
         \A r \in Record, d \in Causes : fate'[r] = d <=> fate[r] = d
  PROVE  DropsCount'
<1>1. X \subseteq Record /\ \A r \in X : fate[r] \in {"queued", "taken"} /\ outcome[r] = "none"
  BY HeldIsOpen
<1>2. \A r \in Record : outcome'[r] = IF r \in X THEN c ELSE outcome[r]
  BY DEF Settle
<1>3. LostTo(c) \cap X = {}
  BY <1>1 DEF LostTo, Causes
<1>4. LostTo(c)' = LostTo(c) \cup X
  BY <1>1, <1>2 DEF LostTo
<1>5. \A d \in Causes \ {c} : LostTo(d)' = LostTo(d)
  BY <1>1, <1>2 DEF LostTo, Causes
<1> QED
  BY <1>3, <1>4, <1>5, MoreDrops DEF Inv

LEMMA EnqueueDrops ==
  ASSUME Inv, DropsCount, NEW r \in Record, Enqueue(r)
  PROVE  DropsCount'
<1>1. /\ fate \in [Record -> QueueFate] /\ ring \in Seq(Record) /\ fate[r] = "fresh"
      /\ UNCHANGED outcome
  BY DEF Inv, TypeOK, QueueTypeOK, Enqueue, Offer
<1>2. CASE ~Full
  <2>1. \A q \in Record : fate'[q] = IF q = r THEN "queued" ELSE fate[q]
    BY <1>1, <1>2 DEF Enqueue, Offer
  <2>2. UNCHANGED dropped
    BY <1>2 DEF Enqueue
  <2> QED
    BY <1>1, <2>1, <2>2, SameDrops DEF Causes
<1>3. CASE Full
  <2> DEFINE v == Victim(r)
  <2>1. fate' = [fate EXCEPT ![r] = "queued", ![v] = "queue_full"] /\ Drop("queue_full", 1)
    BY <1>3 DEF Enqueue, Offer
  <2>2. v = r \/ (v \in Record /\ fate[v] = "queued")
    <3>1. CASE DropOldest
      <4>1. ring # <<>>
        <5>1. Len(ring) # 0
          BY <1>3, QueueAssumption DEF Full
        <5> QED
          BY <5>1, <1>1, EmptySeq
      <4>2. Head(ring) \in Record /\ Head(ring) \in R
        <5>1. Distinct(ring)
          BY DEF Inv, PlacesInv
        <5> QED
          BY <1>1, <4>1, <5>1, SetOfTail DEF R
      <4> QED
        BY <3>1, <4>2 DEF Victim, Inv, PlacesInv
    <3>2. CASE ~DropOldest
      BY <3>2 DEF Victim
    <3> QED
      BY <3>1, <3>2
  <2> HIDE DEF v
  <2>3. /\ v \in Record /\ fate[v] \in {"fresh", "queued"}
        /\ \A q \in Record : fate'[q] = IF q = v THEN "queue_full"
                                        ELSE IF q = r THEN "queued" ELSE fate[q]
    BY <1>1, <2>1, <2>2
  <2>4. outcome \in [Record -> Outcomes]
    BY DEF Inv, TypeOK
  <2>5. LostTo("queue_full") \cap {v} = {}
    BY <2>3, <2>4 DEF LostTo, Outcomes
  <2>6. LostTo("queue_full")' = LostTo("queue_full") \cup {v}
    BY <1>1, <2>3 DEF LostTo
  <2>7. \A d \in Causes \ {"queue_full"} : LostTo(d)' = LostTo(d)
    BY <1>1, <2>3 DEF LostTo, Causes
  <2>8. TypeOK /\ "queue_full" \in Causes /\ Counts(1, {v})
    BY CountOfOne DEF Inv, Causes
  <2> QED
    BY <2>1, <2>5, <2>6, <2>7, <2>8, MoreDrops
<1> QED
  BY <1>2, <1>3

LEMMA RefusedDrops ==
  ASSUME Inv, DropsCount, NEW r \in Record, EnqueueRefused(r)
  PROVE  DropsCount'
<1>1. /\ fate[r] = "fresh" /\ outcome[r] = "none" /\ UNCHANGED outcome
      /\ Drop("worker_closed", 1)
  BY DEF EnqueueRefused, Refuse, Inv, OutcomeInv
<1>2. \A q \in Record : fate'[q] = IF q = r THEN "worker_closed" ELSE fate[q]
  BY DEF EnqueueRefused, Refuse, Inv, TypeOK, QueueTypeOK
<1>3. LostTo("worker_closed") \cap {r} = {}
  BY <1>1 DEF LostTo
<1>4. LostTo("worker_closed")' = LostTo("worker_closed") \cup {r}
  BY <1>1, <1>2 DEF LostTo
<1>5. \A d \in Causes \ {"worker_closed"} : LostTo(d)' = LostTo(d)
  BY <1>1, <1>2 DEF LostTo, Causes
<1>6. TypeOK /\ "worker_closed" \in Causes /\ Counts(1, {r})
  BY CountOfOne DEF Inv, Causes
<1> QED
  BY <1>1, <1>3, <1>4, <1>5, <1>6, MoreDrops

LEMMA SameCauses ==
  ASSUME UNCHANGED fate
  PROVE  \A r \in Record, d \in Causes : fate'[r] = d <=> fate[r] = d
OBVIOUS

LEMMA TakeCauses ==
  ASSUME Inv, Take
  PROVE  \A r \in Record, d \in Causes : fate'[r] = d <=> fate[r] = d
<1>1. ring \in Seq(Record) /\ Distinct(ring) /\ ring # <<>> /\ fate \in [Record -> QueueFate]
  BY DEF Take, Inv, PlacesInv, TypeOK, QueueTypeOK
<1>2. Head(ring) \in R
  BY <1>1, SetOfTail DEF R
<1>3. fate[Head(ring)] = "queued"
  BY <1>2 DEF Inv, PlacesInv
<1>4. \A r \in Record : fate'[r] = IF r = Head(ring) THEN "taken" ELSE fate[r]
  BY <1>1 DEF Take
<1> QED
  BY <1>3, <1>4 DEF Causes

LEMMA PushesDrops ==
  ASSUME Inv, DropsCount, Pushes
  PROVE  DropsCount'
<1>1. \A r \in Record, d \in Causes : fate'[r] = d <=> fate[r] = d
  BY TakeCauses, SameCauses DEF Pushes, RecvRecord, DrainPop, PushDeferred, queueVars
<1>2. PICK r \in Record : PushOrDrop(r) /\ Holds({r})
  <2>1. CASE RecvRecord \/ DrainPop
    <3>1. /\ ring # <<>> /\ ring \in Seq(Record) /\ Distinct(ring)
          /\ ~Gone /\ PushOrDrop(Head(ring))
      BY <2>1 DEF RecvRecord, DrainPop, Take, Gone, Inv, TypeOK, QueueTypeOK, PlacesInv
    <3>2. Head(ring) \in Record /\ Head(ring) \in R
      BY <3>1, SetOfTail DEF R
    <3> QED
      BY <3>1, <3>2 DEF Holds
  <2>2. CASE PushDeferred
    <3>1. hand # <<>> /\ PushOrDrop(hand[1])
      BY <2>2 DEF PushDeferred, Inv, ControlInv
    <3> QED
      BY <3>1, HandIsOne DEF Inv, Holds
  <2> QED
    BY <2>1, <2>2 DEF Pushes
<1>3. CASE Drop("send_failed", 1) /\ Settle({r}, "send_failed")
  <2>1. "send_failed" \in Causes \cap Outcomes /\ Counts(1, {r})
    BY CountOfOne DEF Causes, Outcomes
  <2> QED
    BY <1>1, <1>2, <1>3, <2>1, WriteOffCounts
<1>4. CASE UNCHANGED <<dropped, outcome>>
  BY <1>1, <1>4, SameDrops
<1> QED
  BY <1>2, <1>3, <1>4 DEF PushOrDrop

LEMMA WriteOffsDrops ==
  ASSUME Inv, LineInv, DropsCount, PendingCount, WriteOffs
  PROVE  DropsCount'
<1>1. /\ batch \in Seq(Record) /\ hand \in Seq(Record) /\ ring \in Seq(Record)
      /\ Record \in SUBSET Nat
      /\ "shutdown_dropped" \in Causes \cap Outcomes
      /\ "worker_closed" \in Causes \cap Outcomes
  BY SinkAssumption DEF Inv, TypeOK, QueueTypeOK, Causes, Outcomes
<1>2. CASE DropFlush
  <2> DEFINE rest == IF worker = "tailflush" THEN ring ELSE <<>>
             front == batch \o hand
  <2>1. /\ Drop("shutdown_dropped", Len(front \o rest))
        /\ Settle(ToSet(front \o rest), "shutdown_dropped") /\ ~Gone /\ UNCHANGED fate
    BY <1>2 DEF DropFlush, Gone, queueVars
  <2>2. rest \in Seq(Record) /\ Rising(rest) /\ ToSet(rest) \subseteq R
    BY <1>1, SetOfEmpty, RisingShort DEF LineInv, R
  <2>3. front \in Seq(Record) /\ Rising(front) /\ ToSet(front) = B \cup H
    BY <1>1, RisingConcat, SetOfConcat DEF LineInv, B, H
  <2>4. Below(ToSet(front), ToSet(rest))
    BY <2>2, <2>3 DEF LineInv, Below
  <2> HIDE DEF rest, front
  <2>5. /\ Rising(front \o rest) /\ front \o rest \in Seq(Record)
        /\ ToSet(front \o rest) = B \cup H \cup ToSet(rest)
    <3>1. front \o rest \in Seq(Record)
      BY <2>2, <2>3
    <3>2. ToSet(front \o rest) = ToSet(front) \cup ToSet(rest)
      BY <2>2, <2>3, SetOfConcat
    <3>3. Rising(front \o rest)
      BY <1>1, <2>2, <2>3, <2>4, RisingConcat
    <3> QED
      BY <2>3, <3>1, <3>2, <3>3
  <2>6. Holds(ToSet(front \o rest))
    BY <2>1, <2>2, <2>5 DEF Holds
  <2>7. Counts(Len(front \o rest), ToSet(front \o rest))
    BY <2>5, CountOfRising
  <2> QED
    BY <1>1, <2>1, <2>6, <2>7, SameCauses, WriteOffCounts
<1>3. CASE DrainStop
  <2>1. ~Gone /\ UNCHANGED fate
    BY <1>3 DEF DrainStop, Gone, queueVars
  <2>2. CASE UNCHANGED <<dropped, outcome>>
    BY <2>1, <2>2, SameDrops
  <2>3. CASE /\ Drop("shutdown_dropped", Len(batch) + Len(ring))
             /\ Settle(ToSet(batch \o ring), "shutdown_dropped")
    <3>1. /\ Rising(batch \o ring) /\ batch \o ring \in Seq(Record)
          /\ ToSet(batch \o ring) = B \cup R
      BY <1>1, RisingConcat, SetOfConcat DEF LineInv, B, R
    <3>2. Len(batch \o ring) = Len(batch) + Len(ring)
      BY <1>1, ConcatProperties
    <3>3. Holds(ToSet(batch \o ring))
      BY <2>1, <3>1 DEF Holds
    <3>4. Counts(Len(batch) + Len(ring), ToSet(batch \o ring))
      BY <3>1, <3>2, CountOfRising
    <3> QED
      BY <1>1, <2>1, <2>3, <3>3, <3>4, SameCauses, WriteOffCounts
  <2> QED
    BY <1>3, <2>2, <2>3 DEF DrainStop
<1>4. CASE StopWaiting
  <2>1. /\ Drop("shutdown_dropped", pending) /\ Settle(InFlight, "shutdown_dropped")
        /\ UNCHANGED fate
    BY <1>4 DEF StopWaiting, queueVars
  <2>2. Holds(InFlight)
    BY InFlightIs DEF Holds
  <2> QED
    BY <1>1, <2>1, <2>2, SameCauses, WriteOffCounts DEF PendingCount
<1>5. CASE FailDrain
  <2>1. Drop("worker_closed", Len(ring)) /\ Settle(R, "worker_closed") /\ ~Gone
    BY <1>5 DEF FailDrain, R, Gone
  <2>2. \A r \in Record : fate'[r] = IF r \in R THEN "taken" ELSE fate[r]
    BY <1>5 DEF FailDrain, R
  <2>3. \A r \in Record, d \in Causes : fate'[r] = d <=> fate[r] = d
    BY <2>2 DEF Inv, PlacesInv, Causes
  <2>4. Holds(R)
    BY <2>1 DEF Holds
  <2>5. Counts(Len(ring), R)
    BY <1>1, CountOfRising DEF LineInv, R
  <2> QED
    BY <1>1, <2>1, <2>3, <2>4, <2>5, WriteOffCounts
<1> QED
  BY <1>2, <1>3, <1>4, <1>5 DEF WriteOffs

LEMMA SpawnDrops ==
  ASSUME Inv, LineInv, DropsCount, NEW s \in Slot, SpawnFlush(s)
  PROVE  DropsCount'
<1>1. UNCHANGED fate
  BY DEF SpawnFlush, queueVars
<1>2. CASE UNCHANGED <<dropped, outcome>>
  BY <1>1, <1>2, SameDrops
<1>3. CASE Drop("shutdown_dropped", Len(ring)) /\ Settle(ToSet(ring), "shutdown_dropped")
  <2>1. Holds(R) /\ "shutdown_dropped" \in Causes \cap Outcomes /\ ToSet(ring) = R
    BY DEF SpawnFlush, Holds, Gone, Causes, Outcomes, R
  <2>2. Counts(Len(ring), R)
    BY CountOfRising DEF LineInv, R, Inv, TypeOK, QueueTypeOK
  <2> QED
    BY <1>1, <1>3, <2>1, <2>2, SameCauses, WriteOffCounts
<1> QED
  BY <1>2, <1>3 DEF SpawnFlush

LEMMA TaskDrops ==
  ASSUME Inv, LineInv, DropsCount, NEW s \in Slot, TaskActs(s)
  PROVE  DropsCount'
<1>1. UNCHANGED fate
  BY TaskCases DEF Inv, queueVars
<1>2. CASE GoesOn(s)
  BY <1>1, <1>2, SameDrops DEF GoesOn, KeepTask
<1>3. CASE EndTask(s, "acked")
  <2>1. UNCHANGED dropped /\ \A r \in Record :
                               outcome'[r] = IF r \in G(s) THEN "acked" ELSE outcome[r]
    BY <1>3 DEF EndTask, Settle, G
  <2>2. \A r \in G(s) : outcome[r] = "none"
    BY HeldIsOpen DEF Holds
  <2>3. \A c \in Causes : LostTo(c)' = LostTo(c)
    BY <1>1, <2>1, <2>2 DEF LostTo, Causes
  <2> QED
    BY <2>1, <2>3 DEF DropsCount
<1>4. ASSUME NEW o \in {"send_failed", "shutdown_dropped"}, EndTask(s, o) PROVE DropsCount'
  <2>1. Drop(o, Len(task[s].group)) /\ Settle(G(s), o) /\ o \in Causes \cap Outcomes
    BY <1>4 DEF EndTask, G, Causes, Outcomes
  <2>2. Holds(G(s))
    BY DEF Holds
  <2>3. task[s].group \in Seq(Record) /\ Rising(task[s].group)
    BY DEF Inv, TypeOK, Task, LineInv
  <2>4. Counts(Len(task[s].group), G(s))
    BY <2>3, CountOfRising DEF G
  <2> QED
    BY <1>1, <2>1, <2>2, <2>4, SameCauses, WriteOffCounts
<1> QED
  BY <1>2, <1>3, <1>4, TaskCases DEF Inv, EndOutcomes

LEMMA StepKeepsDrops ==
  Inv /\ LineInv /\ DropsCount /\ PendingCount /\ [Next]_vars => DropsCount'
<1> SUFFICES ASSUME Inv, LineInv, DropsCount, PendingCount, [Next]_vars PROVE DropsCount'
  OBVIOUS
<1>1. CASE Moves
  BY <1>1, MovesShape, SameCauses, SameDrops DEF Inv
<1>2. CASE UNCHANGED vars
  BY <1>2, SameCauses, SameDrops DEF vars, queueVars, pipeVars
<1> QED
  BY <1>1, <1>2, EnqueueDrops, RefusedDrops, PushesDrops, WriteOffsDrops, SpawnDrops,
     TaskDrops, StepCases

-----------------------------------------------------------------------------
(* pending_records                                                         *)

LEMMA SamePending ==
  ASSUME PendingCount, UNCHANGED pending, \A s \in Slot : task'[s].group = task[s].group
  PROVE  PendingCount'
<1>1. InFlight' = InFlight
  BY DEF InFlight
<1> QED
  BY <1>1 DEF PendingCount

LEMMA SpawnPending ==
  ASSUME Inv, LineInv, PendingCount, NEW s \in Slot, SpawnFlush(s)
  PROVE  PendingCount'
<1>1. \A t \in Slot : task'[t].group = IF t = s THEN batch ELSE task[t].group
  BY DEF SpawnFlush, Inv, TypeOK
<1>2. G(s)' = B /\ \A t \in Slot : t # s => G(t)' = G(t)
  BY <1>1 DEF G, B
<1>3. G(s) = {}
  BY SetOfEmpty DEF SpawnFlush, Inv, ControlInv, G
<1>4. InFlight' = UNION {G(t)' : t \in Slot}
  BY DEF InFlight, G
<1>5. InFlight' = InFlight \cup B
  BY <1>2, <1>3, <1>4, InFlightIs
<1>6. InFlight \cap B = {}
  BY InFlightIs DEF Inv, PlacesInv
<1>7. Counts(Len(batch), B)
  BY CountOfRising DEF Inv, TypeOK, LineInv, B
<1>8. Counts(pending + Len(batch), InFlight \cup B)
  BY <1>6, <1>7, CountOfBoth DEF PendingCount
<1> QED
  BY <1>5, <1>8 DEF SpawnFlush, PendingCount

LEMMA EndTaskPending ==
  ASSUME Inv, LineInv, PendingCount, NEW s \in Slot, NEW o, EndTask(s, o)
  PROVE  PendingCount'
<1>1. \A t \in Slot : task'[t].group = IF t = s THEN <<>> ELSE task[t].group
  BY DEF EndTask, NoTask, Inv, TypeOK
<1>2. G(s)' = {} /\ \A t \in Slot : t # s => G(t)' = G(t)
  BY <1>1, SetOfEmpty DEF G
<1>3. InFlight' = UNION {G(t)' : t \in Slot}
  BY DEF InFlight, G
<1>4. \A t \in Slot : t # s => G(t) \cap G(s) = {}
  BY DEF Inv, PlacesInv
<1>5. InFlight' = InFlight \ G(s) /\ G(s) \subseteq InFlight
  BY <1>2, <1>3, <1>4, InFlightIs
<1>6. task[s].group \in Seq(Record) /\ Rising(task[s].group)
  BY DEF Inv, TypeOK, Task, LineInv
<1>7. Counts(Len(task[s].group), G(s))
  BY <1>6, CountOfRising DEF G
<1>8. Counts(pending - Len(task[s].group), InFlight \ G(s))
  BY <1>5, <1>7, CountOfRest DEF PendingCount
<1> QED
  BY <1>5, <1>8 DEF EndTask, PendingCount

LEMMA StepKeepsPending == Inv /\ LineInv /\ PendingCount /\ [Next]_vars => PendingCount'
<1> SUFFICES ASSUME Inv, LineInv, PendingCount, [Next]_vars PROVE PendingCount'
  OBVIOUS
<1>1. ASSUME NEW r \in Record, Enqueue(r) \/ EnqueueRefused(r) PROVE PendingCount'
  BY <1>1, SamePending DEF Enqueue, EnqueueRefused
<1>2. CASE Moves
  BY <1>2, MovesShape, SamePending DEF Inv
<1>3. CASE Pushes
  BY <1>3, SamePending DEF Pushes, RecvRecord, DrainPop, PushDeferred
<1>4. CASE StopWaiting
  <2>1. pending' = 0 /\ \A s \in Slot : task'[s].group = <<>>
    BY <1>4 DEF StopWaiting, NoTask
  <2>2. InFlight' = {}
    BY <2>1, SetOfEmpty DEF InFlight
  <2> QED
    BY <2>1, <2>2, CountOfNone DEF PendingCount
<1>5. CASE DropFlush \/ DrainStop \/ FailDrain
  BY <1>5, SamePending DEF DropFlush, DrainStop, FailDrain
<1>6. ASSUME NEW s \in Slot, SpawnFlush(s) PROVE PendingCount'
  BY <1>6, SpawnPending
<1>7. ASSUME NEW s \in Slot, TaskActs(s) PROVE PendingCount'
  <2>1. CASE GoesOn(s)
    BY <2>1, SamePending DEF GoesOn, KeepTask
  <2> QED
    BY <1>7, <2>1, EndTaskPending, TaskCases DEF Inv
<1>8. CASE UNCHANGED vars
  BY <1>8, SamePending DEF vars, pipeVars
<1> QED
  BY <1>1, <1>2, <1>3, <1>4, <1>5, <1>6, <1>7, <1>8, StepCases DEF WriteOffs

LEMMA InitCounts == Init => DropsCount /\ PendingCount
<1> SUFFICES ASSUME Init PROVE DropsCount /\ PendingCount
  OBVIOUS
<1>1. \A c \in Causes : LostTo(c) = {} /\ dropped[c] = 0
  BY DEF Init, QueueInit, LostTo, Causes
<1>2. InFlight = {} /\ pending = 0
  BY SetOfEmpty DEF Init, NoTask, InFlight
<1> QED
  BY <1>1, <1>2, CountOfNone DEF DropsCount, PendingCount

LEMMA CountsHold == Spec => [](DropsCount /\ PendingCount)
<1>1. Spec => [](LineInv /\ LoggedInv)
  BY InitLine, InvHolds, StepKeepsLine, StepKeepsLogged, PTL DEF Spec
<1> QED
  BY <1>1, InitCounts, InvHolds, StepKeepsDrops, StepKeepsPending, PTL DEF Spec

LEMMA CountsAreExact == Inv /\ DropsCount /\ PendingCount => CountersExact
<1> SUFFICES ASSUME Inv, DropsCount, PendingCount PROVE CountersExact
  OBVIOUS
<1>1. fate \in [Record -> QueueFate] /\ outcome \in [Record -> Outcomes]
  BY DEF Inv, TypeOK, QueueTypeOK
<1>2. /\ LostTo("queue_full") = Fated("queue_full")
      /\ LostTo("worker_closed") = Fated("worker_closed") \cup Ended("worker_closed")
      /\ LostTo("send_failed") = Ended("send_failed")
      /\ LostTo("shutdown_dropped") = Ended("shutdown_dropped")
  BY <1>1 DEF LostTo, Fated, Ended, QueueFate, Outcomes
<1>3. \A c \in Causes : IsFiniteSet(LostTo(c)) /\ Cardinality(LostTo(c)) = dropped[c]
  BY DEF DropsCount, Counts
<1>4. /\ Fated("worker_closed") \cap Ended("worker_closed") = {}
      /\ Fated("worker_closed") \subseteq LostTo("worker_closed")
      /\ Ended("worker_closed") \subseteq LostTo("worker_closed")
  BY <1>2 DEF Inv, OutcomeInv, Fated, Ended
<1>5. /\ IsFiniteSet(Fated("worker_closed")) /\ IsFiniteSet(Ended("worker_closed"))
      /\ "worker_closed" \in Causes
  BY <1>3, <1>4, FS_Subset DEF Causes
<1>6. Counts(Cardinality(Fated("worker_closed")) + Cardinality(Ended("worker_closed")),
             Fated("worker_closed") \cup Ended("worker_closed"))
  BY <1>4, <1>5, CountOfBoth DEF Counts
<1>7. pending = Cardinality(InFlight)
  BY DEF PendingCount, Counts
<1> QED
  BY <1>2, <1>3, <1>6, <1>7 DEF CountersExact, Causes, Counts

(* The counters are exact at every moment, although they are added up from *)
(* batch lengths, ring.len() and pending_records, never record by record   *)
(* (DropCounters, PendingBatch, the abort at the end of run_pipeline).     *)
THEOREM CountersAreExact == Spec => []CountersExact
BY CountsHold, CountsAreExact, InvHolds, PTL

-----------------------------------------------------------------------------
(* What the tail flush leaves in the ring is nothing.                      *)
TailInv == worker = "tailflush" => ring = <<>>

LEMMA StepKeepsTail == Inv /\ TailInv /\ [Next]_vars => TailInv'
<1> SUFFICES ASSUME Inv, TailInv, [Next]_vars, worker' = "tailflush" PROVE ring' = <<>>
  BY DEF TailInv
<1>1. ASSUME NEW r \in Record, Enqueue(r) \/ EnqueueRefused(r) PROVE ring' = <<>>
  BY <1>1 DEF Enqueue, EnqueueRefused, Offer, Refuse, Inv, ControlInv, Late, TailInv
<1>2. CASE Moves
  <2>1. worker = "tailflush" /\ UNCHANGED ring
    BY <1>2, MovesShape
       DEF Inv, Moves, Signal, StartWorker, RuntimeFails, FailClosed, TimerFlush, SeeShutdown,
           DeferFlush, CloseReturn, DeadlinePasses
  <2> QED
    BY <2>1 DEF TailInv
<1>3. CASE Pushes
  BY <1>3 DEF Pushes, RecvRecord, DrainPop, PushDeferred, PushOrDrop, SetBatch, Home
<1>4. CASE WriteOffs
  BY <1>4 DEF WriteOffs, DropFlush, DrainStop, StopWaiting, FailDrain, queueVars
<1>5. ASSUME NEW s \in Slot, SpawnFlush(s) PROVE ring' = <<>>
  BY <1>5 DEF SpawnFlush, SetBatch, Home
<1>6. ASSUME NEW s \in Slot, TaskActs(s) PROVE ring' = <<>>
  BY <1>6, TaskCases DEF Inv, TailInv, queueVars
<1>7. CASE UNCHANGED vars
  BY <1>7 DEF TailInv, vars, queueVars, pipeVars
<1> QED
  BY <1>1, <1>2, <1>3, <1>4, <1>5, <1>6, <1>7, StepCases

LEMMA NothingDropped ==
  ASSUME TypeOK, NEW c \in Causes, NEW n, n = 0, Drop(c, n)
  PROVE  dropped' = dropped
<1>1. dropped \in [Causes -> Int]
  BY DEF TypeOK
<1> QED
  BY <1>1 DEF Drop

Sd == "shutdown_dropped"

TimeUp == late \/ \E s \in Slot : task[s].deadline = "past"

LEMMA StepWaits ==
  ASSUME Inv, TailInv, PendingCount, [Next]_vars
  PROVE  dropped'[Sd] # dropped[Sd] => TimeUp
<1> SUFFICES ASSUME ~TimeUp PROVE dropped'[Sd] = dropped[Sd]
  OBVIOUS
<1>a. TypeOK /\ Sd \in Causes /\ dropped \in [Causes -> Int] /\ Len(<<>>) = 0
  BY DEF Inv, TypeOK, Sd, Causes
<1>b. ASSUME NEW c \in Causes \ {Sd}, NEW n, Drop(c, n) PROVE dropped'[Sd] = dropped[Sd]
  BY <1>a, <1>b DEF Drop
<1>1. ASSUME NEW r \in Record, Enqueue(r) \/ EnqueueRefused(r) PROVE dropped'[Sd] = dropped[Sd]
  BY <1>1, <1>b DEF Enqueue, EnqueueRefused, Causes, Sd
<1>2. CASE Moves
  BY <1>2, MovesShape DEF Inv
<1>3. CASE Pushes
  <2>1. UNCHANGED dropped \/ Drop("send_failed", 1)
    BY <1>3 DEF Pushes, RecvRecord, DrainPop, PushDeferred, PushOrDrop
  <2> QED
    BY <2>1, <1>b DEF Causes, Sd
<1>4. CASE DropFlush
  BY <1>4 DEF DropFlush, TimeUp
<1>5. CASE DrainStop
  <2>1. ring = <<>>
    BY <1>5 DEF DrainStop, TimeUp
  <2>2. UNCHANGED dropped \/ (batch = <<>> /\ Drop(Sd, Len(batch) + Len(ring)))
    BY <1>5 DEF DrainStop, TimeUp, Sd
  <2>3. batch = <<>> => Len(batch) + Len(ring) = 0
    BY <2>1, <1>a
  <2> QED
    BY <2>2, <2>3, <1>a, NothingDropped
<1>6. CASE StopWaiting
  <2>1. \A s \in Slot : task[s].group = <<>>
    BY <1>6 DEF StopWaiting, TimeUp, Inv, ControlInv
  <2>2. InFlight = {}
    BY <2>1, SetOfEmpty DEF InFlight
  <2>3. pending = 0
    BY <2>2, FS_EmptySet DEF PendingCount, Counts
  <2>4. Drop(Sd, pending)
    BY <1>6 DEF StopWaiting, Sd
  <2> QED
    BY <2>3, <2>4, <1>a, NothingDropped
<1>7. CASE FailDrain
  BY <1>7, <1>b DEF FailDrain, Causes, Sd
<1>8. ASSUME NEW s \in Slot, SpawnFlush(s) PROVE dropped'[Sd] = dropped[Sd]
  <2>1. UNCHANGED dropped \/ (ring = <<>> /\ Drop(Sd, Len(ring)))
    BY <1>8 DEF SpawnFlush, TailInv, Sd
  <2>2. ring = <<>> => Len(ring) = 0
    BY <1>a
  <2> QED
    BY <2>1, <2>2, <1>a, NothingDropped
<1>9. ASSUME NEW s \in Slot, TaskActs(s) PROVE dropped'[Sd] = dropped[Sd]
  <2>1. ~Expired(s)
    BY DEF Expired, TimeUp
  <2>2. \/ UNCHANGED dropped
        \/ EndTask(s, "send_failed") \/ EndTask(s, "acked")
    BY <1>9, <2>1
       DEF TaskActs, TaskStep, Reply, BeginAttempt, Encoded, EncodePanics, PutExpires,
           HearShutdown, Acknowledged, PutRefused, PutFails, TaskDeadlinePasses, KeepTask
  <2>3. UNCHANGED dropped \/ Drop("send_failed", Len(task[s].group))
    BY <2>2 DEF EndTask
  <2> QED
    BY <2>3, <1>b DEF Causes, Sd
<1>10. CASE UNCHANGED vars
  BY <1>10 DEF vars, pipeVars
<1> QED
  BY <1>1, <1>2, <1>3, <1>4, <1>5, <1>6, <1>7, <1>8, <1>9, <1>10, StepCases DEF WriteOffs

(* Nothing is written off to the shutdown while its time is not up: the    *)
(* drain stops early only when it has nothing left, and pending_records is *)
(* zero when every task has ended (drain_into_buf, spawn_flush,            *)
(* await_put_logs).                                                        *)
THEOREM DropsWaitForDeadline == Spec => NoDropBeforeDeadline
<1>1. Init => TailInv
  BY DEF Init, TailInv
<1>2. Inv /\ TailInv /\ PendingCount /\ [Next]_vars =>
        [dropped'["shutdown_dropped"] # dropped["shutdown_dropped"]
           => late \/ \E s \in Slot : task[s].deadline = "past"]_vars
  BY StepWaits DEF TimeUp, Sd
<1>3. Spec => [][dropped'["shutdown_dropped"] # dropped["shutdown_dropped"]
                   => late \/ \E s \in Slot : task[s].deadline = "past"]_vars
  BY <1>1, <1>2, StepKeepsTail, InvHolds, CountsHold, PTL DEF Spec
<1> QED
  BY <1>3 DEF NoDropBeforeDeadline

-----------------------------------------------------------------------------
(* The byte and record limits of a group: Batch::bytes is the sum of its   *)
(* records, and only a batch deferred by the shutdown takes a record above *)
(* max_batch_size.                                                         *)
Fits(q) == Weight(size, q) + Overhead <= MaxBytes

BatchInv ==
  /\ batchBytes = Weight(size, batch)
  /\ batch # <<>> => Fits(batch)
  /\ Len(batch) <= MaxBatch + 1
  /\ worker = "select" => Len(batch) < MaxBatch
  /\ worker # "flush" \/ phase = "open" => Len(batch) <= MaxBatch
  /\ worker \in {"flush", "tailflush"} => batch # <<>>

HandInv == hand # <<>> => ~Oversize(hand[1])

GroupInv ==
  \A s \in Slot : task[s].at # "idle" =>
    /\ task[s].group # <<>> /\ Len(task[s].group) <= MaxBatch + 1
    /\ Fits(task[s].group)

LimitInv == BatchInv /\ HandInv /\ GroupInv

LEMMA EmptyIsLight ==
  ASSUME TypeOK
  PROVE  Weight(size, <<>>) = 0 /\ Len(<<>>) = 0
BY WeightOfEmpty DEF TypeOK

LEMMA OneMore ==
  ASSUME TypeOK, NEW q \in Seq(Record), NEW r \in Record
  PROVE  /\ Weight(size, q) \in Nat
         /\ Weight(size, Append(q, r)) = Weight(size, q) + size[r]
         /\ Len(Append(q, r)) = Len(q) + 1 /\ Append(q, r) # <<>>
<1>1. size \in [Record -> Nat]
  BY DEF TypeOK
<1>2. Len(Append(q, r)) = Len(q) + 1 /\ Len(q) \in Nat /\ Append(q, r) # <<>>
  BY AppendProperties, LenProperties
<1> QED
  BY <1>1, <1>2, WeightOfAppend

LEMMA JustOne ==
  ASSUME TypeOK, NEW r \in Record
  PROVE  Weight(size, <<r>>) = size[r] /\ Len(<<r>>) = 1
<1> DEFINE q == <<>>
<1>1. q \in Seq(Record) /\ Append(q, r) = <<r>> /\ size[r] \in Nat
  BY DEF TypeOK
<1>2. Weight(size, q) = 0
  BY EmptyIsLight
<1> HIDE DEF q
<1>3. Weight(size, Append(q, r)) = Weight(size, q) + size[r]
  BY <1>1, OneMore
<1> QED
  BY <1>1, <1>2, <1>3

(* The sizes of the records in q stay.                                     *)
LEMMA SameWeights ==
  ASSUME TypeOK, TypeOK', NEW q \in Seq(Record), \A r \in ToSet(q) : size'[r] = size[r]
  PROVE  Weight(size', q) = Weight(size, q)
<1>1. \A k \in 1..Len(q) : q[k] \in ToSet(q)
  BY LenProperties DEF ToSet
<1>2. size \in [Record -> Nat] /\ size' \in [Record -> Nat]
  BY DEF TypeOK
<1>3. \A k \in 1..Len(q) : size'[q[k]] = size[q[k]]
  BY <1>1
<1> QED
  BY <1>2, <1>3, SameWeight

LEMMA EnqueueLimits ==
  ASSUME Inv, Inv', LimitInv, NEW r \in Record, Enqueue(r)
  PROVE  LimitInv'
<1>1. /\ UNCHANGED <<worker, batch, batchBytes, hand, task, phase>>
      /\ fate[r] = "fresh"
      /\ \A q \in Record : q # r => size'[q] = size[q]
  BY DEF Enqueue, Offer, Inv, TypeOK
<1>2. /\ \A q \in B \cup H : size'[q] = size[q]
      /\ \A s \in Slot : \A q \in G(s) : size'[q] = size[q]
  BY <1>1, SetsInRecord DEF Inv, PlacesInv
<1>3. Weight(size', batch) = Weight(size, batch)
  BY <1>2, SameWeights DEF Inv, TypeOK, B
<1>4. \A s \in Slot : Weight(size', task[s].group) = Weight(size, task[s].group)
  <2> SUFFICES ASSUME NEW s \in Slot
               PROVE  Weight(size', task[s].group) = Weight(size, task[s].group)
    OBVIOUS
  <2>1. task[s].group \in Seq(Record)
    BY DEF Inv, TypeOK, Task
  <2> QED
    BY <1>2, <2>1, SameWeights DEF Inv, G
<1>5. hand # <<>> => size'[hand[1]] = size[hand[1]]
  BY <1>2, HandIsOne DEF Inv
<1>6. BatchInv'
  BY <1>1, <1>3 DEF LimitInv, BatchInv, Fits
<1>7. HandInv'
  BY <1>1, <1>5 DEF LimitInv, HandInv, Oversize
<1>8. GroupInv'
  BY <1>1, <1>4 DEF LimitInv, GroupInv, Fits
<1> QED
  BY <1>6, <1>7, <1>8 DEF LimitInv

LEMMA MovesLimits ==
  ASSUME Inv, LimitInv, Moves
  PROVE  LimitInv'
<1>1. UNCHANGED <<size, batch, batchBytes, hand, task>>
  BY MovesShape DEF Inv
<1>2. HandInv' /\ GroupInv'
  BY <1>1 DEF LimitInv, HandInv, GroupInv, Oversize, Fits
<1>3. Len(batch) \in Nat /\ Len(<<>>) = 0 /\ MaxBatch \in Nat \ {0}
  BY SinkAssumption, LenProperties DEF Inv, TypeOK
<1>4. /\ worker' = "select" => Len(batch) < MaxBatch
      /\ worker' # "flush" \/ phase' = "open" => Len(batch) <= MaxBatch
      /\ worker' \in {"flush", "tailflush"} => batch # <<>>
  BY <1>1, <1>3
     DEF Moves, Signal, StartWorker, RuntimeFails, FailClosed, TimerFlush, SeeShutdown,
         DeferFlush, CloseReturn, DeadlinePasses, BeginClose, EndClose, queueVars,
         Inv, ControlInv, Early, Closing, Late, LimitInv, BatchInv
<1>5. BatchInv'
  BY <1>1, <1>4 DEF LimitInv, BatchInv, Fits
<1> QED
  BY <1>2, <1>5 DEF LimitInv

(* push_or_drop with a batch of at most max_batch_size records.            *)
LEMMA PushLimits ==
  ASSUME Inv, LimitInv, NEW r \in Record, PushOrDrop(r), UNCHANGED <<size, task, phase>>,
         Len(batch) <= MaxBatch, phase = "open" => Len(batch) < MaxBatch
  PROVE  LimitInv'
<1>1. /\ Len(batch) \in Nat /\ MaxBatch \in Nat \ {0} /\ size[r] \in Nat
      /\ MaxBytes \in Nat \ {0} /\ Overhead \in Nat /\ batch \in Seq(Record)
      /\ batchBytes \in Nat
  BY SinkAssumption, LenProperties DEF Inv, TypeOK
<1>2. GroupInv'
  BY DEF LimitInv, GroupInv, Fits
<1>3. Weight(size, <<>>) = 0 /\ Len(<<>>) = 0
  BY EmptyIsLight DEF Inv
<1>4. CASE Oversize(r) /\ hand' = <<>> /\ SetBatch(batch, batchBytes)
  <2>1. Ready(Len(batch), batchBytes) => batch # <<>>
    BY <1>1, <1>3 DEF Ready, LimitInv, BatchInv
  <2>2. BatchInv'
    BY <1>1, <1>4, <2>1 DEF SetBatch, Ready, Home, LimitInv, BatchInv, Fits
  <2> QED
    BY <1>2, <1>4, <2>2 DEF LimitInv, HandInv
<1>5. CASE ~Oversize(r) /\ WouldExceed(r) /\ hand' = <<r>> /\ worker' = "flush"
           /\ UNCHANGED <<batch, batchBytes>>
  <2>1. BatchInv'
    BY <1>1, <1>5 DEF LimitInv, BatchInv, Fits, WouldExceed
  <2>2. HandInv'
    BY <1>5 DEF HandInv, Oversize
  <2> QED
    BY <1>2, <2>1, <2>2 DEF LimitInv
<1>6. CASE ~Oversize(r) /\ ~WouldExceed(r) /\ hand' = <<>>
           /\ SetBatch(Append(batch, r), batchBytes + size[r])
  <2> DEFINE q == Append(batch, r)
  <2>1. /\ Weight(size, q) = batchBytes + size[r]
        /\ Len(q) = Len(batch) + 1 /\ q # <<>>
    BY <1>1, OneMore DEF Inv, LimitInv, BatchInv
  <2>2. batch' = q /\ batchBytes' = batchBytes + size[r]
        /\ worker' = IF Ready(Len(q), batchBytes + size[r]) THEN "flush" ELSE Home
    BY <1>6 DEF SetBatch
  <2> HIDE DEF q
  <2>3. Weight(size, q) + Overhead <= MaxBytes
    <3>1. CASE batch = <<>>
      BY <1>1, <1>3, <1>6, <2>1, <3>1 DEF LimitInv, BatchInv, Oversize
    <3>2. CASE batch # <<>>
      BY <1>1, <1>6, <2>1, <3>2 DEF WouldExceed
    <3> QED
      BY <3>1, <3>2
  <2>4. BatchInv'
    BY <1>1, <2>1, <2>2, <2>3 DEF Ready, Home, BatchInv, Fits
  <2> QED
    BY <1>2, <1>6, <2>4 DEF LimitInv, HandInv
<1> QED
  BY <1>4, <1>5, <1>6 DEF PushOrDrop

LEMMA PushesLimits ==
  ASSUME Inv, LimitInv, Pushes
  PROVE  LimitInv'
<1>1. CASE RecvRecord \/ DrainPop
  <2>1. ring # <<>> /\ PushOrDrop(Head(ring)) /\ UNCHANGED <<size, task, phase>>
        /\ worker \in {"select", "drain"}
    BY <1>1 DEF RecvRecord, DrainPop, Take
  <2>2. Head(ring) \in Record
    BY <2>1, HeadTailProperties DEF Inv, TypeOK, QueueTypeOK
  <2>3. Len(batch) \in Nat /\ MaxBatch \in Nat
    BY SinkAssumption, LenProperties DEF Inv, TypeOK
  <2>4. Len(batch) <= MaxBatch /\ (phase = "open" => Len(batch) < MaxBatch)
    BY <2>1, <2>3 DEF LimitInv, BatchInv, Inv, ControlInv, Late
  <2> QED
    BY <2>1, <2>2, <2>4, PushLimits
<1>2. CASE PushDeferred
  <2>1. PushOrDrop(hand[1]) /\ UNCHANGED <<size, task, phase>> /\ worker = "deferred"
    BY <1>2 DEF PushDeferred, queueVars
  <2>2. hand[1] \in Record /\ phase = "closed"
    BY <2>1, HandIsOne DEF Inv, ControlInv, Late
  <2>3. Len(batch) <= MaxBatch
    BY <2>1 DEF LimitInv, BatchInv
  <2> QED
    BY <2>1, <2>2, <2>3, PushLimits
<1> QED
  BY <1>1, <1>2 DEF Pushes

(* A step that leaves the batch empty and gives it to no task.             *)
LEMMA EmptyLimits ==
  ASSUME Inv, LimitInv, batch' = <<>>, batchBytes' = 0, hand' = <<>>, UNCHANGED size,
         worker' \notin {"flush", "tailflush"},
         \A s \in Slot : task'[s].at # "idle" => task'[s] = task[s]
  PROVE  LimitInv'
<1>1. Weight(size, <<>>) = 0 /\ Len(<<>>) = 0 /\ MaxBatch \in Nat \ {0}
  BY EmptyIsLight, SinkAssumption DEF Inv
<1>2. BatchInv'
  BY <1>1 DEF BatchInv
<1>3. GroupInv'
  BY DEF LimitInv, GroupInv, Fits
<1> QED
  BY <1>2, <1>3 DEF LimitInv, HandInv

LEMMA WriteOffsLimits ==
  ASSUME Inv, LimitInv, WriteOffs
  PROVE  LimitInv'
<1>1. CASE DropFlush
  BY <1>1, EmptyLimits DEF DropFlush
<1>2. CASE StopWaiting
  <2>1. batch = <<>> /\ hand = <<>>
    BY <1>2 DEF StopWaiting, Inv, ControlInv
  <2>2. batchBytes = 0
    BY <2>1, EmptyIsLight DEF Inv, LimitInv, BatchInv
  <2> QED
    BY <1>2, <2>1, <2>2, EmptyLimits DEF StopWaiting, NoTask
<1>3. CASE FailDrain
  <2>1. batch = <<>> /\ hand = <<>>
    BY <1>3 DEF FailDrain, Inv, ControlInv
  <2>2. batchBytes = 0
    BY <2>1, EmptyIsLight DEF Inv, LimitInv, BatchInv
  <2> QED
    BY <1>3, <2>1, <2>2, EmptyLimits DEF FailDrain
<1>4. CASE DrainStop
  <2>1. CASE worker' = "tailflush" /\ batch # <<>> /\ UNCHANGED <<batch, batchBytes>>
    <3>1. UNCHANGED <<size, hand, task, phase>> /\ worker = "drain"
      BY <1>4 DEF DrainStop, queueVars
    <3>2. BatchInv'
      BY <2>1, <3>1 DEF LimitInv, BatchInv, Fits
    <3> QED
      BY <3>1, <3>2 DEF LimitInv, HandInv, GroupInv, Oversize, Fits
  <2>2. CASE worker' = "wait" /\ batch' = <<>> /\ batchBytes' = 0
    <3>1. hand = <<>>
      BY <1>4 DEF DrainStop, Inv, ControlInv
    <3> QED
      BY <1>4, <2>2, <3>1, EmptyLimits DEF DrainStop
  <2> QED
    BY <1>4, <2>1, <2>2 DEF DrainStop
<1> QED
  BY <1>1, <1>2, <1>3, <1>4 DEF WriteOffs

LEMMA SpawnLimits ==
  ASSUME Inv, LimitInv, NEW s \in Slot, SpawnFlush(s)
  PROVE  LimitInv'
<1>1. /\ batch # <<>> /\ Fits(batch) /\ Len(batch) <= MaxBatch + 1
      /\ UNCHANGED <<size, phase>> /\ hand' = <<>>
  BY DEF SpawnFlush, LimitInv, BatchInv, queueVars
<1>2. \A t \in Slot : task'[t] =
        IF t = s THEN [at |-> "start", group |-> batch, attempt |-> 0,
                       deadline |-> IF phase = "open" THEN "none" ELSE "worker"]
        ELSE task[t]
  BY DEF SpawnFlush, Inv, TypeOK
<1>3. GroupInv'
  BY <1>1, <1>2 DEF LimitInv, GroupInv, Fits
<1>4. Weight(size, <<>>) = 0 /\ Len(<<>>) = 0
  BY EmptyIsLight DEF Inv
<1>5. MaxBatch \in Nat \ {0} /\ MaxBytes \in Nat \ {0} /\ Overhead \in Nat
  BY SinkAssumption
<1>6. CASE batch' = <<>> /\ batchBytes' = 0 /\ worker' \in {"wait", "select", "drain"}
  BY <1>3, <1>1, <1>4, <1>5, <1>6 DEF LimitInv, HandInv, BatchInv
<1>7. CASE hand # <<>> /\ SetBatch(hand, size[hand[1]])
  <2> DEFINE r == hand[1]
  <2>1. r \in Record /\ hand = <<r>> /\ ~Oversize(r)
    BY <1>7, HandIsOne DEF Inv, LimitInv, HandInv
  <2>2. size[r] \in Nat
    BY <2>1 DEF Inv, TypeOK
  <2>3. SetBatch(<<r>>, size[r])
    BY <1>7, <2>1
  <2> HIDE DEF r
  <2>4. Weight(size, <<r>>) = size[r] /\ Len(<<r>>) = 1 /\ <<r>> # <<>>
    BY <2>1, JustOne DEF Inv
  <2>5. batch' = <<r>> /\ batchBytes' = size[r]
        /\ worker' = IF Ready(1, size[r]) THEN "flush" ELSE Home
    BY <2>3, <2>4 DEF SetBatch
  <2>6. BatchInv'
    BY <1>1, <1>5, <2>1, <2>2, <2>4, <2>5 DEF BatchInv, Fits, Oversize, Ready, Home
  <2> QED
    BY <1>1, <1>3, <2>6 DEF LimitInv, HandInv
<1>8. CASE SetBatch(<<>>, 0)
  <2>1. ~Ready(0, 0)
    BY <1>5 DEF Ready
  <2> QED
    BY <1>4, <1>6, <1>8, <2>1 DEF SetBatch, Home
<1> QED
  BY <1>6, <1>7, <1>8 DEF SpawnFlush

LEMMA TaskLimits ==
  ASSUME Inv, LimitInv, NEW s \in Slot, TaskActs(s)
  PROVE  LimitInv'
<1>1. UNCHANGED <<phase, size, worker, batch, batchBytes, hand>>
  BY TaskCases DEF Inv, queueVars
<1>2. BatchInv' /\ HandInv'
  BY <1>1 DEF LimitInv, BatchInv, HandInv, Oversize, Fits
<1>3. CASE GoesOn(s)
  <2>1. \A t \in Slot : /\ task'[t].group = task[t].group
                        /\ task'[t].at = "idle" <=> task[t].at = "idle"
    BY <1>3 DEF GoesOn
  <2> QED
    BY <1>1, <1>2, <2>1 DEF LimitInv, GroupInv, Fits
<1>4. ASSUME NEW o, EndTask(s, o) PROVE LimitInv'
  <2>1. \A t \in Slot : task'[t] = IF t = s THEN NoTask ELSE task[t]
    BY <1>4 DEF EndTask, Inv, TypeOK
  <2>2. GroupInv'
    BY <1>1, <2>1 DEF LimitInv, GroupInv, Fits, NoTask
  <2> QED
    BY <1>2, <2>2 DEF LimitInv
<1> QED
  BY <1>3, <1>4, TaskCases DEF Inv

LEMMA StepKeepsLimits == Inv /\ Inv' /\ LimitInv /\ [Next]_vars => LimitInv'
<1> SUFFICES ASSUME Inv, Inv', LimitInv, [Next]_vars PROVE LimitInv'
  OBVIOUS
<1>1. ASSUME NEW r \in Record, EnqueueRefused(r) PROVE LimitInv'
  BY <1>1 DEF EnqueueRefused, Refuse, LimitInv, BatchInv, HandInv, GroupInv, Oversize, Fits
<1>2. CASE UNCHANGED vars
  BY <1>2 DEF vars, queueVars, pipeVars, LimitInv, BatchInv, HandInv, GroupInv, Oversize,
              Fits
<1> QED
  BY <1>1, <1>2, EnqueueLimits, MovesLimits, PushesLimits, WriteOffsLimits, SpawnLimits,
     TaskLimits, StepCases

LEMMA InitLimits == Init => LimitInv
<1> SUFFICES ASSUME Init PROVE LimitInv
  OBVIOUS
<1>1. Weight(size, <<>>) = 0 /\ Len(<<>>) = 0 /\ MaxBatch \in Nat \ {0}
  BY InitSinkInv, EmptyIsLight, SinkAssumption DEF Inv
<1> QED
  BY <1>1 DEF Init, LimitInv, BatchInv, HandInv, GroupInv, NoTask

LEMMA LimitsAreKept == Inv /\ LimitInv => GroupsWithinLimits
<1> SUFFICES ASSUME Inv, LimitInv, NEW s \in Slot, task[s].at # "idle"
             PROVE  /\ Len(task[s].group) \in 1..(MaxBatch + 1)
                    /\ Bytes(task[s].group) + Overhead <= MaxBytes
  BY DEF GroupsWithinLimits
<1> DEFINE q == task[s].group
<1>1. q \in Seq(Record) /\ MaxBatch \in Nat
  BY SinkAssumption DEF Inv, TypeOK, Task
<1>2. q # <<>> /\ Len(q) <= MaxBatch + 1 /\ Fits(q)
  BY DEF LimitInv, GroupInv
<1> HIDE DEF q
<1>3. Len(q) \in Nat /\ Len(q) # 0
  BY <1>1, <1>2, LenProperties, EmptySeq
<1>4. Bytes(q) = Weight(size, q)
  BY DEF Bytes, Weight
<1>5. Len(q) \in 1..(MaxBatch + 1) /\ Bytes(q) + Overhead <= MaxBytes
  BY <1>1, <1>2, <1>3, <1>4 DEF Fits
<1> QED
  BY <1>5 DEF q

(* A LogGroup is never empty, never above the byte limit of the service,   *)
(* and holds at most one record more than max_batch_size (push_or_drop,    *)
(* would_exceed, ready, spawn_flush and the flush deferred by a shutdown). *)
THEOREM GroupsKeepLimits == Spec => []GroupsWithinLimits
<1>1. Spec => []LimitInv
  BY InitLimits, InvHolds, StepKeepsLimits, PTL DEF Spec
<1> QED
  BY <1>1, InvHolds, LimitsAreKept, PTL
=============================================================================
