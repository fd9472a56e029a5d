--------------------------- MODULE SlsEventProofs ---------------------------
(***************************************************************************)
(* The record of an event is its own: for any number of threads, spans and *)
(* calls, any depth of events within events, any field lists and any names *)
(* that sanitize alike.                                                    *)
(***************************************************************************)
EXTENDS SlsEvent, InductionLemmas, FiniteSetTheorems, FunctionTheorems, SequenceTheorems,
        TLAPS

-----------------------------------------------------------------------------
(* The keys of a record are kept apart.                                    *)

LEMMA SuffixesDiffer ==
  ASSUME NEW k \in Key, NEW n \in Nat
  PROVE  /\ Suffixed(k, n) \in Key
         /\ Suffixed(k, n).pre = k.pre /\ Suffixed(k, n).base = k.base
         /\ \A m \in Nat : Suffixed(k, n) = Suffixed(k, m) => n = m
<1>1. k.suf \in Seq(Nat) /\ k = [pre |-> k.pre, base |-> k.base, suf |-> k.suf]
  BY DEF Key
<1>2. \A m \in Nat : /\ Append(k.suf, m) \in Seq(Nat)
                     /\ Append(k.suf, m)[Len(k.suf) + 1] = m
  BY <1>1, AppendProperties
<1>3. \A m \in Nat : Suffixed(k, m) = [pre |-> k.pre, base |-> k.base,
                                       suf |-> Append(k.suf, m)]
  <2> SUFFICES ASSUME NEW m \in Nat
               PROVE  Suffixed(k, m) = [pre |-> k.pre, base |-> k.base,
                                        suf |-> Append(k.suf, m)]
    OBVIOUS
  <2> DEFINE q == Append(k.suf, m)
  <2>1. Suffixed(k, m) = [k EXCEPT !.suf = q]
    BY DEF Suffixed
  <2> HIDE DEF q
  <2>2. [k EXCEPT !.suf = q] = [pre |-> k.pre, base |-> k.base, suf |-> q]
    BY DEF Key
  <2> QED
    BY <2>1, <2>2 DEF q
<1>4. ASSUME NEW m \in Nat, Suffixed(k, n) = Suffixed(k, m) PROVE n = m
  <2>1. Append(k.suf, n) = Append(k.suf, m)
    BY <1>3, <1>4
  <2> QED
    BY <1>2, <2>1
<1>5. k.pre \in STRING /\ k.base \in STRING
  BY DEF Key
<1>6. Suffixed(k, n) \in Key
  <2> DEFINE q == Append(k.suf, n)
  <2>1. q \in Seq(Nat) /\ Suffixed(k, n) = [pre |-> k.pre, base |-> k.base, suf |-> q]
    BY <1>2, <1>3
  <2> HIDE DEF q
  <2> QED
    BY <1>5, <2>1 DEF Key
<1>7. Suffixed(k, n).pre = k.pre /\ Suffixed(k, n).base = k.base
  BY <1>3
<1> QED
  BY <1>4, <1>6, <1>7

(* Among one more suffix than there are keys, one is free.                 *)
LEMMA SuffixIsFree ==
  ASSUME NEW used, IsFiniteSet(used), NEW k \in Key
  PROVE  \E n \in 2..Cardinality(used) + 2 : Suffixed(k, n) \notin used
<1> DEFINE c == Cardinality(used)
           I == 2..c + 2
           f == [n \in I |-> Suffixed(k, n)]
<1>1. c \in Nat
  BY FS_CardinalityType
<1> SUFFICES ASSUME \A n \in I : Suffixed(k, n) \in used PROVE FALSE
  OBVIOUS
<1>2. f \in [I -> used]
  OBVIOUS
<1>3. \A n, m \in I : f[n] = f[m] => n = m
  BY <1>1, SuffixesDiffer
<1>4. IsFiniteSet(I) /\ Cardinality(I) = c + 1
  BY <1>1, FS_Interval
<1> HIDE DEF f, I
<1>5. Cardinality(used) < Cardinality(I)
  BY <1>1, <1>4
<1> QED
  BY <1>2, <1>3, <1>4, <1>5, FS_PigeonHole

LEMMA UniqueIsNew ==
  ASSUME NEW used, IsFiniteSet(used), NEW k \in Key
  PROVE  /\ Unique(used, k) \in Key \ used
         /\ Unique(used, k).pre = k.pre /\ Unique(used, k).base = k.base
         /\ k \notin used => Unique(used, k) = k
<1>1. CASE k \notin used
  BY <1>1 DEF Unique
<1>2. CASE k \in used
  <2> DEFINE I == 2..Cardinality(used) + 2
             Free(n) == /\ Suffixed(k, n) \notin used
                        /\ \A m \in 2..n - 1 : Suffixed(k, m) \in used
             T == {n \in I : Suffixed(k, n) \notin used}
  <2>1. T \in SUBSET Nat /\ T # {} /\ Cardinality(used) \in Nat
    BY SuffixIsFree, FS_CardinalityType
  <2>2. PICK least \in T : \A x \in T : least <= x
    <3> HIDE DEF T
    <3> QED
      BY <2>1, LeastNatural
  <2>3. \A m \in 2..least - 1 : m \in I /\ ~(least <= m)
    BY <2>1, <2>2
  <2>4. least \in I /\ Free(least)
    BY <2>2, <2>3
  <2> DEFINE n == CHOOSE m \in I : Free(m)
  <2>5. n \in I /\ Suffixed(k, n) \notin used
    BY <2>4
  <2>6. Unique(used, k) = Suffixed(k, n)
    BY <1>2 DEF Unique
  <2>7. I \in SUBSET Nat
    BY <2>1
  <2> HIDE DEF n, I
  <2> QED
    BY <1>2, <2>5, <2>6, <2>7, SuffixesDiffer
<1> QED
  BY <1>1, <1>2

LEMMA KeysAreFinite ==
  ASSUME NEW entries \in Seq(Entry)
  PROVE  IsFiniteSet(KeysIn(entries))
<1> DEFINE f == [i \in DOMAIN entries |-> entries[i].key]
<1>1. DOMAIN entries = 1..Len(entries) /\ Len(entries) \in Nat
  BY LenProperties
<1>2. IsFiniteSet(DOMAIN entries)
  BY <1>1, FS_Interval
<1>3. f \in Surjection(DOMAIN entries, KeysIn(entries))
  BY DEF Surjection, KeysIn
<1> QED
  BY <1>2, <1>3, FS_Surjection

(* What a push does to a record whose keys differ.                         *)
LEMMA PushUniqueIs ==
  ASSUME NEW entries \in Seq(Entry), NEW e \in Entry
  PROVE  \E k \in Key :
           /\ PushUnique(entries, e) = Append(entries, [key |-> k, val |-> e.val])
           /\ [key |-> k, val |-> e.val] \in Entry
           /\ k \notin KeysIn(entries) /\ k.pre = e.key.pre /\ k.base = e.key.base
           /\ e.key \notin KeysIn(entries) => k = e.key
<1> DEFINE used == KeysIn(entries)
           k == Unique(used, e.key)
<1>1. e.key \in Key /\ e.val \in Value /\ e = [key |-> e.key, val |-> e.val]
  BY DEF Entry
<1>2. IsFiniteSet(used)
  BY KeysAreFinite
<1>3. PushUnique(entries, e) = Append(entries, [e EXCEPT !.key = k])
  BY DEF PushUnique
<1> HIDE DEF used
<1>4. /\ k \in Key \ used /\ k.pre = e.key.pre /\ k.base = e.key.base
      /\ e.key \notin used => k = e.key
  BY <1>1, <1>2, UniqueIsNew
<1> HIDE DEF k
<1>5. [e EXCEPT !.key = k] = [key |-> k, val |-> e.val]
  BY <1>1
<1>6. [key |-> k, val |-> e.val] \in Entry
  BY <1>1, <1>4 DEF Entry
<1> QED
  BY <1>3, <1>4, <1>5, <1>6 DEF used

(* The stages of PushAll.                                                  *)
Stages(f, entries, more) ==
  /\ f[0] = entries
  /\ \A k \in 1..Len(more) : f[k] = PushUnique(f[k - 1], more[k])
  /\ PushAll(entries, more) = f[Len(more)]

LEMMA PushAllHasStages ==
  ASSUME NEW entries \in Seq(Entry), NEW more \in Seq(Entry)
  PROVE  \E f \in [0..Len(more) -> Seq(Entry)] : Stages(f, entries, more)
<1> DEFINE n == Len(more)
           X == Seq(Entry)
           step == [k \in 1..n |-> [q \in X |-> PushUnique(q, more[k])]]
           Runs(f) == f = [k \in 0..n |->
                             IF k = 0 THEN entries
                             ELSE CHOOSE p \in {PushUnique(q, more[k]) : q \in {f[k - 1]}} : TRUE]
<1>1. n \in Nat /\ \A k \in 1..n : more[k] \in Entry
  BY LenProperties, ElementOfSeq
<1>2. \A q \in X, k \in 1..n : PushUnique(q, more[k]) \in X
  <2> SUFFICES ASSUME NEW q \in X, NEW k \in 1..n PROVE PushUnique(q, more[k]) \in X
    OBVIOUS
  <2>1. PICK key \in Key :
          /\ PushUnique(q, more[k]) = Append(q, [key |-> key, val |-> more[k].val])
          /\ [key |-> key, val |-> more[k].val] \in Entry
    BY <1>1, PushUniqueIs
  <2> QED
    BY <2>1, AppendProperties
<1>3. step \in [1..n -> [X -> X]]
  BY <1>2
<1>4. PICK f \in [0..n -> X] : IsRecursion(f, n, entries, step)
  <2>1. entries \in X
    OBVIOUS
  <2> HIDE DEF X, step, n
  <2> QED
    BY <1>1, <1>3, <2>1, RecursionExists
<1>5. Runs(f)
  <2>1. \A k \in 1..n : step[k][f[k - 1]] = PushUnique(f[k - 1], more[k])
    <3> SUFFICES ASSUME NEW k \in 1..n
                 PROVE  step[k][f[k - 1]] = PushUnique(f[k - 1], more[k])
      OBVIOUS
    <3>1. k - 1 \in 0..n
      BY <1>1
    <3>2. f[k - 1] \in X
      BY <3>1
    <3> QED
      BY <3>2
  <2> HIDE DEF step, n
  <2>3. \A k \in 1..n : (CHOOSE p \in {PushUnique(q, more[k]) : q \in {f[k - 1]}} : TRUE)
                          = PushUnique(f[k - 1], more[k])
    OBVIOUS
  <2>4. f = [k \in 0..n |-> IF k = 0 THEN entries ELSE step[k][f[k - 1]]]
    BY <1>4 DEF IsRecursion
  <2>5. \A k \in 0..n : k # 0 => k \in 1..n
    BY <1>1
  <2> DEFINE e(k) == IF k = 0 THEN entries
                     ELSE CHOOSE p \in {PushUnique(q, more[k]) : q \in {f[k - 1]}} : TRUE
  <2>6. ASSUME NEW k \in 0..n PROVE f[k] = e(k)
    <3>1. CASE k = 0
      <4>1. e(k) = entries
        BY <3>1
      <4>2. f[k] = entries
        BY <2>4, <3>1
      <4> QED
        BY <4>1, <4>2
    <3>2. CASE k # 0
      <4>1. e(k) = PushUnique(f[k - 1], more[k])
        BY <2>3, <2>5, <3>2
      <4>2. f[k] = step[k][f[k - 1]]
        BY <2>4, <3>2
      <4> HIDE DEF e
      <4> QED
        BY <2>1, <2>5, <3>2, <4>1, <4>2
    <3> QED
      BY <3>1, <3>2
  <2>7. f = [k \in 0..n |-> e(k)]
    <3> HIDE DEF e
    <3> QED
      BY <2>6
  <2> QED
    BY <2>7
<1> DEFINE g == CHOOSE h : Runs(h)
<1>6. Runs(g)
  BY <1>5
<1>7. PushAll(entries, more) = g[n]
  BY DEF PushAll
<1> HIDE DEF g
<1>8. Stages(g, entries, more)
  <2>1. \A k \in 0..n : g[k] =
          IF k = 0 THEN entries
          ELSE CHOOSE p \in {PushUnique(q, more[k]) : q \in {g[k - 1]}} : TRUE
    BY <1>6
  <2>2. \A k \in 1..n : (CHOOSE p \in {PushUnique(q, more[k]) : q \in {g[k - 1]}} : TRUE)
                          = PushUnique(g[k - 1], more[k])
    OBVIOUS
  <2>3. \A k \in 1..n : k \in 0..n /\ k # 0
    BY <1>1
  <2>4. \A k \in 1..n : g[k] = PushUnique(g[k - 1], more[k])
    BY <2>1, <2>2, <2>3
  <2>5. g[0] = entries
    BY <1>1, <2>1
  <2> QED
    BY <1>7, <2>4, <2>5 DEF Stages
<1>9. g \in [0..n -> X]
  <2> DEFINE S == {k \in 0..n : g[k] \in X}
  <2>1. 0 \in S
    BY <1>1, <1>8 DEF Stages
  <2>2. ASSUME NEW k \in 0..(n - 1), k \in S PROVE k + 1 \in S
    <3>1. k + 1 \in 1..n /\ (k + 1) - 1 = k /\ k + 1 \in 0..n /\ g[k] \in X
      BY <1>1, <2>2
    <3>2. g[k + 1] = PushUnique(g[k], more[k + 1])
      BY <1>8, <3>1 DEF Stages
    <3> QED
      BY <1>2, <3>1, <3>2
  <2> HIDE DEF S
  <2>3. 0..n \subseteq S
    BY <1>1, <2>1, <2>2, UpToInduction
  <2>4. \A k \in 0..n : g[k] \in X
    BY <2>3 DEF S
  <2>5. g = [k \in 0..n |-> g[k]]
    BY <1>6
  <2> HIDE DEF X
  <2> QED
    BY <2>4, <2>5
<1> QED
  BY <1>8, <1>9

(* p is entries and then k of the entries of more, under keys of their own *)
(* that have the same origin; the first keeps its key if that is free.     *)
Extends(p, entries, more, k) ==
  /\ p \in Seq(Entry) /\ Len(p) = Len(entries) + k
  /\ KeysApart(p)
  /\ \A j \in 1..Len(entries) : p[j] = entries[j]
  /\ \A j \in 1..k :
       LET e == p[Len(entries) + j]
       IN  e.val = more[j].val /\ e.key.pre = more[j].key.pre /\ e.key.base = more[j].key.base
  /\ k # 0 /\ more[1].key \notin KeysIn(entries) => p[Len(entries) + 1].key = more[1].key

LEMMA PushExtends ==
  ASSUME NEW entries \in Seq(Entry), NEW more \in Seq(Entry), NEW k \in 0..Len(more) - 1,
         NEW p, Extends(p, entries, more, k)
  PROVE  Extends(PushUnique(p, more[k + 1]), entries, more, k + 1)
<1> DEFINE n == Len(entries)
           e == more[k + 1]
<1>1. n \in Nat /\ Len(more) \in Nat /\ k \in Nat /\ k + 1 \in 1..Len(more) /\ e \in Entry
  BY LenProperties, ElementOfSeq
<1>2. p \in Seq(Entry) /\ Len(p) = n + k /\ DOMAIN p = 1..n + k
  BY LenProperties DEF Extends
<1>3. PICK key \in Key :
        /\ PushUnique(p, e) = Append(p, [key |-> key, val |-> e.val])
        /\ [key |-> key, val |-> e.val] \in Entry
        /\ key \notin KeysIn(p) /\ key.pre = e.key.pre /\ key.base = e.key.base
        /\ e.key \notin KeysIn(p) => key = e.key
  BY <1>1, <1>2, PushUniqueIs
<1> DEFINE a == [key |-> key, val |-> e.val]
           q == Append(p, a)
<1>4. a \in Entry /\ a.key = key /\ a.val = e.val
  BY <1>3
<1> HIDE DEF a
<1>5. /\ q \in Seq(Entry) /\ Len(q) = n + (k + 1) /\ q[n + (k + 1)] = a
      /\ \A j \in 1..n + k : q[j] = p[j]
      /\ DOMAIN q = 1..n + (k + 1)
  <2>1. /\ q \in Seq(Entry) /\ Len(q) = Len(p) + 1 /\ q[Len(p) + 1] = a
        /\ \A j \in 1..Len(p) : q[j] = p[j]
    <3>1. p \in Seq(Entry) /\ a \in Entry
      BY <1>2, <1>4
    <3> QED
      BY <3>1, AppendProperties
  <2> HIDE DEF q, n
  <2>2. Len(p) + 1 = n + (k + 1)
    BY <1>1, <1>2
  <2>3. DOMAIN q = 1..Len(q)
    BY <2>1, LenProperties
  <2> QED
    BY <1>2, <2>1, <2>2, <2>3
<1> HIDE DEF q
<1>6. \A j \in 1..n + k : q[j].key # key
  <2>1. \A j \in 1..n + k : p[j].key \in KeysIn(p)
    BY <1>2 DEF KeysIn
  <2>2. \A j \in 1..n + k : q[j] = p[j]
    BY <1>5
  <2> QED
    BY <1>3, <2>1, <2>2
<1>7. KeysApart(q)
  <2> SUFFICES ASSUME NEW i \in 1..n + (k + 1), NEW j \in 1..n + (k + 1), q[i].key = q[j].key
               PROVE  i = j
    BY <1>5 DEF KeysApart
  <2>1. CASE i \in 1..n + k /\ j \in 1..n + k
    <3>1. KeysApart(p) /\ i \in DOMAIN p /\ j \in DOMAIN p
      BY <1>2, <2>1 DEF Extends
    <3>2. q[i] = p[i] /\ q[j] = p[j]
      BY <1>5, <2>1
    <3> QED
      BY <3>1, <3>2 DEF KeysApart
  <2>2. CASE i = n + (k + 1) /\ j = n + (k + 1)
    BY <2>2
  <2>3. q[n + (k + 1)].key = key
    BY <1>4, <1>5
  <2>4. i = n + (k + 1) => j \notin 1..n + k
    BY <1>6, <2>3
  <2>5. j = n + (k + 1) => i \notin 1..n + k
    BY <1>6, <2>3
  <2> QED
    BY <1>1, <2>1, <2>2, <2>4, <2>5
<1>8. \A j \in 1..n : q[j] = entries[j]
  BY <1>1, <1>5 DEF Extends
<1>9. ASSUME NEW j \in 1..k + 1
      PROVE  /\ q[n + j].val = more[j].val
             /\ q[n + j].key.pre = more[j].key.pre /\ q[n + j].key.base = more[j].key.base
  <2>1. CASE j = k + 1
    BY <1>3, <1>4, <1>5, <2>1
  <2>2. CASE j \in 1..k
    <3>1. n + j \in 1..n + k
      BY <1>1, <2>2
    <3> QED
      BY <1>5, <2>2, <3>1 DEF Extends
  <2> QED
    BY <1>1, <2>1, <2>2
<1>10. more[1].key \notin KeysIn(entries) => q[n + 1].key = more[1].key
  <2> SUFFICES ASSUME more[1].key \notin KeysIn(entries) PROVE q[n + 1].key = more[1].key
    OBVIOUS
  <2>1. CASE k = 0
    <3>1. KeysIn(p) = KeysIn(entries)
      <4>1. DOMAIN entries = 1..n
        BY LenProperties
      <4>2. \A j \in 1..n : p[j] = entries[j]
        BY DEF Extends
      <4> QED
        BY <1>1, <1>2, <2>1, <4>1, <4>2 DEF KeysIn
    <3> QED
      BY <1>3, <1>4, <1>5, <2>1, <3>1
  <2>2. CASE k # 0
    <3>1. n + 1 \in 1..n + k
      BY <1>1, <2>2
    <3> QED
      BY <1>5, <2>2, <3>1 DEF Extends
  <2> QED
    BY <2>1, <2>2
<1> QED
  BY <1>3, <1>5, <1>7, <1>8, <1>9, <1>10 DEF Extends, q, a

(* PushAll keeps what is there, appends every entry in order and keeps the *)
(* keys apart.                                                             *)
LEMMA PushAllExtends ==
  ASSUME NEW entries \in Seq(Entry), KeysApart(entries), NEW more \in Seq(Entry)
  PROVE  Extends(PushAll(entries, more), entries, more, Len(more))
<1> DEFINE n == Len(more)
<1>1. PICK f \in [0..n -> Seq(Entry)] : Stages(f, entries, more)
  BY PushAllHasStages
<1>2. n \in Nat /\ Len(entries) \in Nat
  BY LenProperties
<1> DEFINE S == {k \in 0..n : Extends(f[k], entries, more, k)}
<1>3. 0 \in S
  BY <1>1, <1>2 DEF Stages, Extends
<1>4. ASSUME NEW k \in 0..(n - 1), k \in S PROVE k + 1 \in S
  <2>1. k + 1 \in 1..n /\ k + 1 \in 0..n /\ (k + 1) - 1 = k
    BY <1>2
  <2>2. f[k + 1] = PushUnique(f[k], more[k + 1])
    BY <1>1, <2>1 DEF Stages
  <2>3. Extends(PushUnique(f[k], more[k + 1]), entries, more, k + 1)
    BY <1>4, PushExtends
  <2> QED
    BY <2>1, <2>2, <2>3
<1> HIDE DEF S
<1>5. 0..n \subseteq S
  BY <1>2, <1>3, <1>4, UpToInduction
<1>6. Extends(f[n], entries, more, n)
  BY <1>2, <1>5 DEF S
<1> QED
  BY <1>1, <1>6 DEF Stages

-----------------------------------------------------------------------------
(* Records that are put together from two parts.                           *)

Joins(p, a, b) ==
  /\ DOMAIN p = 1..Len(a) + Len(b)
  /\ \A j \in 1..Len(a) : p[j].val = a[j].val
  /\ \A j \in 1..Len(b) : p[Len(a) + j].val = b[j].val

LEMMA ExtendsJoins ==
  ASSUME NEW a \in Seq(Entry), NEW b \in Seq(Entry), NEW p, Extends(p, a, b, Len(b))
  PROVE  Joins(p, a, b)
<1>1. DOMAIN p = 1..Len(a) + Len(b)
  BY LenProperties DEF Extends
<1> QED
  BY <1>1 DEF Extends, Joins

LEMMA ConcatJoins ==
  ASSUME NEW a \in Seq(Entry), NEW b \in Seq(Entry)
  PROVE  a \o b \in Seq(Entry) /\ Joins(a \o b, a, b)
<1>1. /\ a \o b \in Seq(Entry) /\ Len(a \o b) = Len(a) + Len(b)
      /\ \A i \in 1..Len(a) : (a \o b)[i] = a[i]
      /\ \A i \in 1..Len(b) : (a \o b)[Len(a) + i] = b[i]
  BY ConcatProperties
<1>2. DOMAIN (a \o b) = 1..Len(a) + Len(b)
  BY <1>1, LenProperties
<1> QED
  BY <1>1, <1>2 DEF Joins

Before(fs, X, Y) == \A x \in X, y \in Y : Rank(fs, x) < Rank(fs, y)

LEMMA JoinParts ==
  ASSUME NEW a \in Seq(Entry), NEW b \in Seq(Entry), NEW p, Joins(p, a, b)
  PROVE  /\ Len(a) \in Nat /\ Len(b) \in Nat /\ DOMAIN p = 1..Len(a) + Len(b)
         /\ DOMAIN a = 1..Len(a) /\ DOMAIN b = 1..Len(b)
         /\ \A j \in 1..Len(a) : j \in 1..Len(a) + Len(b) /\ p[j].val = a[j].val
         /\ \A j \in 1..Len(b) : /\ Len(a) + j \in 1..Len(a) + Len(b)
                                 /\ p[Len(a) + j].val = b[j].val
         /\ \A j \in 1..Len(a) + Len(b) :
              \/ j \in 1..Len(a) /\ p[j].val = a[j].val
              \/ j - Len(a) \in 1..Len(b) /\ j > Len(a) /\ p[j].val = b[j - Len(a)].val
<1> DEFINE n == Len(a)
           m == Len(b)
<1>1. n \in Nat /\ m \in Nat /\ DOMAIN a = 1..n /\ DOMAIN b = 1..m /\ DOMAIN p = 1..n + m
  BY LenProperties DEF Joins
<1>2. /\ \A j \in 1..n : p[j].val = a[j].val
      /\ \A j \in 1..m : p[n + j].val = b[j].val
  BY DEF Joins
<1> HIDE DEF n, m
<1>3. ASSUME NEW j \in 1..n + m
      PROVE  \/ j \in 1..n /\ p[j].val = a[j].val
             \/ j - n \in 1..m /\ j > n /\ p[j].val = b[j - n].val
  <2>1. CASE j <= n
    BY <1>1, <1>2, <2>1
  <2>2. CASE j > n
    <3>1. j - n \in 1..m /\ n + (j - n) = j
      BY <1>1, <2>2
    <3> QED
      BY <1>2, <2>2, <3>1
  <2> QED
    BY <1>1, <2>1, <2>2
<1>4. /\ \A j \in 1..n : j \in 1..n + m
      /\ \A j \in 1..m : n + j \in 1..n + m
  BY <1>1
<1> QED
  BY <1>1, <1>2, <1>3, <1>4 DEF n, m

LEMMA JoinSources ==
  ASSUME NEW a \in Seq(Entry), NEW b \in Seq(Entry), NEW p, Joins(p, a, b)
  PROVE  Sources(p) = Sources(a) \cup Sources(b)
<1> DEFINE n == Len(a)
           m == Len(b)
<1>1. /\ n \in Nat /\ m \in Nat /\ DOMAIN a = 1..n /\ DOMAIN b = 1..m /\ DOMAIN p = 1..n + m
      /\ \A j \in 1..n : j \in 1..n + m /\ p[j].val = a[j].val
      /\ \A j \in 1..m : n + j \in 1..n + m /\ p[n + j].val = b[j].val
      /\ \A j \in 1..n + m : \/ j \in 1..n /\ p[j].val = a[j].val
                             \/ j - n \in 1..m /\ j > n /\ p[j].val = b[j - n].val
  BY JoinParts
<1> HIDE DEF n, m
<1>2. \A j \in DOMAIN p : p[j].val.of \in Sources(a) \cup Sources(b)
  BY <1>1 DEF Sources
<1>3. \A j \in 1..n : a[j].val.of \in Sources(p)
  <2>1. \A j \in 1..n : p[j].val.of \in Sources(p)
    BY <1>1 DEF Sources
  <2> QED
    BY <1>1, <2>1
<1>4. \A j \in 1..m : b[j].val.of \in Sources(p)
  <2>1. \A j \in 1..m : p[n + j].val.of \in Sources(p)
    BY <1>1 DEF Sources
  <2> QED
    BY <1>1, <2>1
<1>5. DOMAIN a = 1..n /\ DOMAIN b = 1..m
  BY <1>1
<1> QED
  BY <1>2, <1>3, <1>4, <1>5 DEF Sources

LEMMA JoinNumbers ==
  ASSUME NEW a \in Seq(Entry), NEW b \in Seq(Entry), NEW p, Joins(p, a, b), NEW i
  PROVE  Numbers(i, p) = Numbers(i, a) \cup Numbers(i, b)
<1> DEFINE n == Len(a)
           m == Len(b)
<1>1. n \in Nat /\ m \in Nat /\ DOMAIN a = 1..n /\ DOMAIN b = 1..m /\ DOMAIN p = 1..n + m
  BY JoinParts
<1>2. /\ \A j \in 1..n : p[j].val = a[j].val
      /\ \A j \in 1..m : p[n + j].val = b[j].val
  BY JoinParts
<1>3. \A j \in 1..n + m : \/ j \in 1..n /\ p[j].val = a[j].val
                          \/ j - n \in 1..m /\ j > n /\ p[j].val = b[j - n].val
  BY <1>1, JoinParts
<1>4. /\ \A j \in 1..n : j \in 1..n + m
      /\ \A j \in 1..m : n + j \in 1..n + m
  BY <1>1, JoinParts
<1> HIDE DEF n, m
<1>5. Numbers(i, p) = Numbers(i, a) \cup Numbers(i, b)
  <2>1. \A j \in OwnAt(i, p) : p[j].val.no \in Numbers(i, a) \cup Numbers(i, b)
    BY <1>1, <1>3 DEF Numbers, OwnAt
  <2>2. \A j \in OwnAt(i, a) : a[j].val.no \in Numbers(i, p)
    <3> SUFFICES ASSUME NEW j \in OwnAt(i, a) PROVE a[j].val.no \in Numbers(i, p)
      OBVIOUS
    <3>1. j \in 1..n /\ p[j].val = a[j].val /\ a[j].val.of = i
      BY <1>1, <1>2 DEF OwnAt
    <3>2. j \in OwnAt(i, p)
      BY <1>1, <1>4, <3>1 DEF OwnAt
    <3> QED
      BY <3>1, <3>2 DEF Numbers
  <2>3. \A j \in OwnAt(i, b) : b[j].val.no \in Numbers(i, p)
    <3> SUFFICES ASSUME NEW j \in OwnAt(i, b) PROVE b[j].val.no \in Numbers(i, p)
      OBVIOUS
    <3>1. j \in 1..m /\ p[n + j].val = b[j].val /\ b[j].val.of = i
      BY <1>1, <1>2 DEF OwnAt
    <3>2. n + j \in OwnAt(i, p)
      BY <1>1, <1>4, <3>1 DEF OwnAt
    <3> QED
      BY <3>1, <3>2 DEF Numbers
  <2> QED
    BY <2>1, <2>2, <2>3 DEF Numbers
<1> QED
  BY <1>5

LEMMA JoinInOrder ==
  ASSUME NEW a \in Seq(Entry), NEW b \in Seq(Entry), NEW p, Joins(p, a, b), NEW i, NEW fs,
         InOrder(i, fs, a), InOrder(i, fs, b), Before(fs, Numbers(i, a), Numbers(i, b))
  PROVE  InOrder(i, fs, p)
<1> DEFINE n == Len(a)
           m == Len(b)
<1>1. n \in Nat /\ m \in Nat /\ DOMAIN a = 1..n /\ DOMAIN b = 1..m /\ DOMAIN p = 1..n + m
  BY JoinParts
<1>2. /\ \A j \in 1..n : p[j].val = a[j].val
      /\ \A j \in 1..m : p[n + j].val = b[j].val
  BY JoinParts
<1>3. \A j \in 1..n + m : \/ j \in 1..n /\ p[j].val = a[j].val
                          \/ j - n \in 1..m /\ j > n /\ p[j].val = b[j - n].val
  BY <1>1, JoinParts
<1>4. /\ \A j \in 1..n : j \in 1..n + m
      /\ \A j \in 1..m : n + j \in 1..n + m
  BY <1>1, JoinParts
<1> HIDE DEF n, m
<1>5. ASSUME NEW j \in OwnAt(i, p), NEW k \in OwnAt(i, p), j < k
      PROVE  Rank(fs, p[j].val.no) < Rank(fs, p[k].val.no)
  <2>1. /\ j \in 1..n + m /\ k \in 1..n + m
        /\ p[j].val.of = i /\ p[k].val.of = i
    BY <1>1 DEF OwnAt
  <2>2. CASE j \in 1..n /\ k \in 1..n
    BY <1>1, <1>2, <1>5, <2>1, <2>2 DEF InOrder, OwnAt
  <2>3. CASE j \in 1..n /\ k - n \in 1..m /\ k > n
    <3>1. p[j].val = a[j].val /\ p[k].val = b[k - n].val
      BY <1>1, <1>2, <1>3, <2>1, <2>3
    <3>2. j \in OwnAt(i, a) /\ k - n \in OwnAt(i, b)
      BY <1>1, <2>1, <2>3, <3>1 DEF OwnAt
    <3>3. a[j].val.no \in Numbers(i, a) /\ b[k - n].val.no \in Numbers(i, b)
      BY <3>2 DEF Numbers
    <3> QED
      BY <1>5, <3>1, <3>3 DEF Before
  <2>4. CASE j > n /\ j - n \in 1..m /\ k - n \in 1..m
    <3>1. p[j].val = b[j - n].val /\ p[k].val = b[k - n].val
      BY <1>1, <1>2, <1>3, <1>5, <2>1, <2>4
    <3>2. j - n \in OwnAt(i, b) /\ k - n \in OwnAt(i, b) /\ j - n < k - n
      BY <1>1, <1>5, <2>1, <2>4, <3>1 DEF OwnAt
    <3> QED
      BY <1>5, <3>1, <3>2 DEF InOrder
  <2>5. k \in 1..n => j \in 1..n
    BY <1>1, <1>5, <2>1
  <2>6. j - n \in 1..m /\ j > n => k - n \in 1..m /\ k > n
    BY <1>1, <1>5, <2>1
  <2> QED
    BY <1>3, <2>1, <2>2, <2>3, <2>4, <2>5, <2>6
<1> QED
  BY <1>5 DEF InOrder

-----------------------------------------------------------------------------
(* The inductive invariant: what each frame of each thread has gathered so *)
(* far, in terms of the call it belongs to.                                *)

(* Of the first v fields: the last message, and all that is no message.    *)
LastMessages(fs, v) ==
  {k + 1 : k \in {j \in 1..v : IsMessage(fs[j]) /\ \A m \in j + 1..v : ~IsMessage(fs[m])}}

Others(fs, v) == {k + 1 : k \in {j \in 1..v : ~IsMessage(fs[j])}}

(* The buffer b of event i once v of its fields are visited.               *)
Filled(i, fs, v, b) ==
  /\ Len(b.message) <= 1
  /\ {b.message[j].no : j \in DOMAIN b.message} = LastMessages(fs, v)
  /\ \A j \in DOMAIN b.message : b.message[j].of = i
  /\ {b.fields[j].val.no : j \in DOMAIN b.fields} = Others(fs, v)
  /\ \A j \in DOMAIN b.fields : b.fields[j].val.of = i
  /\ \A j, k \in DOMAIN b.fields : j < k => b.fields[j].val.no < b.fields[k].val.no

NotPath(key) == key.pre # "" \/ key.base # "__span__"

(* What event i with the fields fs pushes before its span path.            *)
Headed(i, fs, entries) ==
  /\ entries[1].key = LevelKey
  /\ KeysApart(entries)
  /\ \A j \in DOMAIN entries : NotPath(entries[j].key)
  /\ Numbers(i, entries) = {0} \cup LastMessages(fs, Len(fs))
  /\ InOrder(i, fs, entries)

BufferOf(v, f) == IF f.slot = "tls" THEN v ELSE f.buf

(* The frame f of call c, with the buffer b, where sc are the calls of     *)
(* spans.                                                                  *)
FrameOK(f, c, b, sc) ==
  /\ c.op = f.op /\ c.span = f.span
  /\ f.op = "event" <=> f.span = 0
  /\ f.slot = "tls" => f.op = "event"
  /\ Len(f.todo) <= Len(c.fields)
  /\ \A k \in 1..Len(f.todo) : f.todo[k] = c.fields[Len(c.fields) - Len(f.todo) + k]
  /\ f.op = "event" => Filled(f.id, c.fields, Len(c.fields) - Len(f.todo), b)
  /\ f.pushed # <<>> => f.op = "event" /\ f.todo = <<>> /\ Headed(f.id, c.fields, f.pushed)
  /\ Sources(f.pushed) \subseteq {f.id} \cup sc

Stands(cs, v, sc, f) == f.id \in DOMAIN cs /\ FrameOK(f, cs[f.id], BufferOf(v, f), sc)

FramesInv ==
  \A t \in Thread : \A i \in DOMAIN stack[t] : Stands(calls, tls[t], SpanCalls, stack[t][i])

(* One event of a thread fills the buffer of the thread.                   *)
OneTls ==
  \A t \in Thread : \A i, j \in DOMAIN stack[t] :
    stack[t][i].slot = "tls" /\ stack[t][j].slot = "tls" => i = j

ExtInv ==
  \A s \in Span : \A j \in DOMAIN ext[s] :
    ext[s][j].val.of \in SpanCalls /\ ext[s][j].key.pre # ""

Whole(i, fs, entries) ==
  /\ Numbers(i, entries) \ {1} = OwnNumbers(fs)
  /\ InOrder(i, fs, entries)
  /\ KeysApart(entries)
  /\ entries[1].key = LevelKey
  /\ \A j \in OwnAt(i, entries) : entries[j].val.no = 1 => entries[j].key = PathKey

OutInv ==
  \A i \in Call : out[i] # <<>> =>
    /\ i \in DOMAIN calls
    /\ Whole(i, calls[i].fields, out[i])
    /\ Sources(out[i]) \subseteq {i} \cup SpanCalls

EventInv == EventTypeOK /\ FramesInv /\ OneTls /\ ExtInv /\ OutInv

CallOf == [op : {"event", "new", "record"}, fields : Shape, span : Span \cup {0}]

LEMMA OutIsOwn == EventInv => RecordIsOwn
<1> SUFFICES ASSUME EventInv, NEW i \in DOMAIN calls, out[i] # <<>>
             PROVE  /\ Whole(i, calls[i].fields, out[i])
                    /\ Sources(out[i]) \subseteq {i} \cup SpanCalls
  BY DEF RecordIsOwn, Whole
<1>1. i \in Call
  <2>1. calls \in Seq(CallOf) /\ Len(calls) <= MaxCalls /\ MaxCalls \in Nat
    BY EventAssumption DEF EventInv, EventTypeOK, CallOf
  <2>2. DOMAIN calls = 1..Len(calls) /\ Len(calls) \in Nat
    BY <2>1, LenProperties
  <2> QED
    BY <2>1, <2>2 DEF Call
<1> QED
  BY <1>1 DEF EventInv, OutInv

(* A field is visited.                                                     *)
LEMMA MessagesGrow ==
  ASSUME NEW v \in Nat, NEW fs
  PROVE  LastMessages(fs, v + 1) =
           IF IsMessage(fs[v + 1]) THEN {v + 2} ELSE LastMessages(fs, v)
<1> DEFINE LastOne(w) == {j \in 1..w : IsMessage(fs[j]) /\ \A m \in j + 1..w : ~IsMessage(fs[m])}
<1>1. CASE IsMessage(fs[v + 1])
  <2>1. \A j \in 1..v : v + 1 \in j + 1..v + 1
    OBVIOUS
  <2>2. v + 1 \in 1..v + 1 /\ ~(\E m \in (v + 1) + 1..v + 1 : TRUE)
    OBVIOUS
  <2>3. \A j \in 1..v + 1 : j = v + 1 \/ j \in 1..v
    OBVIOUS
  <2>4. LastOne(v + 1) = {v + 1}
    BY <1>1, <2>1, <2>2, <2>3
  <2>5. (v + 1) + 1 = v + 2
    OBVIOUS
  <2> QED
    BY <1>1, <2>4, <2>5 DEF LastMessages
<1>2. CASE ~IsMessage(fs[v + 1])
  <2>1. \A j \in 1..v + 1 : j = v + 1 \/ j \in 1..v
    OBVIOUS
  <2>2. \A j \in 1..v : /\ j \in 1..v + 1
                        /\ \A m \in j + 1..v + 1 : m = v + 1 \/ m \in j + 1..v
                        /\ \A m \in j + 1..v : m \in j + 1..v + 1
    OBVIOUS
  <2>3. LastOne(v + 1) = LastOne(v)
    BY <1>2, <2>1, <2>2
  <2> QED
    BY <1>2, <2>3 DEF LastMessages
<1> QED
  BY <1>1, <1>2

LEMMA OthersGrow ==
  ASSUME NEW v \in Nat, NEW fs
  PROVE  Others(fs, v + 1) =
           IF IsMessage(fs[v + 1]) THEN Others(fs, v) ELSE Others(fs, v) \cup {v + 2}
<1>1. \A j \in 1..v + 1 : j = v + 1 \/ j \in 1..v
  OBVIOUS
<1>2. v + 1 \in 1..v + 1 /\ (v + 1) + 1 = v + 2 /\ \A j \in 1..v : j \in 1..v + 1
  OBVIOUS
<1> QED
  BY <1>1, <1>2 DEF Others

LEMMA OthersBound ==
  ASSUME NEW v \in Nat, NEW fs, NEW x \in Others(fs, v)
  PROVE  x \in Nat /\ x >= 2 /\ x <= v + 1 /\ ~IsMessage(fs[x - 1])
BY DEF Others

LEMMA MessagesBound ==
  ASSUME NEW v \in Nat, NEW fs, NEW x \in LastMessages(fs, v)
  PROVE  x \in Nat /\ x >= 2 /\ x <= v + 1 /\ IsMessage(fs[x - 1])
BY DEF LastMessages

LEMMA VisitFills ==
  ASSUME NEW v \in Nat, NEW fs, NEW i \in Call, NEW b \in Visitor, Filled(i, fs, v, b),
         fs[v + 1] \in Field
  PROVE  LET w == Visit(b, fs[v + 1], [of |-> i, no |-> v + 2])
         IN  w \in Visitor /\ Filled(i, fs, v + 1, w)
<1> DEFINE field == fs[v + 1]
           val == [of |-> i, no |-> v + 2]
           w == Visit(b, field, val)
<1>1. val \in Value /\ val.of = i /\ val.no = v + 2
  BY DEF Value
<1>2. b = [message |-> b.message, fields |-> b.fields] /\ b.fields \in Seq(Entry)
      /\ b.message \in Seq(Value)
  BY DEF Visitor
<1>3. CASE IsMessage(field)
  <2>1. w = [message |-> <<val>>, fields |-> b.fields]
    BY <1>2, <1>3 DEF Visit
  <2>2. w.message = <<val>> /\ w.fields = b.fields
    BY <2>1
  <2> HIDE DEF val, w
  <2>3. w \in Visitor
    <3>1. <<val>> \in Seq(Value)
      BY <1>1
    <3> QED
      BY <1>2, <2>1, <3>1 DEF Visitor
  <2>a. DOMAIN <<val>> = {1} /\ <<val>>[1] = val /\ Len(<<val>>) = 1
    OBVIOUS
  <2>4. {w.message[j].no : j \in DOMAIN w.message} = {v + 2}
        /\ (\A j \in DOMAIN w.message : w.message[j].of = i) /\ Len(w.message) <= 1
    BY <1>1, <2>2, <2>a
  <2>5. LastMessages(fs, v + 1) = {v + 2} /\ Others(fs, v + 1) = Others(fs, v)
    BY <1>3, MessagesGrow, OthersGrow
  <2> HIDE DEF w, val, field
  <2>6. Filled(i, fs, v + 1, w)
    BY <2>2, <2>4, <2>5 DEF Filled
  <2> QED
    BY <2>3, <2>6 DEF w, val, field
<1>4. CASE ~IsMessage(field)
  <2> DEFINE e == [key |-> KeyOf[field.name], val |-> val]
             q == Append(b.fields, e)
  <2>1. w = [message |-> b.message, fields |-> q]
    BY <1>2, <1>4 DEF Visit
  <2>2. e \in Entry /\ e.val = val
    BY <1>1, EventAssumption DEF Entry, Field
  <2>3. w.message = b.message /\ w.fields = q
    BY <2>1
  <2> HIDE DEF e, val, field, w
  <2>4. /\ q \in Seq(Entry) /\ Len(q) = Len(b.fields) + 1
        /\ \A j \in 1..Len(b.fields) : q[j] = b.fields[j]
        /\ q[Len(b.fields) + 1] = e
    BY <1>2, <2>2, AppendProperties
  <2> DEFINE n == Len(b.fields)
  <2>5. n \in Nat /\ DOMAIN b.fields = 1..n
    BY <1>2, LenProperties
  <2> HIDE DEF q, n
  <2>6. DOMAIN q = 1..n + 1
    BY <2>4, LenProperties DEF n
  <2>7. /\ \A j \in 1..n : q[j] = b.fields[j]
        /\ q[n + 1].val.no = v + 2 /\ q[n + 1].val.of = i
    BY <1>1, <2>2, <2>4 DEF n
  <2>8. w \in Visitor
    BY <1>2, <2>1, <2>4 DEF Visitor
  <2>9. LastMessages(fs, v + 1) = LastMessages(fs, v)
        /\ Others(fs, v + 1) = Others(fs, v) \cup {v + 2}
    BY <1>4, MessagesGrow, OthersGrow DEF field
  <2>10. \A j \in 1..n + 1 : j \in 1..n \/ j = n + 1
    BY <2>5
  <2>11. \A j \in 1..n : j \in 1..n + 1
    BY <2>5
  <2>12. n + 1 \in 1..n + 1
    BY <2>5
  <2>13. {q[j].val.no : j \in DOMAIN q} = Others(fs, v + 1)
    <3>1. Others(fs, v) = {b.fields[j].val.no : j \in 1..n}
      BY <2>5 DEF Filled
    <3> QED
      BY <2>6, <2>7, <2>9, <2>10, <2>11, <2>12, <3>1
  <2>14. \A j \in DOMAIN q : q[j].val.of = i
    BY <2>5, <2>6, <2>7, <2>10 DEF Filled
  <2>15. ASSUME NEW j \in DOMAIN q, NEW k \in DOMAIN q, j < k
         PROVE  q[j].val.no < q[k].val.no
    <3>1. CASE k \in 1..n
      <4>1. j \in 1..n
        BY <2>5, <2>6, <2>15, <3>1
      <4> QED
        BY <2>5, <2>7, <2>15, <3>1, <4>1 DEF Filled
    <3>2. CASE k = n + 1
      <4>1. j \in 1..n
        BY <2>5, <2>6, <2>15, <3>2
      <4>2. b.fields[j].val.no \in Others(fs, v)
        BY <2>5, <4>1 DEF Filled
      <4>3. b.fields[j].val.no < v + 2
        BY <4>2, OthersBound
      <4> QED
        BY <2>7, <3>2, <4>1, <4>3
    <3> QED
      BY <2>6, <2>10, <3>1, <3>2
  <2>16. Filled(i, fs, v + 1, w)
    BY <2>3, <2>9, <2>13, <2>14, <2>15 DEF Filled
  <2> QED
    BY <2>8, <2>16 DEF w, val, field
<1> QED
  BY <1>3, <1>4

-----------------------------------------------------------------------------
(* What a step leaves alone.                                               *)

Continues(cs, more) == \A i \in DOMAIN cs : i \in DOMAIN more /\ more[i] = cs[i]

LEMMA CallsTyped ==
  ASSUME EventTypeOK
  PROVE  /\ calls \in Seq(CallOf) /\ Len(calls) \in Nat /\ DOMAIN calls = 1..Len(calls)
         /\ DOMAIN calls \subseteq Call /\ Len(calls) <= MaxCalls /\ MaxCalls \in Nat
         /\ \A i \in DOMAIN calls : calls[i] \in CallOf /\ calls[i].fields \in Seq(Field)
<1>1. calls \in Seq(CallOf) /\ Len(calls) <= MaxCalls /\ MaxCalls \in Nat
  BY EventAssumption DEF EventTypeOK, CallOf
<1>2. DOMAIN calls = 1..Len(calls) /\ Len(calls) \in Nat
  BY <1>1, LenProperties
<1>3. \A i \in 1..Len(calls) : calls[i] \in CallOf
  BY <1>1, ElementOfSeq
<1>4. \A c \in CallOf : c.fields \in Seq(Field)
  BY EventAssumption DEF CallOf
<1> QED
  BY <1>1, <1>2, <1>3, <1>4 DEF Call

LEMMA SpanCallsGrow ==
  ASSUME Continues(calls, calls')
  PROVE  SpanCalls \subseteq SpanCalls'
BY DEF Continues, SpanCalls

LEMMA StandsStays ==
  ASSUME NEW cs, NEW more, Continues(cs, more), NEW sc, NEW wider, sc \subseteq wider,
         NEW v, NEW w, NEW f, Stands(cs, v, sc, f), BufferOf(w, f) = BufferOf(v, f)
  PROVE  Stands(more, w, wider, f)
<1>1. more[f.id] = cs[f.id] /\ f.id \in DOMAIN more
  BY DEF Continues, Stands
<1>2. FrameOK(f, cs[f.id], BufferOf(v, f), wider)
  BY DEF Stands, FrameOK
<1> QED
  BY <1>1, <1>2 DEF Stands

LEMMA ExtStays ==
  ASSUME ExtInv, Continues(calls, calls'), UNCHANGED ext
  PROVE  ExtInv'
BY SpanCallsGrow DEF ExtInv

LEMMA OutStays ==
  ASSUME OutInv, Continues(calls, calls'), UNCHANGED out
  PROVE  OutInv'
<1> SUFFICES ASSUME NEW i \in Call, out[i] # <<>>
             PROVE  /\ i \in DOMAIN calls'
                    /\ Whole(i, calls'[i].fields, out[i])
                    /\ Sources(out[i]) \subseteq {i} \cup SpanCalls'
  BY DEF OutInv
<1>1. i \in DOMAIN calls /\ Whole(i, calls[i].fields, out[i])
      /\ Sources(out[i]) \subseteq {i} \cup SpanCalls
  BY DEF OutInv
<1>2. i \in DOMAIN calls' /\ calls'[i] = calls[i]
  BY <1>1 DEF Continues
<1> QED
  BY <1>1, <1>2, SpanCallsGrow

(* The other threads stand where they stood.                               *)
LEMMA OthersStand ==
  ASSUME FramesInv, Continues(calls, calls'), NEW t \in Thread,
         \A u \in Thread : u # t => stack'[u] = stack[u] /\ tls'[u] = tls[u],
         \A i \in DOMAIN stack'[t] : Stands(calls', tls'[t], SpanCalls', stack'[t][i])
  PROVE  FramesInv'
<1> SUFFICES ASSUME NEW u \in Thread, NEW i \in DOMAIN stack'[u]
             PROVE  Stands(calls', tls'[u], SpanCalls', stack'[u][i])
  BY DEF FramesInv
<1>1. CASE u = t
  BY <1>1
<1>2. CASE u # t
  <2>1. Stands(calls, tls[u], SpanCalls, stack[u][i]) /\ stack'[u] = stack[u]
        /\ tls'[u] = tls[u]
    BY <1>2 DEF FramesInv
  <2> QED
    BY <2>1, SpanCallsGrow, StandsStays
<1> QED
  BY <1>1, <1>2

LEMMA FramesStay ==
  ASSUME FramesInv, OneTls, UNCHANGED <<calls, stack, tls>>
  PROVE  FramesInv' /\ OneTls'
<1>1. SpanCalls' = SpanCalls
  BY DEF SpanCalls
<1> QED
  BY <1>1 DEF FramesInv, OneTls

(* The innermost frame of a thread.                                        *)
LEMMA TopIs ==
  ASSUME EventInv, NEW t \in Thread, stack[t] # <<>>
  PROVE  /\ Len(stack[t]) \in Nat \ {0} /\ DOMAIN stack[t] = 1..Len(stack[t])
         /\ stack[t] \in Seq(Frame) /\ Top(t) \in Frame
         /\ Stands(calls, tls[t], SpanCalls, Top(t))
<1>1. stack[t] \in Seq(Frame)
  BY DEF EventInv, EventTypeOK
<1>2. Len(stack[t]) \in Nat \ {0} /\ DOMAIN stack[t] = 1..Len(stack[t])
  BY <1>1, LenProperties, EmptySeq
<1>3. Len(stack[t]) \in 1..Len(stack[t])
  BY <1>2
<1>4. Top(t) \in Frame
  BY <1>1, <1>3, ElementOfSeq DEF Top
<1>5. Stands(calls, tls[t], SpanCalls, Top(t))
  BY <1>2, <1>3 DEF Top, EventInv, FramesInv
<1> QED
  BY <1>1, <1>2, <1>4, <1>5

LEMMA TopChanges ==
  ASSUME EventInv, NEW t \in Thread, stack[t] # <<>>, NEW g \in Frame, SetTop(t, g),
         UNCHANGED calls, g.slot = Top(t).slot, \A u \in Thread : u # t => tls'[u] = tls[u],
         Top(t).slot = "tls" \/ tls'[t] = tls[t], Stands(calls, tls'[t], SpanCalls, g)
  PROVE  FramesInv' /\ OneTls' /\ stack' \in [Thread -> Seq(Frame)]
<1> DEFINE n == Len(stack[t])
<1>1. /\ n \in Nat \ {0} /\ DOMAIN stack[t] = 1..n
      /\ stack[t] \in Seq(Frame) /\ Top(t) = stack[t][n]
  BY TopIs DEF Top
<1>2. stack \in [Thread -> Seq(Frame)]
  BY DEF EventInv, EventTypeOK
<1>3. stack' = [stack EXCEPT ![t] = [stack[t] EXCEPT ![n] = g]]
  BY DEF SetTop
<1>4. stack'[t] = [stack[t] EXCEPT ![n] = g] /\ \A u \in Thread : u # t => stack'[u] = stack[u]
  BY <1>2, <1>3
<1> HIDE DEF n
<1>5. stack'[t] \in Seq(Frame)
  BY <1>1, <1>4, ExceptSeq
<1>6. stack' \in [Thread -> Seq(Frame)]
  BY <1>2, <1>3, <1>4, <1>5
<1>7. /\ DOMAIN stack'[t] = 1..n /\ stack'[t][n] = g
      /\ \A i \in 1..n : i # n => stack'[t][i] = stack[t][i]
  BY <1>1, <1>4
<1>8. \A i \in 1..n : stack'[t][i].slot = stack[t][i].slot
  BY <1>1, <1>7
<1>9. OneTls'
  <2> SUFFICES ASSUME NEW u \in Thread, NEW i \in DOMAIN stack'[u], NEW j \in DOMAIN stack'[u],
                      stack'[u][i].slot = "tls", stack'[u][j].slot = "tls"
               PROVE  i = j
    BY DEF OneTls
  <2> QED
    BY <1>1, <1>4, <1>7, <1>8 DEF EventInv, OneTls
<1>10. SpanCalls' = SpanCalls /\ Continues(calls, calls')
  BY DEF SpanCalls, Continues
<1>11. ASSUME NEW i \in 1..n PROVE Stands(calls', tls'[t], SpanCalls', stack'[t][i])
  <2>1. CASE i = n
    BY <1>7, <1>10, <2>1
  <2>2. CASE i # n
    <3>1. Stands(calls, tls[t], SpanCalls, stack[t][i]) /\ stack'[t][i] = stack[t][i]
      BY <1>1, <1>7, <2>2 DEF EventInv, FramesInv
    <3>2. stack[t][i].slot = "tls" => tls'[t] = tls[t]
      BY <1>1, <2>2 DEF EventInv, OneTls
    <3>3. BufferOf(tls'[t], stack[t][i]) = BufferOf(tls[t], stack[t][i])
      BY <3>2 DEF BufferOf
    <3> QED
      BY <1>10, <3>1, <3>3, StandsStays
  <2> QED
    BY <2>1, <2>2
<1>12. FramesInv'
  BY <1>4, <1>7, <1>10, <1>11, OthersStand DEF EventInv
<1> QED
  BY <1>6, <1>9, <1>12

LEMMA PopKeeps ==
  ASSUME EventInv, NEW t \in Thread, stack[t] # <<>>, Pop(t), UNCHANGED <<calls, tls>>
  PROVE  FramesInv' /\ OneTls' /\ stack' \in [Thread -> Seq(Frame)]
<1> DEFINE n == Len(stack[t])
<1>1. n \in Nat \ {0} /\ DOMAIN stack[t] = 1..n /\ stack[t] \in Seq(Frame)
  BY TopIs
<1>2. stack \in [Thread -> Seq(Frame)]
  BY DEF EventInv, EventTypeOK
<1>3. /\ stack'[t] = SubSeq(stack[t], 1, n - 1)
      /\ \A u \in Thread : u # t => stack'[u] = stack[u]
      /\ DOMAIN stack' = Thread /\ stack' = [u \in Thread |-> stack'[u]]
  BY <1>2 DEF Pop, Front
<1> HIDE DEF n
<1>4. /\ stack'[t] \in Seq(Frame) /\ Len(stack'[t]) = n - 1
      /\ \A i \in 1..n - 1 : stack'[t][i] = stack[t][i]
  <2> DEFINE m == n - 1
             q == stack[t]
             p == stack'[t]
  <2>1. m \in Nat /\ (\A i \in 1..m : i \in 1..n) /\ p = SubSeq(q, 1, m) /\ q \in Seq(Frame)
        /\ Len(q) = n
    BY <1>1, <1>3 DEF n
  <2> HIDE DEF m, q, p
  <2>2. \A i \in 1..m : q[i] \in Frame
    BY <2>1, ElementOfSeq
  <2>3. /\ SubSeq(q, 1, m) \in Seq(Frame)
        /\ Len(SubSeq(q, 1, m)) = IF 1 <= m THEN m - 1 + 1 ELSE 0
        /\ \A i \in 1..m - 1 + 1 : SubSeq(q, 1, m)[i] = q[1 + i - 1]
    <3>1. m \in Int /\ 1 \in Int
      BY <2>1
    <3> QED
      BY <2>2, <3>1, SubSeqProperties
  <2>4. m - 1 + 1 = m /\ (\A i \in 1..m : 1 + i - 1 = i) /\ (~(1 <= m) => m = 0)
    BY <2>1
  <2>5. p \in Seq(Frame) /\ Len(p) = m /\ \A i \in 1..m : p[i] = q[i]
    BY <2>1, <2>3, <2>4
  <2> QED
    BY <2>5 DEF m, q, p
<1>5. DOMAIN stack'[t] = 1..n - 1
  BY <1>4, LenProperties
<1>6. \A i \in 1..n - 1 : i \in 1..n
  BY <1>1
<1>7. stack' \in [Thread -> Seq(Frame)]
  <2> DEFINE X == Seq(Frame)
  <2>1. \A u \in Thread : stack'[u] \in X
    <3>1. stack'[t] \in X
      BY <1>4
    <3>2. \A u \in Thread : stack[u] \in X
      BY <1>2
    <3> HIDE DEF X
    <3> QED
      BY <1>3, <3>1, <3>2
  <2> HIDE DEF X
  <2>2. stack' \in [Thread -> X]
    BY <1>3, <2>1
  <2> QED
    BY <2>2 DEF X
<1>8. OneTls'
  <2> SUFFICES ASSUME NEW u \in Thread, NEW i \in DOMAIN stack'[u], NEW j \in DOMAIN stack'[u],
                      stack'[u][i].slot = "tls", stack'[u][j].slot = "tls"
               PROVE  i = j
    BY DEF OneTls
  <2>1. \A k, l \in DOMAIN stack[u] : stack[u][k].slot = "tls" /\ stack[u][l].slot = "tls" => k = l
    BY DEF EventInv, OneTls
  <2>2. CASE u = t
    <3>1. i \in 1..n - 1 /\ j \in 1..n - 1
      BY <1>5, <2>2
    <3>2. /\ i \in DOMAIN stack[u] /\ stack[u][i].slot = "tls"
          /\ j \in DOMAIN stack[u] /\ stack[u][j].slot = "tls"
      BY <1>1, <1>4, <1>6, <2>2, <3>1
    <3> QED
      BY <2>1, <3>2
  <2>3. CASE u # t
    BY <1>3, <2>1, <2>3
  <2> QED
    BY <2>2, <2>3
<1>9. SpanCalls' = SpanCalls /\ Continues(calls, calls')
  BY DEF SpanCalls, Continues
<1>10. \A i \in 1..n - 1 : Stands(calls', tls'[t], SpanCalls', stack'[t][i])
  BY <1>1, <1>4, <1>6, <1>9 DEF EventInv, FramesInv
<1>11. FramesInv'
  BY <1>3, <1>5, <1>9, <1>10, OthersStand DEF EventInv
<1> QED
  BY <1>7, <1>8, <1>11
-----------------------------------------------------------------------------
(* A call begins.                                                          *)

LEMMA EmptyBuffer ==
  ASSUME NEW i, NEW fs
  PROVE  Empty \in Visitor /\ Filled(i, fs, 0, Empty)
<1>1. Empty.message = <<>> /\ Empty.fields = <<>> /\ Empty \in Visitor
  BY DEF Empty, Visitor
<1>2. Len(<<>>) = 0 /\ DOMAIN <<>> = {}
  OBVIOUS
<1>3. LastMessages(fs, 0) = {} /\ Others(fs, 0) = {}
  BY DEF LastMessages, Others
<1> HIDE DEF Empty
<1> QED
  BY <1>1, <1>2, <1>3 DEF Filled

Fresh(op, i, s, fields, slot, c) ==
  [op |-> op, id |-> i, span |-> s, todo |-> fields, slot |-> slot, buf |-> Empty,
   rest |-> IF op = "event" THEN c ELSE <<>>, pushed |-> <<>>]

LEMMA FreshStands ==
  ASSUME NEW op \in {"event", "new", "record"}, NEW i \in Call, NEW s \in Span \cup {0},
         NEW fields \in Shape, NEW slot \in {"tls", "own"}, NEW c \in Scopes,
         op = "event" <=> s = 0, slot = "tls" => op = "event",
         NEW cs, i \in DOMAIN cs, cs[i] = [op |-> op, fields |-> fields, span |-> s],
         NEW v, slot = "tls" => v = Empty, NEW sc
  PROVE  Fresh(op, i, s, fields, slot, c) \in Frame
         /\ Stands(cs, v, sc, Fresh(op, i, s, fields, slot, c))
<1> DEFINE f == Fresh(op, i, s, fields, slot, c)
<1>1. /\ f.op = op /\ f.id = i /\ f.span = s /\ f.todo = fields /\ f.slot = slot
      /\ f.buf = Empty /\ f.pushed = <<>>
  BY DEF Fresh
<1>2. f \in Frame
  <2>1. fields \in Seq(Field) /\ c \in Seq(Span)
    BY EventAssumption
  <2>2. Empty \in Visitor
    BY EmptyBuffer
  <2> DEFINE r == IF op = "event" THEN c ELSE <<>>
  <2>3. r \in Seq(Span) /\ <<>> \in Seq(Entry)
    BY <2>1
  <2>4. f = [op |-> op, id |-> i, span |-> s, todo |-> fields, slot |-> slot,
             buf |-> Empty, rest |-> r, pushed |-> <<>>]
    BY DEF Fresh
  <2> HIDE DEF r, f
  <2> QED
    BY <2>1, <2>2, <2>3, <2>4 DEF Frame
<1>3. Len(fields) \in Nat
  BY EventAssumption, LenProperties
<1>4. cs[i].op = op /\ cs[i].fields = fields /\ cs[i].span = s
  OBVIOUS
<1>5. BufferOf(v, f) = Empty
  BY <1>1 DEF BufferOf
<1>6. Len(fields) - Len(fields) = 0 /\ \A k \in 1..Len(fields) : Len(fields) - Len(fields) + k = k
  BY <1>3
<1>7. Sources(<<>>) = {}
  BY DEF Sources
<1>8. Filled(i, fields, 0, Empty)
  BY EmptyBuffer
<1> HIDE DEF f
<1>9. FrameOK(f, cs[i], Empty, sc)
  BY <1>1, <1>3, <1>4, <1>6, <1>7, <1>8 DEF FrameOK
<1> QED
  BY <1>1, <1>2, <1>5, <1>9 DEF Stands, f

LEMMA BeginKeeps ==
  ASSUME EventInv, NEW t \in Thread, NEW op \in {"event", "new", "record"},
         NEW s \in Span \cup {0}, NEW fields \in Shape, NEW slot \in {"tls", "own"},
         op = "event" <=> s = 0, slot = "tls" => op = "event" /\ ~Borrowed(t),
         Begin(t, op, s, fields, slot), tls' \in [Thread -> Visitor],
         \A u \in Thread : u # t \/ slot = "own" => tls'[u] = tls[u],
         slot = "tls" => tls'[t] = Empty, UNCHANGED <<live, ext, writer, out>>
  PROVE  EventInv'
<1> DEFINE i == Len(calls) + 1
           a == [op |-> op, fields |-> fields, span |-> s]
<1>1. PICK c \in Scopes :
        /\ scope' = [scope EXCEPT ![t] = c]
        /\ stack' = [stack EXCEPT ![t] = Append(@, Fresh(op, i, s, fields, slot, c))]
  BY DEF Begin, Fresh
<1>2. calls \in Seq(CallOf) /\ Len(calls) \in Nat /\ DOMAIN calls = 1..Len(calls)
      /\ Len(calls) < MaxCalls /\ MaxCalls \in Nat
  BY CallsTyped DEF EventInv, Begin
<1>3. a \in CallOf
  BY DEF CallOf
<1>4. calls' = Append(calls, a)
  BY DEF Begin
<1> HIDE DEF a
<1>5. /\ calls' \in Seq(CallOf) /\ Len(calls') = i /\ calls'[i] = a
      /\ \A k \in 1..Len(calls) : calls'[k] = calls[k]
  BY <1>2, <1>3, <1>4, AppendProperties
<1>6. i \in Call /\ DOMAIN calls' = 1..i /\ i \in DOMAIN calls' /\ Len(calls') <= MaxCalls
  <2>1. DOMAIN calls' = 1..Len(calls')
    BY <1>5, LenProperties
  <2> QED
    BY <1>2, <1>5, <2>1 DEF Call
<1>7. Continues(calls, calls')
  BY <1>2, <1>5, <1>6 DEF Continues
<1> DEFINE g == Fresh(op, i, s, fields, slot, c)
           v == tls'[t]
           sc == SpanCalls'
           cs == calls'
<1>8. g \in Frame /\ Stands(cs, v, sc, g) /\ g.slot = slot
  <2>1. cs[i] = [op |-> op, fields |-> fields, span |-> s] /\ i \in DOMAIN cs
    BY <1>5, <1>6 DEF a
  <2>2. slot = "tls" => v = Empty
    OBVIOUS
  <2> HIDE DEF i, v, sc, cs
  <2>3. g \in Frame /\ Stands(cs, v, sc, g)
    BY <1>6, <2>1, <2>2, FreshStands
  <2>4. g.slot = slot
    BY DEF Fresh
  <2> QED
    BY <2>3, <2>4
<1> HIDE DEF g, i
<1> DEFINE n == Len(stack[t])
<1>9. stack[t] \in Seq(Frame) /\ n \in Nat /\ DOMAIN stack[t] = 1..n
      /\ stack \in [Thread -> Seq(Frame)]
  <2>1. stack[t] \in Seq(Frame) /\ stack \in [Thread -> Seq(Frame)]
    BY DEF EventInv, EventTypeOK
  <2> QED
    BY <2>1, LenProperties
<1>10. /\ stack'[t] = Append(stack[t], g)
       /\ \A u \in Thread : u # t => stack'[u] = stack[u]
       /\ DOMAIN stack' = Thread /\ stack' = [u \in Thread |-> stack'[u]]
  BY <1>1, <1>9 DEF g
<1>11. /\ stack'[t] \in Seq(Frame) /\ DOMAIN stack'[t] = 1..n + 1 /\ stack'[t][n + 1] = g
       /\ \A k \in 1..n : stack'[t][k] = stack[t][k]
  <2> DEFINE q == stack[t]
             p == stack'[t]
  <2>1. q \in Seq(Frame) /\ p = Append(q, g) /\ n = Len(q) /\ g \in Frame
    BY <1>8, <1>9, <1>10
  <2> HIDE DEF q, p, n
  <2>2. p \in Seq(Frame) /\ Len(p) = n + 1 /\ p[n + 1] = g /\ \A k \in 1..n : p[k] = q[k]
    BY <2>1, AppendProperties
  <2>3. DOMAIN p = 1..n + 1
    BY <2>2, LenProperties
  <2> QED
    BY <2>2, <2>3 DEF q, p
<1>12. \A k \in 1..n + 1 : k \in 1..n \/ k = n + 1
  BY <1>9
<1> HIDE DEF n
<1>13. ASSUME NEW k \in 1..n PROVE slot = "tls" => stack[t][k].slot # "tls"
  <2>1. stack[t][k].slot = "tls" => stack[t][k].op = "event"
    BY <1>9 DEF EventInv, FramesInv, Stands, FrameOK
  <2> QED
    BY <1>9, <2>1 DEF Borrowed
<1>14. FramesInv'
  <2>1. ASSUME NEW k \in 1..n PROVE Stands(cs, v, sc, stack'[t][k])
    <3>1. Stands(calls, tls[t], SpanCalls, stack[t][k]) /\ stack'[t][k] = stack[t][k]
      BY <1>9, <1>11 DEF EventInv, FramesInv
    <3>2. BufferOf(v, stack[t][k]) = BufferOf(tls[t], stack[t][k])
      BY <1>13 DEF BufferOf
    <3>3. SpanCalls \subseteq sc
      BY <1>7, SpanCallsGrow
    <3> HIDE DEF v, sc, cs
    <3> QED
      BY <1>7, <3>1, <3>2, <3>3, StandsStays DEF cs
  <2>2. \A k \in DOMAIN stack'[t] : Stands(calls', tls'[t], SpanCalls', stack'[t][k])
    BY <1>8, <1>11, <1>12, <2>1
  <2>3. \A u \in Thread : u # t => stack'[u] = stack[u] /\ tls'[u] = tls[u]
    BY <1>10
  <2> QED
    BY <1>7, <2>2, <2>3, OthersStand DEF EventInv
<1>15. OneTls'
  <2> SUFFICES ASSUME NEW u \in Thread, NEW k \in DOMAIN stack'[u], NEW l \in DOMAIN stack'[u],
                      stack'[u][k].slot = "tls", stack'[u][l].slot = "tls"
               PROVE  k = l
    BY DEF OneTls
  <2>1. \A x, y \in DOMAIN stack[u] : stack[u][x].slot = "tls" /\ stack[u][y].slot = "tls" => x = y
    BY DEF EventInv, OneTls
  <2>2. CASE u = t
    <3>1. (k \in 1..n \/ k = n + 1) /\ (l \in 1..n \/ l = n + 1)
      BY <1>11, <1>12, <2>2
    <3>2. \A x \in 1..n : stack'[t][x].slot = "tls" => slot # "tls" /\ stack[t][x].slot = "tls"
      BY <1>11, <1>13
    <3>3. stack'[t][n + 1].slot = slot
      BY <1>8, <1>11
    <3> QED
      BY <1>9, <2>1, <2>2, <3>1, <3>2, <3>3
  <2>3. CASE u # t
    BY <1>10, <2>1, <2>3
  <2> QED
    BY <2>2, <2>3
<1>16. EventTypeOK'
  <2>1. stack' \in [Thread -> Seq(Frame)]
    <3> DEFINE X == Seq(Frame)
    <3>1. \A u \in Thread : u # t => stack'[u] \in X
      BY <1>9, <1>10
    <3>2. stack'[t] \in X
      BY <1>11
    <3> HIDE DEF X
    <3>3. stack' \in [Thread -> X]
      BY <1>10, <3>1, <3>2
    <3> QED
      BY <3>3 DEF X
  <2>2. scope' \in [Thread -> Scopes \cup {<<>>}]
    BY <1>1 DEF EventInv, EventTypeOK
  <2>3. calls' \in Seq(CallOf) /\ Len(calls') <= MaxCalls
    BY <1>5, <1>6
  <2> QED
    BY <2>1, <2>2, <2>3 DEF EventInv, EventTypeOK, CallOf
<1> QED
  BY <1>7, <1>14, <1>15, <1>16, ExtStays, OutStays DEF EventInv

LEMMA OnEventKeeps ==
  ASSUME EventInv, NEW t \in Thread, OnEvent(t)
  PROVE  EventInv'
<1>1. PICK f \in Shape : Begin(t, "event", 0, f, IF Borrowed(t) THEN "own" ELSE "tls")
  BY DEF OnEvent
<1>2. tls \in [Thread -> Visitor] /\ UNCHANGED <<live, ext, writer, out>>
  BY DEF EventInv, EventTypeOK, OnEvent
<1>3. Empty \in Visitor
  BY EmptyBuffer
<1>4. CASE Borrowed(t)
  <2>1. tls' = tls /\ Begin(t, "event", 0, f, "own")
    BY <1>1, <1>4 DEF OnEvent
  <2> QED
    BY <1>2, <2>1, BeginKeeps
<1>5. CASE ~Borrowed(t)
  <2>1. tls' = [tls EXCEPT ![t] = Empty] /\ Begin(t, "event", 0, f, "tls")
    BY <1>1, <1>5 DEF OnEvent
  <2>2. tls' \in [Thread -> Visitor] /\ tls'[t] = Empty
        /\ \A u \in Thread : u # t => tls'[u] = tls[u]
    BY <1>2, <1>3, <2>1
  <2> QED
    BY <1>2, <1>5, <2>1, <2>2, BeginKeeps
<1> QED
  BY <1>4, <1>5

LEMMA SpanIsNotZero ==
  ASSUME NEW s \in Span
  PROVE  s # 0
<1>1. SpanKey \in Seq(STRING \ {""})
  BY EventAssumption
<1>2. DOMAIN SpanKey = 1..Len(SpanKey) /\ Len(SpanKey) \in Nat
  BY <1>1, LenProperties
<1> QED
  BY <1>2 DEF Span

LEMMA OnSpanKeeps ==
  ASSUME EventInv, NEW t \in Thread, OnNewSpan(t) \/ OnRecord(t)
  PROVE  EventInv'
<1>1. tls \in [Thread -> Visitor] /\ UNCHANGED <<tls, live, ext, writer, out>>
  BY DEF EventInv, EventTypeOK, OnNewSpan, OnRecord
<1>2. live \subseteq Span
  BY DEF EventInv, EventTypeOK
<1>3. PICK op \in {"new", "record"}, s \in Span, f \in Shape : Begin(t, op, s, f, "own")
  BY <1>2 DEF OnNewSpan, OnRecord
<1>4. s # 0
  BY SpanIsNotZero
<1> QED
  BY <1>1, <1>3, <1>4, BeginKeeps
-----------------------------------------------------------------------------
(* A call goes on with its next field.                                     *)

LEMMA FrameIs ==
  ASSUME NEW f \in Frame
  PROVE  /\ f.op \in {"event", "new", "record"} /\ f.id \in Call /\ f.span \in Span \cup {0}
         /\ f.todo \in Seq(Field) /\ f.slot \in {"tls", "own"} /\ f.buf \in Visitor
         /\ f.rest \in Seq(Span) /\ f.pushed \in Seq(Entry)
BY DEF Frame

(* A frame whose fields are given, changed in some of them.                *)
Of(op, id, span, todo, slot, buf, rest, pushed) ==
  [op |-> op, id |-> id, span |-> span, todo |-> todo, slot |-> slot,
   buf |-> buf, rest |-> rest, pushed |-> pushed]

Visiting(f, q)         == [f EXCEPT !.todo = q]
VisitingOwn(f, q, w)   == [f EXCEPT !.todo = q, !.buf = w]
Pushing(f, w)          == [f EXCEPT !.pushed = w]
PushingFrom(f, q, w)   == [f EXCEPT !.rest = q, !.pushed = w]

LEMMA FrameChanges ==
  ASSUME NEW f \in Frame, NEW q, NEW w
  PROVE  /\ Visiting(f, q) = Of(f.op, f.id, f.span, q, f.slot, f.buf, f.rest, f.pushed)
         /\ VisitingOwn(f, q, w) = Of(f.op, f.id, f.span, q, f.slot, w, f.rest, f.pushed)
         /\ Pushing(f, w) = Of(f.op, f.id, f.span, f.todo, f.slot, f.buf, f.rest, w)
         /\ PushingFrom(f, q, w) = Of(f.op, f.id, f.span, f.todo, f.slot, f.buf, q, w)
<1>1. PICK a, b, c, d, e, h, r, p : f = Of(a, b, c, d, e, h, r, p)
  BY DEF Frame, Of
<1>2. /\ f.op = a /\ f.id = b /\ f.span = c /\ f.todo = d
      /\ f.slot = e /\ f.buf = h /\ f.rest = r /\ f.pushed = p
  BY <1>1 DEF Of
<1> DEFINE g == [f EXCEPT !.todo = q]
           k == [f EXCEPT !.rest = q]
<1>3. VisitingOwn(f, q, w) = [g EXCEPT !.buf = w] /\ PushingFrom(f, q, w) = [k EXCEPT !.pushed = w]
  BY DEF VisitingOwn, PushingFrom
<1>4. g = Of(a, b, c, q, e, h, r, p)
  BY <1>1 DEF Of
<1>5. k = Of(a, b, c, d, e, h, q, p)
  BY <1>1 DEF Of
<1>6. Pushing(f, w) = Of(a, b, c, d, e, h, r, w)
  BY <1>1 DEF Of, Pushing
<1>7. Visiting(f, q) = g
  BY DEF Visiting
<1> HIDE DEF g, k
<1>8. [g EXCEPT !.buf = w] = Of(a, b, c, q, e, w, r, p)
  BY <1>4 DEF Of
<1>9. [k EXCEPT !.pushed = w] = Of(a, b, c, d, e, h, q, w)
  BY <1>5 DEF Of
<1> QED
  BY <1>2, <1>3, <1>4, <1>6, <1>7, <1>8, <1>9

LEMMA NextField ==
  ASSUME NEW f \in Frame, f.todo # <<>>, NEW c \in CallOf, NEW b, NEW sc, FrameOK(f, c, b, sc)
  PROVE  LET v == Len(c.fields) - Len(f.todo)
         IN  /\ v \in Nat /\ Head(f.todo) = c.fields[v + 1] /\ Head(f.todo) \in Field
             /\ Tail(f.todo) \in Seq(Field) /\ Len(Tail(f.todo)) <= Len(c.fields)
             /\ Len(c.fields) - Len(Tail(f.todo)) = v + 1
             /\ \A k \in 1..Len(Tail(f.todo)) : Tail(f.todo)[k] = c.fields[v + 1 + k]
<1> DEFINE q == f.todo
           n == Len(c.fields)
           v == n - Len(q)
<1>1. q \in Seq(Field) /\ q # <<>>
  BY FrameIs
<1>2. n \in Nat
  BY EventAssumption, LenProperties DEF CallOf
<1>3. Len(q) <= n /\ \A k \in 1..Len(q) : q[k] = c.fields[n - Len(q) + k]
  BY DEF FrameOK
<1> HIDE DEF q, n
<1>4. Len(q) \in Nat \ {0} /\ Head(q) = q[1] /\ Head(q) \in Field
  BY <1>1, LenProperties, EmptySeq, HeadTailProperties
<1>5. /\ Tail(q) \in Seq(Field) /\ Len(Tail(q)) = Len(q) - 1
      /\ \A k \in 1..Len(Tail(q)) : Tail(q)[k] = q[k + 1]
  BY <1>1, HeadTailProperties
<1>6. v \in Nat
  BY <1>2, <1>3, <1>4
<1>7. q[1] = c.fields[v + 1]
  BY <1>3, <1>4
<1>8. Len(Tail(q)) <= n /\ n - Len(Tail(q)) = v + 1
  BY <1>2, <1>3, <1>4, <1>5
<1>9. ASSUME NEW k \in 1..Len(Tail(q)) PROVE Tail(q)[k] = c.fields[v + 1 + k]
  <2>1. k + 1 \in 1..Len(q) /\ v + (k + 1) = v + 1 + k
    BY <1>4, <1>5, <1>6
  <2> QED
    BY <1>3, <1>5, <2>1
<1> QED
  BY <1>4, <1>5, <1>6, <1>7, <1>8, <1>9 DEF q, n

(* The frame after that, with the buffer w.                                *)
LEMMA Advances ==
  ASSUME NEW f \in Frame, f.todo # <<>>, NEW c \in CallOf, NEW b, NEW sc, FrameOK(f, c, b, sc),
         NEW g, g.op = f.op, g.id = f.id, g.span = f.span, g.slot = f.slot,
         g.todo = Tail(f.todo), g.pushed = f.pushed,
         NEW w, f.op = "event" => Filled(f.id, c.fields, Len(c.fields) - Len(f.todo) + 1, w)
  PROVE  FrameOK(g, c, w, sc)
<1>1. /\ Len(Tail(f.todo)) <= Len(c.fields)
      /\ Len(c.fields) - Len(Tail(f.todo)) = Len(c.fields) - Len(f.todo) + 1
      /\ \A k \in 1..Len(Tail(f.todo)) :
           Tail(f.todo)[k] = c.fields[Len(c.fields) - Len(f.todo) + 1 + k]
  BY NextField
<1>2. f.pushed = <<>>
  BY DEF FrameOK
<1>3. /\ c.op = f.op /\ c.span = f.span
      /\ f.op = "event" <=> f.span = 0
      /\ f.slot = "tls" => f.op = "event"
      /\ Sources(f.pushed) \subseteq {f.id} \cup sc
  BY DEF FrameOK
<1> QED
  BY <1>1, <1>2, <1>3 DEF FrameOK

LEMMA TopCall ==
  ASSUME EventInv, NEW t \in Thread, stack[t] # <<>>
  PROVE  LET f == Top(t) IN
         /\ f \in Frame /\ f.id \in DOMAIN calls /\ f.id \in Call
         /\ calls[f.id] \in CallOf /\ calls[f.id].fields \in Seq(Field)
         /\ FrameOK(f, calls[f.id], BufferOf(tls[t], f), SpanCalls)
         /\ BufferOf(tls[t], f) \in Visitor /\ BufferOf(tls[t], f) = Buffer(t)
<1>1. Top(t) \in Frame /\ Stands(calls, tls[t], SpanCalls, Top(t))
  BY TopIs
<1>2. tls[t] \in Visitor
  BY DEF EventInv, EventTypeOK
<1>3. EventTypeOK
  BY DEF EventInv
<1> QED
  BY <1>1, <1>2, <1>3, FrameIs, CallsTyped DEF Stands, BufferOf, Buffer

LEMMA VisitEventKeeps ==
  ASSUME EventInv, NEW t \in Thread, stack[t] # <<>>, Top(t).todo # <<>>, VisitEvent(t)
  PROVE  EventInv'
<1> DEFINE f == Top(t)
           c == calls[f.id]
           v == Len(c.fields) - Len(f.todo)
           field == Head(f.todo)
           b == BufferOf(tls[t], f)
           w == Visit(b, field, ValueAt(f))
           q == Tail(f.todo)
<1>1. /\ f \in Frame /\ f.id \in DOMAIN calls /\ f.id \in Call /\ c \in CallOf
      /\ FrameOK(f, c, b, SpanCalls) /\ b \in Visitor
  BY TopCall
<1>2. v \in Nat /\ field = c.fields[v + 1] /\ field \in Field /\ q \in Seq(Field)
  BY <1>1, NextField
<1>3. f.op = "event" /\ UNCHANGED <<calls, scope, live, ext, writer, out>>
  BY DEF VisitEvent
<1>4. ValueAt(f) = [of |-> f.id, no |-> v + 2]
  BY DEF ValueAt
<1>5. Filled(f.id, c.fields, v, b)
  BY <1>1, <1>3 DEF FrameOK
<1>6. w \in Visitor /\ Filled(f.id, c.fields, v + 1, w)
  <2> DEFINE fs == c.fields
             i == f.id
  <2>1. w = Visit(b, fs[v + 1], [of |-> i, no |-> v + 2])
    BY <1>2, <1>4
  <2>2. i \in Call /\ b \in Visitor /\ Filled(i, fs, v, b) /\ v \in Nat /\ fs[v + 1] \in Field
    BY <1>1, <1>2, <1>5
  <2> HIDE DEF w, i, v, fs, b
  <2> QED
    BY <2>1, <2>2, VisitFills DEF i, v, fs, b
<1>7. f.buf \in Visitor /\ f.todo # <<>>
  BY <1>1, FrameIs
<1> DEFINE G(x) == Of(f.op, f.id, f.span, q, f.slot, x, f.rest, f.pushed)
<1> HIDE DEF f, c, v, field, b, w, q
<1>8. ASSUME NEW x \in Visitor
      PROVE  /\ G(x) \in Frame /\ G(x).slot = f.slot /\ G(x).id = f.id /\ G(x).buf = x
             /\ FrameOK(G(x), c, w, SpanCalls)
  <2>1. G(x) \in Frame
    <3>1. /\ f.op \in {"event", "new", "record"} /\ f.id \in Call /\ f.span \in Span \cup {0}
          /\ f.slot \in {"tls", "own"} /\ f.rest \in Seq(Span) /\ f.pushed \in Seq(Entry)
      BY <1>1, FrameIs
    <3> QED
      BY <1>2, <3>1 DEF Frame, Of
  <2> DEFINE g == G(x)
  <2>2. /\ g.op = f.op /\ g.id = f.id /\ g.span = f.span /\ g.slot = f.slot
        /\ g.todo = q /\ g.pushed = f.pushed /\ g.buf = x
    BY DEF Of
  <2> HIDE DEF g
  <2>3. FrameOK(g, c, w, SpanCalls)
    BY <1>1, <1>6, <1>7, <2>2, Advances DEF q, v
  <2> QED
    BY <2>1, <2>2, <2>3 DEF g
<1> HIDE DEF G
<1>9. tls \in [Thread -> Visitor]
  BY DEF EventInv, EventTypeOK
<1>10. PICK g \in Frame : /\ SetTop(t, g) /\ g.slot = f.slot /\ g.id = f.id
                          /\ FrameOK(g, c, BufferOf(tls'[t], g), SpanCalls)
                          /\ tls' \in [Thread -> Visitor]
                          /\ \A u \in Thread : u # t => tls'[u] = tls[u]
                          /\ f.slot = "tls" \/ tls'[t] = tls[t]
  <2>1. CASE f.slot = "tls"
    <3>1. b = tls[t]
      BY <2>1 DEF b, BufferOf
    <3>2. tls' = [tls EXCEPT ![t] = w]
      BY <2>1, <3>1 DEF VisitEvent, f, w, field
    <3>3. tls' \in [Thread -> Visitor] /\ tls'[t] = w /\ \A u \in Thread : u # t => tls'[u] = tls[u]
      BY <1>6, <1>9, <3>2
    <3>4. SetTop(t, Visiting(f, q))
      BY <2>1 DEF VisitEvent, f, q, Visiting
    <3>5. Visiting(f, q) = G(f.buf)
      BY <1>1, FrameChanges DEF G
    <3>6. BufferOf(tls'[t], G(f.buf)) = w
      BY <1>7, <1>8, <2>1, <3>3 DEF BufferOf
    <3> QED
      BY <1>7, <1>8, <2>1, <3>3, <3>4, <3>5, <3>6
  <2>2. CASE f.slot # "tls"
    <3>1. b = f.buf
      BY <2>2 DEF b, BufferOf
    <3>2. tls' = tls
      BY <2>2 DEF VisitEvent, f
    <3>3. SetTop(t, VisitingOwn(f, q, w))
      BY <2>2, <3>1 DEF VisitEvent, f, q, w, field, VisitingOwn
    <3>4. VisitingOwn(f, q, w) = G(w)
      BY <1>1, FrameChanges DEF G
    <3>5. BufferOf(tls'[t], G(w)) = w
      BY <1>6, <1>8, <2>2 DEF BufferOf
    <3> QED
      BY <1>6, <1>8, <1>9, <2>2, <3>2, <3>3, <3>4, <3>5
  <2> QED
    BY <2>1, <2>2
<1>11. Stands(calls, tls'[t], SpanCalls, g)
  BY <1>1, <1>10 DEF Stands, c
<1>12. FramesInv' /\ OneTls' /\ stack' \in [Thread -> Seq(Frame)]
  BY <1>3, <1>10, <1>11, TopChanges DEF f
<1>13. EventTypeOK'
  BY <1>3, <1>10, <1>12 DEF EventInv, EventTypeOK
<1>14. Continues(calls, calls')
  BY <1>3 DEF Continues
<1> QED
  BY <1>3, <1>12, <1>13, <1>14, ExtStays, OutStays DEF EventInv
(* The fields of a span, with a name once.                                 *)
SpanEntry == [name : DOMAIN KeyOf, key : Key, val : Value]

Named(q) == \A i, j \in DOMAIN q : q[i].name = q[j].name => i = j

OfSpans(q, sc) == \A j \in DOMAIN q : q[j].val.of \in sc /\ q[j].key.pre # ""

LEMMA UpsertKeeps ==
  ASSUME NEW s \in Span, NEW q \in Seq(SpanEntry), Named(q), NEW name \in DOMAIN KeyOf,
         NEW val \in Value, NEW sc, val.of \in sc, OfSpans(q, sc)
  PROVE  LET p == Upsert(s, q, name, val)
         IN  p \in Seq(SpanEntry) /\ Named(p) /\ OfSpans(p, sc)
<1> DEFINE p == Upsert(s, q, name, val)
           n == Len(q)
<1>1. /\ n \in Nat /\ DOMAIN q = 1..n
      /\ \A i \in 1..n : q[i] \in SpanEntry
  BY LenProperties, ElementOfSeq
<1>2. CASE \E i \in DOMAIN q : q[i].name = name
  <2> DEFINE e(i) == IF q[i].name = name THEN [q[i] EXCEPT !.val = val] ELSE q[i]
  <2>1. p = [i \in 1..n |-> e(i)]
    BY <1>1, <1>2 DEF Upsert
  <2>2. ASSUME NEW i \in 1..n
        PROVE  /\ e(i) \in SpanEntry /\ e(i).name = q[i].name /\ e(i).key.pre = q[i].key.pre
               /\ e(i).val.of \in sc
    <3>1. q[i] \in SpanEntry /\ q[i].val.of \in sc
      BY <1>1 DEF OfSpans
    <3>2. CASE q[i].name = name
      <4> DEFINE a == q[i]
                 b == [a EXCEPT !.val = val]
      <4>1. e(i) = b
        BY <3>2
      <4>2. a \in SpanEntry
        BY <3>1
      <4> HIDE DEF a
      <4>3. b \in SpanEntry /\ b.name = a.name /\ b.key = a.key /\ b.val = val
        BY <4>2 DEF SpanEntry
      <4> HIDE DEF b, e
      <4> QED
        BY <4>1, <4>3 DEF a
    <3>3. CASE q[i].name # name
      BY <3>1, <3>3
    <3> QED
      BY <3>2, <3>3
  <2> HIDE DEF e, p, n
  <2>3. DOMAIN p = 1..n /\ \A i \in 1..n : p[i] = e(i)
    BY <2>1
  <2>4. p \in Seq(SpanEntry)
    <3>1. p \in [1..n -> SpanEntry]
      BY <2>1, <2>2
    <3> QED
      BY <1>1, <3>1
  <2>5. Named(p)
    BY <1>1, <2>2, <2>3 DEF Named
  <2>6. OfSpans(p, sc)
    BY <1>1, <2>2, <2>3 DEF OfSpans
  <2> QED
    BY <2>4, <2>5, <2>6 DEF p
<1>3. CASE ~ \E i \in DOMAIN q : q[i].name = name
  <2> DEFINE k == [KeyOf[name] EXCEPT !.pre = SpanKey[s]]
             a == [name |-> name, val |-> val, key |-> k]
  <2>1. k \in Key /\ k.pre # ""
    <3> DEFINE x == KeyOf[name]
               y == SpanKey[s]
    <3>1. x \in Key
      BY EventAssumption
    <3>2. y \in STRING \ {""}
      <4> DEFINE X == STRING \ {""}
      <4>1. SpanKey \in Seq(X)
        BY EventAssumption
      <4> HIDE DEF X
      <4>2. s \in 1..Len(SpanKey)
        BY <4>1, LenProperties DEF Span
      <4>3. y \in X
        BY <4>1, <4>2, ElementOfSeq
      <4> QED
        BY <4>3 DEF X
    <3>3. k = [x EXCEPT !.pre = y]
      OBVIOUS
    <3> HIDE DEF x, y, k
    <3> QED
      BY <3>1, <3>2, <3>3 DEF Key
  <2>2. p = Append(q, a)
    BY <1>3 DEF Upsert
  <2> HIDE DEF k
  <2>3. a \in SpanEntry /\ a.name = name /\ a.val = val /\ a.key = k
    BY <2>1 DEF SpanEntry
  <2> HIDE DEF a, p
  <2>4. p \in Seq(SpanEntry) /\ Len(p) = n + 1 /\ p[n + 1] = a /\ \A i \in 1..n : p[i] = q[i]
    BY <2>2, <2>3, AppendProperties
  <2>5. DOMAIN p = 1..n + 1
    BY <2>4, LenProperties
  <2> HIDE DEF n
  <2>6. \A i \in 1..n + 1 : i \in 1..n \/ i = n + 1
    BY <1>1
  <2>7. Named(p)
    BY <1>1, <1>3, <2>3, <2>4, <2>5, <2>6 DEF Named
  <2>8. OfSpans(p, sc)
    BY <1>1, <2>1, <2>3, <2>4, <2>5, <2>6 DEF OfSpans
  <2> QED
    BY <2>4, <2>7, <2>8 DEF p
<1> QED
  BY <1>2, <1>3

LEMMA VisitSpanKeeps ==
  ASSUME EventInv, NEW t \in Thread, stack[t] # <<>>, Top(t).todo # <<>>, VisitSpan(t)
  PROVE  EventInv'
<1> DEFINE f == Top(t)
           s == f.span
           c == calls[f.id]
           v == Len(c.fields) - Len(f.todo)
           b == BufferOf(tls[t], f)
           q == Tail(f.todo)
           g == Visiting(f, q)
           name == Head(f.todo).name
           val == ValueAt(f)
           p == Upsert(s, ext[s], name, val)
<1>1. /\ f \in Frame /\ f.id \in DOMAIN calls /\ f.id \in Call /\ c \in CallOf
      /\ FrameOK(f, c, b, SpanCalls) /\ b \in Visitor
  BY TopCall
<1>2. v \in Nat /\ name \in DOMAIN KeyOf /\ q \in Seq(Field)
  BY <1>1, NextField DEF Field
<1>3. f.op # "event" /\ UNCHANGED <<calls, scope, tls, live, writer, out>>
  BY DEF VisitSpan
<1>4. s \in Span /\ f.id \in SpanCalls
  <2>1. f.span \in Span \cup {0} /\ f.span # 0 /\ c.span = f.span
    BY <1>1, <1>3, FrameIs DEF FrameOK
  <2> QED
    BY <1>1, <2>1 DEF SpanCalls
<1>5. val \in Value /\ val.of = f.id
  BY <1>1, <1>2 DEF ValueAt, Value
<1>6. ext' = [ext EXCEPT ![s] = p] /\ SetTop(t, g)
  BY DEF VisitSpan, Visiting
<1>7. f.todo # <<>> /\ g = Of(f.op, f.id, f.span, q, f.slot, f.buf, f.rest, f.pushed)
  BY <1>1, FrameChanges
<1> HIDE DEF f, c, v, b, q, g, name, val, p, s
<1>8. /\ g.op = f.op /\ g.id = f.id /\ g.span = f.span /\ g.slot = f.slot
      /\ g.todo = q /\ g.pushed = f.pushed /\ g.buf = f.buf
  BY <1>7 DEF Of
<1>9. g \in Frame
  <2>1. /\ f.op \in {"event", "new", "record"} /\ f.id \in Call /\ f.span \in Span \cup {0}
        /\ f.slot \in {"tls", "own"} /\ f.rest \in Seq(Span) /\ f.pushed \in Seq(Entry)
        /\ f.buf \in Visitor
    BY <1>1, FrameIs
  <2> QED
    BY <1>2, <1>7, <2>1 DEF Frame, Of
<1>10. BufferOf(tls[t], g) = b
  BY <1>8 DEF BufferOf, b
<1>11. FrameOK(g, c, b, SpanCalls)
  BY <1>1, <1>3, <1>7, <1>8, Advances DEF q
<1>12. Stands(calls, tls'[t], SpanCalls, g)
  BY <1>1, <1>3, <1>8, <1>10, <1>11 DEF Stands, c
<1>13. FramesInv' /\ OneTls' /\ stack' \in [Thread -> Seq(Frame)]
  BY <1>3, <1>6, <1>8, <1>9, <1>12, TopChanges DEF f
<1>14. ext \in [Span -> Seq(SpanEntry)] /\ \A r \in Span : Named(ext[r]) /\ OfSpans(ext[r], SpanCalls)
  BY DEF EventInv, EventTypeOK, ExtInv, Named, OfSpans, SpanEntry
<1>15. p \in Seq(SpanEntry) /\ Named(p) /\ OfSpans(p, SpanCalls)
  <2> DEFINE x == ext[s]
  <2>1. x \in Seq(SpanEntry) /\ Named(x) /\ OfSpans(x, SpanCalls) /\ p = Upsert(s, x, name, val)
    BY <1>4, <1>14 DEF p
  <2> HIDE DEF x
  <2> QED
    BY <1>2, <1>4, <1>5, <2>1, UpsertKeeps
<1>16. /\ ext' \in [Span -> Seq(SpanEntry)]
       /\ \A r \in Span : Named(ext'[r]) /\ OfSpans(ext'[r], SpanCalls)
  <2>1. ext'[s] = p /\ \A r \in Span : r # s => ext'[r] = ext[r]
    BY <1>4, <1>6, <1>14
  <2>2. ext' \in [Span -> Seq(SpanEntry)]
    BY <1>4, <1>6, <1>14, <1>15
  <2> QED
    BY <1>14, <1>15, <2>1, <2>2
<1>17. ExtInv'
  <2>1. SpanCalls' = SpanCalls
    BY <1>3 DEF SpanCalls
  <2> QED
    BY <1>16, <2>1 DEF ExtInv, OfSpans
<1>18. EventTypeOK'
  BY <1>3, <1>13, <1>16 DEF EventInv, EventTypeOK, Named, SpanEntry
<1>19. Continues(calls, calls')
  BY <1>3 DEF Continues
<1> QED
  BY <1>3, <1>13, <1>17, <1>18, <1>19, OutStays DEF EventInv
-----------------------------------------------------------------------------
(* The steps around the visitor.                                           *)

LEMMA LockSpanKeeps ==
  ASSUME EventInv, NEW t \in Thread, LockSpan(t)
  PROVE  EventInv'
<1>1. UNCHANGED <<calls, stack, scope, tls, live, ext, out>>
  BY DEF LockSpan
<1>2. writer' \in [Span -> SUBSET Call]
  <2>1. stack[t] # <<>> /\ writer' = [writer EXCEPT ![Top(t).span] = {Top(t).id}]
    BY DEF LockSpan
  <2>2. Top(t).id \in Call
    BY <2>1, TopCall
  <2> QED
    BY <2>1, <2>2 DEF EventInv, EventTypeOK
<1>3. Continues(calls, calls')
  BY <1>1 DEF Continues
<1> QED
  BY <1>1, <1>2, <1>3, FramesStay, ExtStays, OutStays DEF EventInv, EventTypeOK

LEMMA EndSpanKeeps ==
  ASSUME EventInv, NEW t \in Thread, EndSpan(t)
  PROVE  EventInv'
<1>1. /\ stack[t] # <<>> /\ Pop(t) /\ UNCHANGED <<calls, scope, tls, ext, out>>
      /\ Top(t).op # "event" /\ live' = live \cup {Top(t).span}
      /\ writer' = [writer EXCEPT ![Top(t).span] = @ \ {Top(t).id}]
  BY DEF EndSpan
<1>2. Top(t).span \in Span
  BY <1>1, TopCall, FrameIs DEF FrameOK
<1>3. FramesInv' /\ OneTls' /\ stack' \in [Thread -> Seq(Frame)]
  BY <1>1, PopKeeps
<1>4. writer' \in [Span -> SUBSET Call] /\ live' \subseteq Span
  BY <1>1, <1>2 DEF EventInv, EventTypeOK
<1>5. Continues(calls, calls')
  BY <1>1 DEF Continues
<1> QED
  BY <1>1, <1>3, <1>4, <1>5, ExtStays, OutStays DEF EventInv, EventTypeOK

LEMMA OnCloseKeeps ==
  ASSUME EventInv, NEW s \in Span, OnClose(s)
  PROVE  EventInv'
<1>1. /\ UNCHANGED <<calls, stack, scope, tls, writer, out>>
      /\ live' = live \ {s} /\ ext' = [ext EXCEPT ![s] = <<>>]
  BY DEF OnClose
<1>2. ext \in [Span -> Seq(SpanEntry)] /\ \A r \in Span : Named(ext[r]) /\ OfSpans(ext[r], SpanCalls)
  BY DEF EventInv, EventTypeOK, ExtInv, Named, OfSpans, SpanEntry
<1>3. Named(<<>>) /\ OfSpans(<<>>, SpanCalls) /\ <<>> \in Seq(SpanEntry)
  BY DEF Named, OfSpans
<1>4. ext' \in [Span -> Seq(SpanEntry)] /\ \A r \in Span : Named(ext'[r]) /\ OfSpans(ext'[r], SpanCalls)
  BY <1>1, <1>2, <1>3
<1>5. ExtInv'
  <2>1. SpanCalls' = SpanCalls
    BY <1>1 DEF SpanCalls
  <2> QED
    BY <1>4, <2>1 DEF ExtInv, OfSpans
<1>6. EventTypeOK'
  BY <1>1, <1>4 DEF EventInv, EventTypeOK, Named, SpanEntry
<1>7. Continues(calls, calls')
  BY <1>1 DEF Continues
<1> QED
  BY <1>1, <1>5, <1>6, <1>7, FramesStay, OutStays DEF EventInv

-----------------------------------------------------------------------------
(* The record is put together.                                             *)

(* What one value of call i, under a given key, adds to a record.          *)
LEMMA OneEntry ==
  ASSUME NEW i \in Call, NEW key \in Key, NEW no \in Nat, NEW fs
  PROVE  LET a == <<[key |-> key, val |-> [of |-> i, no |-> no]]>>
         IN  /\ a \in Seq(Entry) /\ Len(a) = 1 /\ a[1].key = key /\ a # <<>>
             /\ Numbers(i, a) = {no} /\ Sources(a) = {i} /\ InOrder(i, fs, a)
<1> DEFINE e == [key |-> key, val |-> [of |-> i, no |-> no]]
           a == <<e>>
<1>1. e \in Entry /\ e.key = key /\ e.val.of = i /\ e.val.no = no
  BY DEF Entry, Value
<1> HIDE DEF e
<1>2. a \in Seq(Entry) /\ Len(a) = 1 /\ DOMAIN a = {1} /\ a[1] = e /\ a # <<>>
  BY <1>1
<1> HIDE DEF a
<1>3. OwnAt(i, a) = {1}
  BY <1>1, <1>2 DEF OwnAt
<1>4. Numbers(i, a) = {no} /\ Sources(a) = {i}
  BY <1>1, <1>2, <1>3 DEF Numbers, Sources
<1>5. InOrder(i, fs, a)
  BY <1>3 DEF InOrder
<1> QED
  BY <1>1, <1>2, <1>4, <1>5 DEF a, e

LEMMA NoEntry ==
  ASSUME NEW i, NEW fs
  PROVE  /\ <<>> \in Seq(Entry) /\ KeysApart(<<>>) /\ KeysIn(<<>>) = {} /\ Len(<<>>) = 0
         /\ Numbers(i, <<>>) = {} /\ Sources(<<>>) = {} /\ InOrder(i, fs, <<>>)
<1>1. DOMAIN <<>> = {}
  OBVIOUS
<1> QED
  BY <1>1 DEF KeysApart, KeysIn, Numbers, OwnAt, Sources, InOrder

LEMMA LayerKeys ==
  /\ LevelKey \in Key /\ MessageKey \in Key /\ PathKey \in Key
  /\ LevelKey.base # "__span__" /\ MessageKey.base # "__span__" /\ ~NotPath(PathKey)
<1> DEFINE z == <<>>
<1>1. z \in Seq(Nat)
  OBVIOUS
<1>2. LevelKey \in Key /\ MessageKey \in Key /\ PathKey \in Key
  <2>1. /\ LevelKey = [pre |-> "", base |-> "__level__", suf |-> z]
        /\ MessageKey = [pre |-> "", base |-> "message", suf |-> z]
        /\ PathKey = [pre |-> "", base |-> "__span__", suf |-> z]
    BY DEF LevelKey, MessageKey, PathKey
  <2> HIDE DEF z
  <2>2. LevelKey \in Key
    BY <1>1, <2>1, Literals DEF Key
  <2>3. MessageKey \in Key
    BY <1>1, <2>1, Literals DEF Key
  <2>4. PathKey \in Key
    BY <1>1, <2>1, Literals DEF Key
  <2> QED
    BY <2>2, <2>3, <2>4
<1>3. LevelKey.base # "__span__" /\ MessageKey.base # "__span__"
  BY DEF LevelKey, MessageKey
<1>4. ~NotPath(PathKey)
  BY DEF PathKey, NotPath
<1> QED
  BY <1>2, <1>3, <1>4

(* The message of the buffer b, as entries.                                *)
MessageOf(b) == [i \in DOMAIN b.message |-> [key |-> MessageKey, val |-> b.message[i]]]

LEMMA MessageIs ==
  ASSUME NEW i \in Call, NEW v \in Nat, NEW fs, NEW b \in Visitor, Filled(i, fs, v, b)
  PROVE  /\ MessageOf(b) \in Seq(Entry)
         /\ \A j \in DOMAIN MessageOf(b) : MessageOf(b)[j].key = MessageKey
         /\ Numbers(i, MessageOf(b)) = LastMessages(fs, v)
         /\ Sources(MessageOf(b)) \subseteq {i} /\ InOrder(i, fs, MessageOf(b))
<1> DEFINE q == b.message
           m == MessageOf(b)
           n == Len(q)
<1>1. q \in Seq(Value)
  BY DEF Visitor
<1>2. n \in Nat /\ DOMAIN q = 1..n /\ \A j \in 1..n : q[j] \in Value
  BY <1>1, LenProperties, ElementOfSeq
<1>3. m = [j \in 1..n |-> [key |-> MessageKey, val |-> q[j]]]
  BY <1>2 DEF MessageOf
<1>4. n <= 1 /\ (\A j \in 1..n : q[j].of = i) /\ {q[j].no : j \in 1..n} = LastMessages(fs, v)
  BY <1>2 DEF Filled
<1> HIDE DEF q, m, n
<1>5. DOMAIN m = 1..n /\ \A j \in 1..n : m[j].key = MessageKey /\ m[j].val = q[j]
  BY <1>3
<1>6. m \in Seq(Entry)
  <2>1. \A j \in 1..n : [key |-> MessageKey, val |-> q[j]] \in Entry
    BY <1>2, LayerKeys DEF Entry
  <2>2. m \in [1..n -> Entry]
    BY <1>3, <2>1
  <2> QED
    BY <1>2, <2>2
<1>7. OwnAt(i, m) = 1..n
  BY <1>4, <1>5 DEF OwnAt
<1>8. Numbers(i, m) = LastMessages(fs, v)
  BY <1>4, <1>5, <1>7 DEF Numbers
<1>9. Sources(m) \subseteq {i}
  BY <1>4, <1>5 DEF Sources
<1>10. InOrder(i, fs, m)
  BY <1>2, <1>4, <1>7 DEF InOrder
<1> QED
  BY <1>5, <1>6, <1>8, <1>9, <1>10 DEF m

LEMMA HeaderIs ==
  ASSUME NEW i \in Call, NEW fs, Len(fs) \in Nat, NEW b \in Visitor, Filled(i, fs, Len(fs), b)
  PROVE  LET a == <<[key |-> LevelKey, val |-> [of |-> i, no |-> 0]]>>
             p == PushAll(<<>>, a \o MessageOf(b))
         IN  p \in Seq(Entry) /\ p # <<>> /\ Headed(i, fs, p) /\ Sources(p) \subseteq {i}
<1> DEFINE a == <<[key |-> LevelKey, val |-> [of |-> i, no |-> 0]]>>
           m == MessageOf(b)
           am == a \o m
           z == <<>>
           p == PushAll(z, am)
<1>1. /\ a \in Seq(Entry) /\ Len(a) = 1 /\ a[1].key = LevelKey
      /\ Numbers(i, a) = {0} /\ Sources(a) = {i} /\ InOrder(i, fs, a)
  BY LayerKeys, OneEntry
<1>2. /\ m \in Seq(Entry) /\ \A j \in DOMAIN m : m[j].key = MessageKey
      /\ Numbers(i, m) = LastMessages(fs, Len(fs)) /\ Sources(m) \subseteq {i} /\ InOrder(i, fs, m)
  BY MessageIs
<1>3. /\ z \in Seq(Entry) /\ KeysApart(z) /\ KeysIn(z) = {} /\ Len(z) = 0
      /\ Numbers(i, z) = {} /\ Sources(z) = {} /\ InOrder(i, fs, z)
  BY NoEntry
<1> HIDE DEF a, m, z
<1>4. am \in Seq(Entry) /\ Joins(am, a, m)
  BY <1>1, <1>2, ConcatJoins
<1>5. /\ Len(m) \in Nat /\ DOMAIN m = 1..Len(m) /\ Len(am) = 1 + Len(m)
      /\ am[1] = a[1] /\ \A j \in 1..Len(m) : am[1 + j] = m[j]
  <2>1. Len(m) \in Nat /\ DOMAIN m = 1..Len(m)
    BY <1>2, LenProperties
  <2>2. /\ Len(am) = Len(a) + Len(m)
        /\ \A j \in 1..Len(a) : am[j] = a[j]
        /\ \A j \in 1..Len(m) : am[Len(a) + j] = m[j]
    <3>1. a \in Seq(Entry) /\ m \in Seq(Entry)
      BY <1>1, <1>2
    <3> QED
      BY <3>1, ConcatProperties
  <2> HIDE DEF am
  <2> QED
    BY <1>1, <2>1, <2>2
<1>6. Numbers(i, am) = {0} \cup LastMessages(fs, Len(fs)) /\ Sources(am) \subseteq {i}
      /\ InOrder(i, fs, am)
  <2>1. Before(fs, Numbers(i, a), Numbers(i, m))
    <3> SUFFICES ASSUME NEW x \in LastMessages(fs, Len(fs)) PROVE Rank(fs, 0) < Rank(fs, x)
      BY <1>1, <1>2 DEF Before
    <3>1. x \in Nat /\ x >= 2 /\ IsMessage(fs[x - 1])
      BY MessagesBound
    <3> QED
      BY <3>1 DEF Rank
  <2> HIDE DEF am
  <2>2. /\ Numbers(i, am) = Numbers(i, a) \cup Numbers(i, m)
        /\ Sources(am) = Sources(a) \cup Sources(m)
        /\ InOrder(i, fs, am)
    <3>1. a \in Seq(Entry) /\ m \in Seq(Entry)
      BY <1>1, <1>2
    <3>2. Numbers(i, am) = Numbers(i, a) \cup Numbers(i, m)
      BY <1>4, <3>1, JoinNumbers
    <3>3. Sources(am) = Sources(a) \cup Sources(m)
      BY <1>4, <3>1, JoinSources
    <3>4. InOrder(i, fs, am)
      BY <1>1, <1>2, <1>4, <2>1, <3>1, JoinInOrder
    <3> QED
      BY <3>2, <3>3, <3>4
  <2> QED
    BY <1>1, <1>2, <2>2
<1> HIDE DEF am
<1>7. Extends(p, z, am, Len(am))
  BY <1>3, <1>4, PushAllExtends
<1> HIDE DEF p
<1>8. p \in Seq(Entry) /\ Joins(p, z, am) /\ KeysApart(p) /\ Len(p) = Len(am)
  <2>1. Joins(p, z, am)
    BY <1>3, <1>4, <1>7, ExtendsJoins
  <2>2. p \in Seq(Entry) /\ KeysApart(p) /\ Len(p) = 0 + Len(am)
    BY <1>3, <1>7 DEF Extends
  <2> QED
    BY <1>5, <2>1, <2>2
<1>9. /\ p[1].key = am[1].key
      /\ \A j \in 1..Len(am) : p[j].key.base = am[j].key.base
  <2>1. Len(am) # 0 /\ am[1].key \notin KeysIn(z) /\ 0 + 1 = 1 /\ \A j \in 1..Len(am) : 0 + j = j
    BY <1>3, <1>5
  <2> QED
    BY <1>3, <1>7, <2>1 DEF Extends
<1>10. p # <<>>
  BY <1>5, <1>8
<1>11. Numbers(i, p) = {0} \cup LastMessages(fs, Len(fs)) /\ Sources(p) \subseteq {i}
       /\ InOrder(i, fs, p)
  <2>1. Before(fs, Numbers(i, z), Numbers(i, am))
    BY <1>3 DEF Before
  <2>2. /\ Numbers(i, p) = Numbers(i, z) \cup Numbers(i, am)
        /\ Sources(p) = Sources(z) \cup Sources(am)
        /\ InOrder(i, fs, p)
    <3>1. z \in Seq(Entry) /\ am \in Seq(Entry) /\ Joins(p, z, am)
      BY <1>3, <1>4, <1>8
    <3>2. Numbers(i, p) = Numbers(i, z) \cup Numbers(i, am)
      BY <3>1, JoinNumbers
    <3>3. Sources(p) = Sources(z) \cup Sources(am)
      BY <3>1, JoinSources
    <3>4. InOrder(i, fs, p)
      <4>1. InOrder(i, fs, z) /\ InOrder(i, fs, am)
        BY <1>3, <1>6
      <4> QED
        BY <2>1, <3>1, <4>1, JoinInOrder
    <3> QED
      BY <3>2, <3>3, <3>4
  <2> QED
    BY <1>3, <1>6, <2>2
<1>12. \A j \in DOMAIN p : NotPath(p[j].key)
  <2>1. DOMAIN p = 1..1 + Len(m)
    BY <1>5, <1>8, LenProperties
  <2>2. ASSUME NEW j \in 1..1 + Len(m) PROVE am[j].key.base # "__span__"
    <3>1. CASE j = 1
      BY <1>1, <1>5, <3>1, LayerKeys
    <3>2. CASE j # 1
      <4>1. j - 1 \in 1..Len(m) /\ 1 + (j - 1) = j
        BY <1>5, <3>2
      <4> QED
        <5>1. am[j] = m[j - 1] /\ m[j - 1].key = MessageKey
          BY <1>2, <1>5, <4>1
        <5> QED
          BY <5>1, LayerKeys
    <3> QED
      BY <3>1, <3>2
  <2> QED
    BY <1>5, <1>9, <2>1, <2>2 DEF NotPath
<1>13. Headed(i, fs, p)
  BY <1>1, <1>5, <1>8, <1>9, <1>11, <1>12 DEF Headed
<1> QED
  BY <1>8, <1>10, <1>11, <1>13 DEF p, z, am, a, m
(* A frame that has pushed w, and has q left to read.                      *)
LEMMA PushingKeeps ==
  ASSUME EventInv, NEW t \in Thread, stack[t] # <<>>, NEW g, SetTop(t, g),
         Top(t).op = "event", Top(t).todo = <<>>,
         NEW q \in Seq(Span), NEW w \in Seq(Entry),
         g = PushingFrom(Top(t), q, w) \/ (g = Pushing(Top(t), w) /\ q = Top(t).rest),
         Headed(Top(t).id, calls[Top(t).id].fields, w),
         Sources(w) \subseteq {Top(t).id} \cup SpanCalls,
         UNCHANGED <<calls, scope, tls, live, ext, writer, out>>
  PROVE  EventInv'
<1> DEFINE f == Top(t)
           c == calls[f.id]
           b == BufferOf(tls[t], f)
           h == Of(f.op, f.id, f.span, f.todo, f.slot, f.buf, q, w)
<1>1. /\ f \in Frame /\ f.id \in DOMAIN calls /\ c \in CallOf
      /\ FrameOK(f, c, b, SpanCalls) /\ b \in Visitor
  BY TopCall
<1>2. g = h
  BY <1>1, FrameChanges
<1>3. f.op = "event" /\ f.todo = <<>> /\ Headed(f.id, c.fields, w)
      /\ Sources(w) \subseteq {f.id} \cup SpanCalls /\ SetTop(t, g)
  OBVIOUS
<1> HIDE DEF f, c, b
<1>4. /\ g.op = f.op /\ g.id = f.id /\ g.span = f.span /\ g.todo = f.todo /\ g.slot = f.slot
      /\ g.buf = f.buf /\ g.pushed = w
  BY <1>2 DEF Of
<1>5. g \in Frame
  <2>1. /\ f.op \in {"event", "new", "record"} /\ f.id \in Call /\ f.span \in Span \cup {0}
        /\ f.slot \in {"tls", "own"} /\ f.todo \in Seq(Field) /\ f.buf \in Visitor
    BY <1>1, FrameIs
  <2> QED
    BY <1>2, <2>1 DEF Frame, Of
<1>6. BufferOf(tls[t], g) = b
  BY <1>4 DEF BufferOf, b
<1>7. FrameOK(g, c, b, SpanCalls)
  BY <1>1, <1>3, <1>4 DEF FrameOK
<1>8. Stands(calls, tls'[t], SpanCalls, g)
  BY <1>1, <1>4, <1>6, <1>7 DEF Stands, c
<1>9. FramesInv' /\ OneTls' /\ stack' \in [Thread -> Seq(Frame)]
  BY <1>3, <1>4, <1>5, <1>8, TopChanges DEF f
<1>10. EventTypeOK'
  BY <1>9 DEF EventInv, EventTypeOK
<1>11. Continues(calls, calls')
  BY DEF Continues
<1> QED
  BY <1>9, <1>10, <1>11, ExtStays, OutStays DEF EventInv

LEMMA PushHeaderKeeps ==
  ASSUME EventInv, NEW t \in Thread, PushHeader(t)
  PROVE  EventInv'
<1> DEFINE f == Top(t)
           i == f.id
           fs == calls[i].fields
           b == BufferOf(tls[t], f)
           w == PushAll(<<>>, Own(f, LevelKey, 0) \o MessageOf(b))
<1>1. stack[t] # <<>> /\ f.op = "event" /\ f.todo = <<>>
      /\ UNCHANGED <<calls, scope, tls, live, ext, writer, out>>
  BY DEF PushHeader
<1>2. /\ f \in Frame /\ i \in Call /\ fs \in Seq(Field) /\ b \in Visitor /\ b = Buffer(t)
      /\ FrameOK(f, calls[i], b, SpanCalls)
  BY <1>1, TopCall
<1>3. SetTop(t, Pushing(f, w))
  BY <1>2 DEF PushHeader, Pushing, MessageOf
<1>4. Own(f, LevelKey, 0) = <<[key |-> LevelKey, val |-> [of |-> i, no |-> 0]]>>
  BY DEF Own
<1>5. Len(fs) \in Nat /\ Filled(i, fs, Len(fs), b)
  <2>1. Len(fs) \in Nat /\ Len(f.todo) = 0 /\ Len(fs) - 0 = Len(fs)
    BY <1>1, <1>2, LenProperties
  <2> QED
    BY <1>1, <1>2, <2>1 DEF FrameOK
<1>6. w \in Seq(Entry) /\ Headed(i, fs, w) /\ Sources(w) \subseteq {i}
  <2> HIDE DEF i, fs, b
  <2> QED
    BY <1>2, <1>4, <1>5, HeaderIs
<1>7. f.rest \in Seq(Span)
  BY <1>2, FrameIs
<1> HIDE DEF w
<1> QED
  BY <1>1, <1>3, <1>6, <1>7, PushingKeeps

(* An event is not a call of a span.                                       *)
LEMMA EventIsNoSpan ==
  ASSUME EventInv, NEW t \in Thread, stack[t] # <<>>, Top(t).op = "event"
  PROVE  Top(t).id \notin SpanCalls
BY TopCall DEF FrameOK, SpanCalls

(* The fields of a span, as entries.                                       *)
SpanFieldsOf(q) == [i \in DOMAIN q |-> [key |-> q[i].key, val |-> q[i].val]]

(* Entries of the spans of event i.                                        *)
Foreign(i, fs, m) ==
  /\ Numbers(i, m) = {} /\ InOrder(i, fs, m)
  /\ \A j \in DOMAIN m : m[j].key.pre # ""

LEMMA SpanFieldsAre ==
  ASSUME NEW q \in Seq(SpanEntry), NEW sc, OfSpans(q, sc), NEW i, i \notin sc, NEW fs
  PROVE  /\ SpanFieldsOf(q) \in Seq(Entry) /\ Foreign(i, fs, SpanFieldsOf(q))
         /\ Sources(SpanFieldsOf(q)) \subseteq sc
<1> DEFINE n == Len(q)
           m == SpanFieldsOf(q)
<1>1. n \in Nat /\ DOMAIN q = 1..n /\ \A j \in 1..n : q[j] \in SpanEntry
  BY LenProperties, ElementOfSeq
<1>2. m = [j \in 1..n |-> [key |-> q[j].key, val |-> q[j].val]]
  BY <1>1 DEF SpanFieldsOf
<1>3. \A j \in 1..n : q[j].val.of \in sc /\ q[j].key.pre # ""
  BY <1>1 DEF OfSpans
<1> HIDE DEF m, n
<1>4. DOMAIN m = 1..n /\ \A j \in 1..n : m[j].key = q[j].key /\ m[j].val = q[j].val
  BY <1>2
<1>5. m \in Seq(Entry)
  <2>1. \A j \in 1..n : [key |-> q[j].key, val |-> q[j].val] \in Entry
    BY <1>1 DEF Entry, SpanEntry
  <2>2. m \in [1..n -> Entry]
    BY <1>2, <2>1
  <2> QED
    BY <1>1, <2>2
<1>6. OwnAt(i, m) = {}
  BY <1>3, <1>4 DEF OwnAt
<1>7. Numbers(i, m) = {} /\ InOrder(i, fs, m)
  BY <1>6 DEF Numbers, InOrder
<1>8. Sources(m) \subseteq sc
  BY <1>3, <1>4 DEF Sources
<1>9. \A j \in DOMAIN m : m[j].key.pre # ""
  BY <1>3, <1>4
<1> QED
  BY <1>5, <1>7, <1>8, <1>9 DEF m, Foreign

LEMMA HeadedStays ==
  ASSUME NEW i, NEW fs, NEW p \in Seq(Entry), p # <<>>, Headed(i, fs, p), NEW m \in Seq(Entry),
         Foreign(i, fs, m)
  PROVE  /\ PushAll(p, m) \in Seq(Entry) /\ Headed(i, fs, PushAll(p, m))
         /\ Sources(PushAll(p, m)) = Sources(p) \cup Sources(m)
<1> DEFINE w == PushAll(p, m)
           n == Len(p)
           k == Len(m)
<1>1. Extends(w, p, m, k)
  BY PushAllExtends DEF Headed
<1>2. Joins(w, p, m)
  BY <1>1, ExtendsJoins
<1>3. Sources(w) = Sources(p) \cup Sources(m)
  BY <1>2, JoinSources
<1>4. Numbers(i, w) = Numbers(i, p)
  <2>1. Numbers(i, w) = Numbers(i, p) \cup Numbers(i, m)
    <3> HIDE DEF w
    <3> QED
      BY <1>2, JoinNumbers
  <2> QED
    BY <2>1 DEF Foreign
<1>5. InOrder(i, fs, w)
  <2>1. Before(fs, Numbers(i, p), Numbers(i, m))
    BY DEF Before, Foreign
  <2>2. InOrder(i, fs, p) /\ InOrder(i, fs, m)
    BY DEF Headed, Foreign
  <2> HIDE DEF w
  <2> QED
    BY <1>2, <2>1, <2>2, JoinInOrder
<1>6. n \in Nat /\ n >= 1 /\ k \in Nat
  BY LenProperties, EmptySeq
<1>7. DOMAIN p = 1..n /\ DOMAIN m = 1..k
  BY LenProperties
<1> HIDE DEF w, n, k
<1>8. /\ \A j \in 1..n : NotPath(p[j].key)
      /\ \A j \in 1..k : m[j].key.pre # ""
      /\ p[1].key = LevelKey
  BY <1>7 DEF Headed, Foreign
<1>9. /\ w \in Seq(Entry) /\ KeysApart(w) /\ Len(w) = n + k
      /\ \A j \in 1..n : w[j] = p[j]
      /\ \A j \in 1..k : w[n + j].key.pre = m[j].key.pre
  BY <1>1 DEF Extends, n
<1>10. DOMAIN w = 1..n + k
  BY <1>9, LenProperties
<1>11. \A j \in DOMAIN w : NotPath(w[j].key)
  <2> SUFFICES ASSUME NEW j \in 1..n + k PROVE NotPath(w[j].key)
    BY <1>10
  <2>1. CASE j <= n
    <3>1. j \in 1..n
      BY <1>6, <2>1
    <3>2. w[j] = p[j] /\ NotPath(p[j].key)
      BY <1>8, <1>9, <3>1
    <3> QED
      BY <3>2
  <2>2. CASE j > n
    <3>1. j - n \in 1..k /\ n + (j - n) = j
      BY <1>6, <2>2
    <3>2. w[j].key.pre = m[j - n].key.pre
      BY <1>9, <3>1
    <3> QED
      BY <1>8, <3>1, <3>2 DEF NotPath
  <2> QED
    BY <1>6, <2>1, <2>2
<1>12. w[1].key = LevelKey
  <2>1. 1 \in 1..n
    BY <1>6
  <2>2. w[1] = p[1] /\ p[1].key = LevelKey
    BY <1>8, <1>9, <2>1
  <2> QED
    BY <2>2
<1>13. Headed(i, fs, w)
  BY <1>4, <1>5, <1>9, <1>11, <1>12 DEF Headed
<1> QED
  BY <1>3, <1>9, <1>13 DEF w

LEMMA PushSpanKeeps ==
  ASSUME EventInv, NEW t \in Thread, PushSpan(t)
  PROVE  EventInv'
<1> DEFINE f == Top(t)
           i == f.id
           fs == calls[i].fields
           s == Head(f.rest)
           m == SpanFieldsOf(ext[s])
           p == f.pushed
           w == PushAll(p, m)
           q == Tail(f.rest)
<1>1. stack[t] # <<>> /\ f.op = "event" /\ p # <<>> /\ f.rest # <<>>
      /\ UNCHANGED <<calls, scope, tls, live, ext, writer, out>>
      /\ SetTop(t, PushingFrom(f, q, w))
  BY DEF PushSpan, PushingFrom, SpanFieldsOf
<1>2. /\ f \in Frame /\ FrameOK(f, calls[i], BufferOf(tls[t], f), SpanCalls)
  BY <1>1, TopCall
<1>3. /\ f.todo = <<>> /\ Headed(i, fs, p) /\ Sources(p) \subseteq {i} \cup SpanCalls
  BY <1>1, <1>2 DEF FrameOK
<1>4. p \in Seq(Entry) /\ q \in Seq(Span) /\ s \in Span
  BY <1>1, <1>2, FrameIs, HeadTailProperties
<1>5. i \notin SpanCalls
  BY <1>1, EventIsNoSpan
<1>6. ext[s] \in Seq(SpanEntry) /\ OfSpans(ext[s], SpanCalls)
  BY <1>4 DEF EventInv, EventTypeOK, ExtInv, OfSpans, SpanEntry
<1>7. m \in Seq(Entry) /\ Foreign(i, fs, m) /\ Sources(m) \subseteq SpanCalls
  <2> DEFINE x == ext[s]
             sc == SpanCalls
  <2>1. x \in Seq(SpanEntry) /\ OfSpans(x, sc) /\ i \notin sc
    BY <1>5, <1>6
  <2> HIDE DEF x, sc, i, fs
  <2> QED
    BY <2>1, SpanFieldsAre DEF x, sc
<1>8. w \in Seq(Entry) /\ Headed(i, fs, w) /\ Sources(w) \subseteq {i} \cup SpanCalls
  <2> HIDE DEF m, p, i, fs
  <2> QED
    BY <1>1, <1>3, <1>4, <1>7, HeadedStays
<1> HIDE DEF w, q
<1> DEFINE g == PushingFrom(f, q, w)
<1>9. SetTop(t, g) /\ (g = PushingFrom(f, q, w) \/ (g = Pushing(f, w) /\ q = f.rest))
  BY <1>1
<1> HIDE DEF g
<1>10. /\ stack[t] # <<>> /\ f.op = "event" /\ f.todo = <<>> /\ q \in Seq(Span) /\ w \in Seq(Entry)
       /\ Headed(i, fs, w) /\ Sources(w) \subseteq {i} \cup SpanCalls
       /\ UNCHANGED <<calls, scope, tls, live, ext, writer, out>>
  BY <1>1, <1>3, <1>4, <1>8
<1> QED
  BY <1>9, <1>10, PushingKeeps
LEMMA OwnNumbersAre ==
  ASSUME NEW fs, Len(fs) \in Nat, DOMAIN fs = 1..Len(fs)
  PROVE  /\ OwnNumbers(fs) = {0} \cup LastMessages(fs, Len(fs)) \cup Others(fs, Len(fs))
         /\ 1 \notin LastMessages(fs, Len(fs)) /\ 1 \notin Others(fs, Len(fs))
<1> DEFINE n == Len(fs)
<1>1. 1 \notin LastMessages(fs, n)
  BY DEF LastMessages
<1>2. 1 \notin Others(fs, n)
  BY DEF Others
<1>3. OwnNumbers(fs) =
        {0} \cup {k + 1 : k \in {j \in 1..n :
          IsMessage(fs[j]) => \A m \in j + 1..n : ~IsMessage(fs[m])}}
  BY DEF OwnNumbers
<1>4. {k + 1 : k \in {j \in 1..n : IsMessage(fs[j]) => \A m \in j + 1..n : ~IsMessage(fs[m])}}
        = LastMessages(fs, n) \cup Others(fs, n)
  <2> HIDE DEF n
  <2> QED
    BY DEF LastMessages, Others
<1> HIDE DEF n
<1> QED
  BY <1>1, <1>2, <1>3, <1>4 DEF n

LEMMA FieldsAre ==
  ASSUME NEW i \in Call, NEW v \in Nat, NEW fs, NEW b \in Visitor, Filled(i, fs, v, b)
  PROVE  /\ b.fields \in Seq(Entry) /\ Numbers(i, b.fields) = Others(fs, v)
         /\ Sources(b.fields) \subseteq {i} /\ InOrder(i, fs, b.fields)
<1> DEFINE q == b.fields
<1>1. q \in Seq(Entry)
  BY DEF Visitor
<1>2. /\ {q[j].val.no : j \in DOMAIN q} = Others(fs, v)
      /\ \A j \in DOMAIN q : q[j].val.of = i
      /\ \A j, k \in DOMAIN q : j < k => q[j].val.no < q[k].val.no
  BY DEF Filled
<1> HIDE DEF q
<1>3. OwnAt(i, q) = DOMAIN q
  BY <1>2 DEF OwnAt
<1>4. Numbers(i, q) = Others(fs, v)
  BY <1>2, <1>3 DEF Numbers
<1>5. Sources(q) \subseteq {i}
  BY <1>2 DEF Sources
<1>6. \A j \in DOMAIN q : Rank(fs, q[j].val.no) = q[j].val.no + 1 /\ q[j].val.no \in Nat
  <2> SUFFICES ASSUME NEW j \in DOMAIN q
               PROVE  Rank(fs, q[j].val.no) = q[j].val.no + 1 /\ q[j].val.no \in Nat
    OBVIOUS
  <2>1. q[j].val.no \in Others(fs, v)
    BY <1>2
  <2>2. /\ q[j].val.no \in Nat /\ q[j].val.no >= 2 /\ ~IsMessage(fs[q[j].val.no - 1])
    BY <2>1, OthersBound
  <2> QED
    BY <2>2 DEF Rank
<1>7. InOrder(i, fs, q)
  BY <1>2, <1>3, <1>6 DEF InOrder
<1> QED
  BY <1>1, <1>4, <1>5, <1>7 DEF q

(* The span path, if there is one, and the fields of the event.            *)
PathOf(i, path) == path = <<>> \/ path = <<[key |-> PathKey, val |-> [of |-> i, no |-> 1]]>>

(* What event i with the fields fs pushes last.                            *)
Follows(i, fs, m) ==
  /\ m \in Seq(Entry) /\ InOrder(i, fs, m) /\ Sources(m) \subseteq {i}
  /\ Numbers(i, m) \ {1} = Others(fs, Len(fs)) \ {1}
  /\ \A x \in Numbers(i, m) : Rank(fs, x) >= 2
  /\ \A j \in DOMAIN m : m[j].val.no = 1 => j = 1 /\ m[j].key = PathKey

LEMMA RestIs ==
  ASSUME NEW i \in Call, NEW fs, Len(fs) \in Nat, NEW b \in Visitor,
         Filled(i, fs, Len(fs), b), NEW path, PathOf(i, path)
  PROVE  Follows(i, fs, path \o b.fields)
<1> DEFINE q == b.fields
           m == path \o q
           n == Len(fs)
<1>1. /\ q \in Seq(Entry) /\ Numbers(i, q) = Others(fs, n)
      /\ Sources(q) \subseteq {i} /\ InOrder(i, fs, q)
  BY FieldsAre
<1>2. /\ path \in Seq(Entry) /\ Sources(path) \subseteq {i} /\ InOrder(i, fs, path)
      /\ Numbers(i, path) \subseteq {1} /\ Len(path) \in {0, 1}
      /\ Len(path) = 1 => path[1].key = PathKey
  <2> DEFINE z == <<>>
             a == <<[key |-> PathKey, val |-> [of |-> i, no |-> 1]]>>
  <2>1. /\ z \in Seq(Entry) /\ Len(z) = 0
        /\ Numbers(i, z) = {} /\ Sources(z) = {} /\ InOrder(i, fs, z)
    BY NoEntry
  <2>2. /\ a \in Seq(Entry) /\ Len(a) = 1 /\ a[1].key = PathKey
        /\ Numbers(i, a) = {1} /\ Sources(a) = {i} /\ InOrder(i, fs, a)
    BY LayerKeys, OneEntry
  <2>3. path = z \/ path = a
    BY DEF PathOf
  <2> HIDE DEF z, a
  <2>4. CASE path = z
    BY <2>1, <2>4
  <2>5. CASE path = a
    BY <2>2, <2>5
  <2> QED
    BY <2>3, <2>4, <2>5
<1>3. \A x \in Others(fs, n) : x \in Nat /\ x >= 2 /\ Rank(fs, x) = x + 1
  <2> SUFFICES ASSUME NEW x \in Others(fs, n) PROVE x \in Nat /\ x >= 2 /\ Rank(fs, x) = x + 1
    OBVIOUS
  <2>1. x \in Nat /\ x >= 2 /\ ~IsMessage(fs[x - 1])
    BY OthersBound
  <2> QED
    BY <2>1 DEF Rank
<1>4. Rank(fs, 1) = 2
  BY DEF Rank
<1>5. \A j \in DOMAIN q : q[j].val.no \in Others(fs, n)
  BY DEF Filled
<1> HIDE DEF q, n
<1>6. m \in Seq(Entry) /\ Joins(m, path, q)
  BY <1>1, <1>2, ConcatJoins
<1>7. InOrder(i, fs, m)
  <2>1. Before(fs, Numbers(i, path), Numbers(i, q))
    BY <1>1, <1>2, <1>3, <1>4 DEF Before
  <2>2. InOrder(i, fs, path) /\ InOrder(i, fs, q) /\ path \in Seq(Entry) /\ q \in Seq(Entry)
    BY <1>1, <1>2
  <2> HIDE DEF m
  <2> QED
    BY <1>6, <2>1, <2>2, JoinInOrder
<1>8. Numbers(i, m) = Numbers(i, path) \cup Numbers(i, q)
  <2>1. path \in Seq(Entry) /\ q \in Seq(Entry)
    BY <1>1, <1>2
  <2> HIDE DEF m
  <2> QED
    BY <1>6, <2>1, JoinNumbers
<1>9. Sources(m) \subseteq {i}
  <2>1. path \in Seq(Entry) /\ q \in Seq(Entry)
    BY <1>1, <1>2
  <2> HIDE DEF m
  <2>2. Sources(m) = Sources(path) \cup Sources(q)
    BY <1>6, <2>1, JoinSources
  <2> QED
    BY <1>1, <1>2, <2>2
<1>10. ASSUME NEW j \in DOMAIN m, m[j].val.no = 1 PROVE j = 1 /\ m[j].key = PathKey
  <2> DEFINE k == Len(path)
             l == Len(q)
  <2>1. /\ k \in Nat /\ l \in Nat /\ DOMAIN q = 1..l /\ DOMAIN m = 1..k + l
        /\ \A x \in 1..k : m[x] = path[x]
    <3>1. path \in Seq(Entry) /\ q \in Seq(Entry)
      BY <1>1, <1>2
    <3>2. k \in Nat /\ l \in Nat /\ DOMAIN q = 1..l
      BY <3>1, LenProperties
    <3>3. DOMAIN m = 1..k + l
      BY <1>6 DEF Joins
    <3>4. \A x \in 1..k : m[x] = path[x]
      BY <3>1, ConcatProperties
    <3> QED
      BY <3>2, <3>3, <3>4
  <2> HIDE DEF m
  <2>2. \A x \in 1..k + l : \/ x \in 1..k
                            \/ x - k \in 1..l /\ m[x].val = q[x - k].val
    <3>1. path \in Seq(Entry) /\ q \in Seq(Entry)
      BY <1>1, <1>2
    <3> QED
      BY <1>6, <3>1, JoinParts
  <2>3. k \in {0, 1} /\ (k = 1 => path[1].key = PathKey)
    BY <1>2
  <2> HIDE DEF k, l
  <2>4. CASE j \in 1..k
    BY <2>1, <2>3, <2>4
  <2>5. CASE j - k \in 1..l /\ m[j].val = q[j - k].val
    BY <1>3, <1>5, <1>10, <2>1, <2>5
  <2> QED
    BY <2>1, <2>2, <2>4, <2>5
<1>11. Numbers(i, m) \ {1} = Others(fs, n) \ {1}
  <2> HIDE DEF m
  <2> QED
    BY <1>1, <1>2, <1>8
<1>12. \A x \in Numbers(i, m) : Rank(fs, x) >= 2
  <2> HIDE DEF m
  <2>1. \A x \in Numbers(i, m) : x = 1 \/ x \in Others(fs, n)
    BY <1>11
  <2> QED
    BY <1>3, <1>4, <2>1
<1> HIDE DEF m
<1>13. Follows(i, fs, m)
  BY <1>6, <1>7, <1>9, <1>10, <1>11, <1>12 DEF n, Follows
<1> QED
  BY <1>13 DEF m, q
(* The record that is enqueued.                                            *)
LEMMA RecordIsWhole ==
  ASSUME NEW i \in Call, NEW fs, Len(fs) \in Nat, DOMAIN fs = 1..Len(fs),
         NEW b \in Visitor, Filled(i, fs, Len(fs), b),
         NEW path, PathOf(i, path),
         NEW p \in Seq(Entry), p # <<>>, Headed(i, fs, p)
  PROVE  LET r == PushAll(p, path \o b.fields)
         IN  /\ r \in Seq(Entry) /\ Whole(i, fs, r)
             /\ Sources(r) \subseteq Sources(p) \cup {i}
<1> DEFINE m == path \o b.fields
           r == PushAll(p, m)
           n == Len(p)
           k == Len(m)
           N == Len(fs)
<1>1. /\ m \in Seq(Entry) /\ InOrder(i, fs, m) /\ Sources(m) \subseteq {i}
      /\ Numbers(i, m) \ {1} = Others(fs, N) \ {1}
      /\ \A x \in Numbers(i, m) : Rank(fs, x) >= 2
      /\ \A j \in DOMAIN m : m[j].val.no = 1 => j = 1 /\ m[j].key = PathKey
  <2>1. Follows(i, fs, m)
    BY RestIs
  <2> HIDE DEF m
  <2> QED
    BY <2>1 DEF Follows
<1>2. /\ OwnNumbers(fs) = {0} \cup LastMessages(fs, N) \cup Others(fs, N)
      /\ 1 \notin LastMessages(fs, N) /\ 1 \notin Others(fs, N)
  BY OwnNumbersAre
<1>3. KeysApart(p) /\ InOrder(i, fs, p) /\ Numbers(i, p) = {0} \cup LastMessages(fs, N)
  BY DEF Headed
<1>4. \A x \in {0} \cup LastMessages(fs, N) : Rank(fs, x) \in {0, 1} /\ x # 1
  <2>1. Rank(fs, 0) = 0
    BY DEF Rank
  <2>2. ASSUME NEW x \in LastMessages(fs, N) PROVE Rank(fs, x) = 1 /\ x # 1
    <3>1. x \in Nat /\ x >= 2 /\ IsMessage(fs[x - 1])
      BY MessagesBound
    <3> QED
      BY <3>1 DEF Rank
  <2> QED
    BY <2>1, <2>2
<1> HIDE DEF m, N
<1>5. Extends(r, p, m, k)
  BY <1>1, <1>3, PushAllExtends
<1>6. Joins(r, p, m)
  BY <1>1, <1>5, ExtendsJoins
<1> HIDE DEF r
<1>7. Numbers(i, r) = Numbers(i, p) \cup Numbers(i, m)
  BY <1>1, <1>6, JoinNumbers
<1>8. Sources(r) \subseteq Sources(p) \cup {i}
  <2>1. Sources(r) = Sources(p) \cup Sources(m)
    BY <1>1, <1>6, JoinSources
  <2> QED
    BY <1>1, <2>1
<1>9. InOrder(i, fs, r)
  <2>1. Before(fs, Numbers(i, p), Numbers(i, m))
    <3> SUFFICES ASSUME NEW x \in Numbers(i, p), NEW y \in Numbers(i, m)
                 PROVE  Rank(fs, x) < Rank(fs, y)
      BY DEF Before
    <3>1. Rank(fs, x) \in {0, 1}
      BY <1>3, <1>4
    <3>2. Rank(fs, y) >= 2 /\ (y = 1 \/ y \in Others(fs, N))
      BY <1>1
    <3>3. Rank(fs, 1) = 2
      BY DEF Rank
    <3>4. ASSUME y \in Others(fs, N) PROVE Rank(fs, y) \in Nat
      <4>1. y \in Nat /\ y >= 2 /\ ~IsMessage(fs[y - 1])
        BY <3>4, OthersBound DEF N
      <4> QED
        BY <4>1 DEF Rank
    <3> QED
      BY <3>1, <3>2, <3>3, <3>4
  <2> QED
    BY <1>1, <1>3, <1>6, <2>1, JoinInOrder
<1>10. Numbers(i, r) \ {1} = OwnNumbers(fs)
  <2>1. 1 \notin OwnNumbers(fs)
    BY <1>2
  <2>2. \A x \in Numbers(i, r) : x # 1 => x \in OwnNumbers(fs)
    BY <1>1, <1>2, <1>3, <1>7
  <2>3. \A x \in OwnNumbers(fs) : x \in Numbers(i, r)
    BY <1>1, <1>2, <1>3, <1>7
  <2> QED
    BY <2>1, <2>2, <2>3
<1>11. n \in Nat /\ n >= 1 /\ k \in Nat
  BY <1>1, LenProperties, EmptySeq
<1>12. DOMAIN p = 1..n /\ DOMAIN m = 1..k
  BY <1>1, LenProperties
<1>13. /\ r \in Seq(Entry) /\ KeysApart(r) /\ Len(r) = n + k
       /\ \A j \in 1..n : r[j] = p[j]
       /\ \A j \in 1..k : r[n + j].val = m[j].val
       /\ k # 0 /\ m[1].key \notin KeysIn(p) => r[n + 1].key = m[1].key
  BY <1>5 DEF Extends
<1>14. DOMAIN r = 1..n + k
  BY <1>13, LenProperties
<1>15. /\ \A j \in 1..n : NotPath(p[j].key)
       /\ p[1].key = LevelKey
  BY <1>12 DEF Headed
<1>16. \A j \in 1..n : p[j].val.of = i => p[j].val.no # 1
  <2> SUFFICES ASSUME NEW j \in 1..n, p[j].val.of = i PROVE p[j].val.no # 1
    OBVIOUS
  <2>1. p[j].val.no \in Numbers(i, p)
    BY <1>12 DEF Numbers, OwnAt
  <2> QED
    BY <1>3, <1>4, <2>1
<1> HIDE DEF n, k
<1>17. r[1].key = LevelKey
  <2>1. 1 \in 1..n
    BY <1>11
  <2>2. r[1] = p[1] /\ p[1].key = LevelKey
    BY <1>13, <1>15, <2>1
  <2> QED
    BY <2>2
<1>18. ASSUME NEW j \in OwnAt(i, r), r[j].val.no = 1 PROVE r[j].key = PathKey
  <2>1. j \in 1..n + k /\ r[j].val.of = i
    BY <1>14 DEF OwnAt
  <2>2. j \notin 1..n
    BY <1>13, <1>16, <1>18, <2>1
  <2>3. j - n \in 1..k /\ n + (j - n) = j
    BY <1>11, <2>1, <2>2
  <2>4. m[j - n].val.no = 1
    BY <1>13, <1>18, <2>3
  <2>5. j - n = 1 /\ m[1].key = PathKey
    BY <1>1, <1>12, <2>3, <2>4
  <2>6. PathKey \notin KeysIn(p)
    <3>1. ~NotPath(PathKey)
      BY LayerKeys
    <3> QED
      BY <1>12, <1>15, <3>1 DEF KeysIn
  <2>7. k # 0 /\ n + 1 = j
    BY <1>11, <2>1, <2>3, <2>5
  <2> QED
    BY <1>13, <2>5, <2>6, <2>7
<1>19. Whole(i, fs, r)
  BY <1>9, <1>10, <1>13, <1>17, <1>18 DEF Whole
<1> QED
  BY <1>8, <1>13, <1>19 DEF r, m

LEMMA EnqueueKeeps ==
  ASSUME EventInv, NEW t \in Thread, Enqueue(t)
  PROVE  EventInv'
<1> DEFINE f == Top(t)
           i == f.id
           fs == calls[i].fields
           b == BufferOf(tls[t], f)
           path == IF scope[t] = <<>> THEN <<>> ELSE Own(f, PathKey, 1)
           r == PushAll(f.pushed, path \o b.fields)
<1>1. /\ f \in Frame /\ i \in DOMAIN calls /\ i \in Call /\ fs \in Seq(Field)
      /\ b \in Visitor /\ b = Buffer(t) /\ FrameOK(f, calls[i], b, SpanCalls)
      /\ stack[t] # <<>>
  BY TopCall DEF Enqueue
<1>2. /\ f.op = "event" /\ f.pushed # <<>> /\ Pop(t)
      /\ UNCHANGED <<calls, scope, tls, live, ext, writer>>
      /\ out' = [out EXCEPT ![i] = r]
  BY <1>1 DEF Enqueue
<1>3. PathOf(i, path)
  BY DEF PathOf, Own
<1>4. /\ f.todo = <<>> /\ Headed(i, fs, f.pushed)
      /\ Sources(f.pushed) \subseteq {i} \cup SpanCalls
  BY <1>1, <1>2 DEF FrameOK
<1>5. Len(fs) \in Nat /\ DOMAIN fs = 1..Len(fs) /\ Filled(i, fs, Len(fs), b)
  <2>1. Len(fs) \in Nat /\ DOMAIN fs = 1..Len(fs) /\ Len(f.todo) = 0 /\ Len(fs) - 0 = Len(fs)
    BY <1>1, <1>4, LenProperties
  <2> QED
    BY <1>1, <1>2, <2>1 DEF FrameOK
<1>6. f.pushed \in Seq(Entry)
  BY <1>1, FrameIs
<1>7. r \in Seq(Entry) /\ Whole(i, fs, r) /\ Sources(r) \subseteq {i} \cup SpanCalls
  <2> DEFINE p == f.pushed
  <2> HIDE DEF path, b, i, fs, p
  <2>1. r \in Seq(Entry) /\ Whole(i, fs, r) /\ Sources(r) \subseteq Sources(p) \cup {i}
    BY <1>1, <1>2, <1>3, <1>4, <1>5, <1>6, RecordIsWhole DEF p
  <2> QED
    BY <1>4, <2>1 DEF p
<1> HIDE DEF r
<1>8. out \in [Call -> Seq(Entry)]
  BY DEF EventInv, EventTypeOK
<1>9. out' \in [Call -> Seq(Entry)] /\ out'[i] = r /\ \A j \in Call : j # i => out'[j] = out[j]
  BY <1>1, <1>2, <1>7, <1>8
<1>10. SpanCalls' = SpanCalls
  BY <1>2 DEF SpanCalls
<1>11. OutInv'
  <2> SUFFICES ASSUME NEW j \in Call, out'[j] # <<>>
               PROVE  /\ j \in DOMAIN calls
                      /\ Whole(j, calls[j].fields, out'[j])
                      /\ Sources(out'[j]) \subseteq {j} \cup SpanCalls
    BY <1>2, <1>10 DEF OutInv
  <2>1. CASE j = i
    BY <1>1, <1>7, <1>9, <2>1
  <2>2. CASE j # i
    BY <1>9, <2>2 DEF EventInv, OutInv
  <2> QED
    BY <2>1, <2>2
<1>12. FramesInv' /\ OneTls' /\ stack' \in [Thread -> Seq(Frame)]
  BY <1>1, <1>2, PopKeeps
<1>13. EventTypeOK'
  BY <1>2, <1>9, <1>12 DEF EventInv, EventTypeOK
<1>14. Continues(calls, calls')
  BY <1>2 DEF Continues
<1> QED
  BY <1>2, <1>11, <1>12, <1>13, <1>14, ExtStays DEF EventInv

-----------------------------------------------------------------------------

LEMMA InitEventInv == EventInit => EventInv
<1> SUFFICES ASSUME EventInit PROVE EventInv
  OBVIOUS
<1>1. calls = <<>> /\ DOMAIN calls = {}
  BY DEF EventInit
<1>2. Empty \in Visitor
  BY EmptyBuffer
<1>3. \A t \in Thread : stack[t] = <<>> /\ DOMAIN stack[t] = {}
  BY DEF EventInit
<1>4. \A s \in Span : ext[s] = <<>> /\ DOMAIN ext[s] = {}
  BY DEF EventInit
<1>5. EventTypeOK
  <2>1. Len(calls) <= MaxCalls /\ calls \in Seq(CallOf)
    <3>1. Len(<<>>) = 0 /\ <<>> \in Seq(CallOf)
      OBVIOUS
    <3>2. MaxCalls \in Nat
      BY EventAssumption
    <3> QED
      BY <1>1, <3>1, <3>2
  <2>2. stack \in [Thread -> Seq(Frame)] /\ scope \in [Thread -> Scopes \cup {<<>>}]
        /\ tls \in [Thread -> Visitor] /\ live \subseteq Span
    BY <1>2 DEF EventInit
  <2>3. ext \in [Span -> Seq(SpanEntry)] /\ writer \in [Span -> SUBSET Call]
        /\ out \in [Call -> Seq(Entry)]
    BY DEF EventInit
  <2> QED
    BY <1>4, <2>1, <2>2, <2>3 DEF EventTypeOK, CallOf, SpanEntry
<1>6. FramesInv /\ OneTls
  BY <1>3 DEF FramesInv, OneTls
<1>7. ExtInv
  BY <1>4 DEF ExtInv
<1>8. OutInv
  BY DEF EventInit, OutInv
<1> QED
  BY <1>5, <1>6, <1>7, <1>8 DEF EventInv

LEMMA EventStays ==
  ASSUME EventInv, UNCHANGED spanVars
  PROVE  EventInv'
<1>1. UNCHANGED <<calls, stack, scope, tls, live, ext, writer, out>> /\ Continues(calls, calls')
  BY DEF spanVars, Continues
<1> QED
  BY <1>1, FramesStay, ExtStays, OutStays DEF EventInv, EventTypeOK

LEMMA NextEventInv == EventInv /\ [EventNext]_spanVars => EventInv'
<1> SUFFICES ASSUME EventInv, [EventNext]_spanVars PROVE EventInv'
  OBVIOUS
<1>1. ASSUME NEW t \in Thread, OnEvent(t) \/ OnNewSpan(t) \/ OnRecord(t) PROVE EventInv'
  BY <1>1, OnEventKeeps, OnSpanKeeps
<1>2. ASSUME NEW t \in Thread, LayerStep(t) PROVE EventInv'
  <2>1. CASE LockSpan(t)
    BY <2>1, LockSpanKeeps
  <2>2. CASE VisitField(t)
    BY <2>2, VisitEventKeeps, VisitSpanKeeps DEF VisitField
  <2>3. CASE EndSpan(t)
    BY <2>3, EndSpanKeeps
  <2>4. CASE PushHeader(t)
    BY <2>4, PushHeaderKeeps
  <2>5. CASE PushSpan(t)
    BY <2>5, PushSpanKeeps
  <2>6. CASE Enqueue(t)
    BY <2>6, EnqueueKeeps
  <2> QED
    BY <1>2, <2>1, <2>2, <2>3, <2>4, <2>5, <2>6 DEF LayerStep
<1>3. ASSUME NEW s \in Span, OnClose(s) PROVE EventInv'
  BY <1>3, OnCloseKeeps
<1>4. CASE CallsDone \/ UNCHANGED spanVars
  BY <1>4, EventStays DEF CallsDone
<1> QED
  BY <1>1, <1>2, <1>3, <1>4 DEF EventNext

(* The state of the layer is what it is meant to be: in particular, a span *)
(* has each name once, and the numbers of a value name its call.           *)
THEOREM LayerTyped == EventSpec => []EventTypeOK
<1>1. EventInv => EventTypeOK
  BY DEF EventInv
<1> QED
  BY InitEventInv, NextEventInv, <1>1, PTL DEF EventSpec

(* A record holds the values of its own event, all of them, each once and  *)
(* in order, and beside them only values of spans (dispatch_event and the  *)
(* buffers of the threads), under keys that differ.                        *)
THEOREM RecordsAreOwn == EventSpec => []RecordIsOwn
BY InitEventInv, NextEventInv, OutIsOwn, PTL DEF EventSpec
=============================================================================
