--------------------------- MODULE InductionLemmas --------------------------
(***************************************************************************)
(* Induction on the natural numbers, stated for a set instead of an        *)
(* operator, and what follows from it for functions that are defined by    *)
(* recursion and for folds over a sequence.  The lemmas are cited where    *)
(* data of any length is computed: the bytes of a batch, the keys of a     *)
(* record.                                                                 *)
(***************************************************************************)
EXTENDS Integers, SequencesExt, SequenceTheorems, WellFoundedInduction, TLAPS

LEMMA LeastNatural ==
  ASSUME NEW T \in SUBSET Nat, T # {}
  PROVE  \E m \in T : \A x \in T : m <= x
<1> DEFINE R == OpToRel(<, Nat)
<1>1. IsWellFoundedOn(R, Nat)
  BY NatLessThanWellFounded
<1>2. \A a, b \in Nat : a < b => <<a, b>> \in R
  BY DEF OpToRel
<1> HIDE DEF R
<1>3. PICK m \in T : \A x \in T : ~ (<<x, m>> \in R)
  BY <1>1, WFMin
<1>4. \A x \in T : ~ (x < m)
  BY <1>2, <1>3
<1> QED
  BY <1>4

LEMMA NatSetInduction ==
  ASSUME NEW S, 0 \in S, \A n \in Nat : n \in S => n + 1 \in S
  PROVE  Nat \subseteq S
<1> DEFINE T == Nat \ S
<1> SUFFICES ASSUME T # {} PROVE FALSE
  OBVIOUS
<1>1. PICK m \in T : \A x \in T : m <= x
  BY LeastNatural
<1>2. m - 1 \in Nat /\ m = (m - 1) + 1 /\ ~ (m <= m - 1)
  OBVIOUS
<1>3. m - 1 \notin T
  BY <1>1, <1>2
<1> QED
  BY <1>2, <1>3

(* Induction up to a bound.                                                *)
LEMMA UpToInduction ==
  ASSUME NEW n \in Nat, NEW S, 0 \in S, \A k \in 0..(n - 1) : k \in S => k + 1 \in S
  PROVE  0..n \subseteq S
<1> DEFINE T == S \cup {k \in Nat : k > n}
<1>1. 0 \in T /\ \A k \in Nat : k \in T => k + 1 \in T
  OBVIOUS
<1> HIDE DEF T
<1>2. Nat \subseteq T
  BY <1>1, NatSetInduction
<1> QED
  BY <1>2 DEF T

(* A set of naturals with a bound has a greatest element, and Max is it.   *)
LEMMA MaxIs ==
  ASSUME NEW S \in SUBSET Int, NEW m \in S, \A x \in S : x <= m
  PROVE  Max(S) = m
<1>1. Max(S) \in S /\ \A y \in S : Max(S) >= y
  BY DEF Max
<1> DEFINE x == Max(S)
<1>2. x \in Int /\ m \in Int /\ x >= m /\ x <= m
  BY <1>1
<1> HIDE DEF x
<1>3. x = m
  BY <1>2
<1> QED
  BY <1>3 DEF x

LEMMA GreatestNatural ==
  ASSUME NEW n \in Nat, NEW S \in SUBSET (0..n), S # {}
  PROVE  Max(S) \in S /\ \A x \in S : x <= Max(S)
<1> DEFINE T == {n - x : x \in S}
<1>1. T \in SUBSET Nat /\ T # {}
  <2>1. \A x \in S : n - x \in Nat
    OBVIOUS
  <2> QED
    BY <2>1
<1> HIDE DEF T
<1>2. PICK m \in T : \A x \in T : m <= x
  BY <1>1, LeastNatural
<1>3. PICK g \in S : m = n - g
  BY DEF T
<1>4. ASSUME NEW x \in S PROVE x <= g
  <2>1. n - x \in T /\ x \in Int /\ g \in Int
    BY DEF T
  <2>2. n - g <= n - x
    BY <1>2, <1>3, <2>1
  <2> QED
    BY <2>1, <2>2
<1> QED
  BY <1>4, MaxIs

LEMMA IntervalMax ==
  ASSUME NEW n \in Nat, NEW k \in 1..n
  PROVE  /\ Max(1..k) = k /\ (1..k) \ {k} = 1..(k - 1)
         /\ 1..k # {} /\ 1..k \in SUBSET (1..n)
<1>1. 1..k \in SUBSET Int /\ k \in 1..k /\ \A x \in 1..k : x <= k
  OBVIOUS
<1>2. Max(1..k) = k
  BY <1>1, MaxIs
<1> QED
  BY <1>2

(* Two functions that begin alike and go on alike are alike.               *)
LEMMA SameSteps ==
  ASSUME NEW n \in Nat, NEW f, NEW h, f[0] = h[0],
         \A k \in 1..n : f[k - 1] = h[k - 1] => f[k] = h[k]
  PROVE  f[n] = h[n]
<1> DEFINE S == {k \in 0..n : f[k] = h[k]}
<1>1. 0 \in S
  OBVIOUS
<1>2. ASSUME NEW k \in 0..(n - 1), k \in S PROVE k + 1 \in S
  <2>1. k + 1 \in 1..n /\ k + 1 \in 0..n /\ (k + 1) - 1 = k
    OBVIOUS
  <2> QED
    BY <1>2, <2>1
<1> HIDE DEF S
<1>3. 0..n \subseteq S
  BY <1>1, <1>2, UpToInduction
<1> QED
  BY <1>3 DEF S

(* A function that is defined by recursion on 0..n exists.                 *)
IsRecursion(f, n, base, step) ==
  f = [k \in 0..n |-> IF k = 0 THEN base ELSE step[k][f[k - 1]]]

LEMMA RecursionExists ==
  ASSUME NEW n \in Nat, NEW X, NEW base \in X, NEW step \in [1..n -> [X -> X]]
  PROVE  \E f \in [0..n -> X] : IsRecursion(f, n, base, step)
<1> USE DEF IsRecursion
<1> DEFINE Good(f, k) == f[0] = base /\ \A j \in 1..k : f[j] = step[j][f[j - 1]]
           S == {k \in 0..n : \E f \in [0..k -> X] : Good(f, k)}
<1>1. 0 \in S
  <2> DEFINE f == [k \in 0..0 |-> base]
  <2>1. f \in [0..0 -> X] /\ Good(f, 0)
    OBVIOUS
  <2> HIDE DEF f
  <2>2. 0 \in 0..n
    OBVIOUS
  <2> QED
    BY <2>1, <2>2
<1>2. ASSUME NEW k \in 0..(n - 1), k \in S PROVE k + 1 \in S
  <2>1. PICK f \in [0..k -> X] : Good(f, k)
    BY <1>2
  <2> DEFINE g == [j \in 0..(k + 1) |-> IF j = k + 1 THEN step[k + 1][f[k]] ELSE f[j]]
  <2>2. k + 1 \in 1..n /\ k \in 0..k /\ f[k] \in X /\ step[k + 1] \in [X -> X]
    OBVIOUS
  <2>3. g \in [0..(k + 1) -> X]
    BY <2>2
  <2>4. g[0] = base
    BY <2>1
  <2>5. ASSUME NEW j \in 1..(k + 1) PROVE g[j] = step[j][g[j - 1]]
    BY <2>1, <2>5
  <2>6. k + 1 \in 0..n
    OBVIOUS
  <2> HIDE DEF g
  <2> QED
    BY <2>3, <2>4, <2>5, <2>6
<1> HIDE DEF S
<1>3. n \in S
  <2>1. 0..n \subseteq S
    BY <1>1, <1>2, UpToInduction
  <2> QED
    BY <2>1
<1>4. PICK f \in [0..n -> X] : Good(f, n)
  BY <1>3 DEF S
<1>5. f = [k \in 0..n |-> IF k = 0 THEN base ELSE step[k][f[k - 1]]]
  <2>1. \A k \in 0..n : f[k] = IF k = 0 THEN base ELSE step[k][f[k - 1]]
    BY <1>4
  <2> QED
    BY <2>1
<1> QED
  BY <1>5

(* The recursion of a fold from the left, which runs over the sets of      *)
(* indices and takes away the greatest.                                    *)
FoldStep(g, s, base, step) ==
  IF s = {} THEN base ELSE step[Max(s)][g[s \ {Max(s)}]]

IsFold(g, k, base, step) == \A s \in SUBSET (1..k) : g[s] = FoldStep(g, s, base, step)

LEMMA FoldExists ==
  ASSUME NEW n \in Nat, NEW X, NEW base \in X, NEW step \in [1..n -> [X -> X]]
  PROVE  \E g \in [SUBSET (1..n) -> X] : IsFold(g, n, base, step)
<1> USE DEF IsFold
<1> DEFINE Good(g, k) == IsFold(g, k, base, step)
           S == {k \in 0..n : \E g \in [SUBSET (1..k) -> X] : Good(g, k)}
<1>1. 0 \in S
  <2> DEFINE g == [s \in SUBSET (1..0) |-> base]
  <2>1. g \in [SUBSET (1..0) -> X]
    OBVIOUS
  <2>2. \A s \in SUBSET (1..0) : s = {}
    OBVIOUS
  <2>3. Good(g, 0)
    BY <2>2 DEF FoldStep
  <2> HIDE DEF g
  <2>4. 0 \in 0..n
    OBVIOUS
  <2> QED
    BY <2>1, <2>3, <2>4
<1>2. ASSUME NEW k \in 0..(n - 1), k \in S PROVE k + 1 \in S
  <2>1. PICK g \in [SUBSET (1..k) -> X] : Good(g, k)
    BY <1>2
  <2> DEFINE h == [s \in SUBSET (1..(k + 1)) |->
                     IF k + 1 \in s THEN step[k + 1][g[s \ {k + 1}]] ELSE g[s]]
  <2>2. k + 1 \in 1..n /\ step[k + 1] \in [X -> X] /\ k + 1 \in 0..n /\ k \in Nat
    OBVIOUS
  <2>3. \A s \in SUBSET (1..(k + 1)) :
          /\ s \ {k + 1} \in SUBSET (1..k)
          /\ k + 1 \notin s => s \in SUBSET (1..k)
    OBVIOUS
  <2>4. h \in [SUBSET (1..(k + 1)) -> X]
    BY <2>2, <2>3
  <2>5. ASSUME NEW s \in SUBSET (1..(k + 1)) PROVE h[s] = FoldStep(h, s, base, step)
    <3>1. CASE k + 1 \in s
      <4>1. s \in SUBSET Int /\ \A x \in s : x <= k + 1
        OBVIOUS
      <4>2. Max(s) = k + 1 /\ s # {}
        BY <3>1, <4>1, MaxIs
      <4>3. h[s \ {k + 1}] = g[s \ {k + 1}]
        BY <2>3
      <4>4. h[s] = step[k + 1][g[s \ {k + 1}]]
        BY <3>1
      <4> QED
        BY <4>2, <4>3, <4>4 DEF FoldStep
    <3>2. CASE k + 1 \notin s
      <4>1. h[s] = g[s] /\ s \in SUBSET (1..k)
        BY <2>3, <3>2
      <4>2. g[s] = FoldStep(g, s, base, step)
        BY <2>1, <4>1
      <4>3. s # {} => h[s \ {Max(s)}] = g[s \ {Max(s)}]
        <5>1. s \ {Max(s)} \in SUBSET (1..(k + 1)) /\ k + 1 \notin s \ {Max(s)}
          BY <3>2
        <5> QED
          BY <5>1
      <4> HIDE DEF h
      <4> QED
        BY <4>1, <4>2, <4>3 DEF FoldStep
    <3> QED
      BY <3>1, <3>2
  <2> HIDE DEF h
  <2> QED
    BY <2>2, <2>4, <2>5
<1> HIDE DEF S
<1>3. n \in S
  <2>1. 0..n \subseteq S
    BY <1>1, <1>2, UpToInduction
  <2> QED
    BY <2>1
<1> QED
  BY <1>3 DEF S

(* The sum of what w gives each element of a sequence.                     *)
Weight(w, q) == FoldLeft(LAMBDA b, r : b + w[r], 0, q)

(* f is the running sum, and total its last value.                         *)
IsSum(f, w, q, total) ==
  /\ f[0] = 0
  /\ \A k \in 1..Len(q) : f[k] = f[k - 1] + w[q[k]]
  /\ total = f[Len(q)]

LEMMA WeightIsSum ==
  ASSUME NEW R, NEW w \in [R -> Nat], NEW q \in Seq(R)
  PROVE  \E f \in [0..Len(q) -> Nat] : IsSum(f, w, q, Weight(w, q))
<1> DEFINE n == Len(q)
           step == [k \in 1..n |-> [x \in Nat |-> x + w[q[k]]]]
           Folds(g) == g = [s \in SUBSET DOMAIN q |->
                              IF s = {} THEN 0 ELSE g[s \ {Max(s)}] + w[q[Max(s)]]]
<1>1. n \in Nat /\ DOMAIN q = 1..n /\ \A k \in 1..n : w[q[k]] \in Nat
  BY LenProperties, ElementOfSeq
<1>2. step \in [1..n -> [Nat -> Nat]]
  BY <1>1
<1>3. Weight(w, q) = (CHOOSE g : Folds(g))[DOMAIN q]
  BY DEF Weight, FoldLeft, MapThenFoldSet
<1>4. \E g : Folds(g) /\ g \in [SUBSET (1..n) -> Nat]
  <2> HIDE DEF n
  <2>1. PICK g \in [SUBSET (1..n) -> Nat] : IsFold(g, n, 0, step)
    <3> DEFINE X == Nat
    <3>1. n \in Nat /\ 0 \in X /\ step \in [1..n -> [X -> X]]
      BY <1>1, <1>2
    <3> HIDE DEF step, X
    <3>2. \E g \in [SUBSET (1..n) -> X] : IsFold(g, n, 0, step)
      BY <3>1, FoldExists
    <3> QED
      BY <3>2 DEF X
  <2>2. ASSUME NEW s \in SUBSET (1..n), s # {}
        PROVE  step[Max(s)][g[s \ {Max(s)}]] = g[s \ {Max(s)}] + w[q[Max(s)]]
    <3>1. Max(s) \in 1..n
      <4>1. s \in SUBSET (0..n)
        BY <1>1
      <4> QED
        BY <1>1, <2>2, <4>1, GreatestNatural
    <3>2. g[s \ {Max(s)}] \in Nat
      OBVIOUS
    <3> QED
      BY <3>1, <3>2
  <2> HIDE DEF step
  <2>3. g = [s \in SUBSET (1..n) |-> IF s = {} THEN 0 ELSE g[s \ {Max(s)}] + w[q[Max(s)]]]
    BY <2>1, <2>2 DEF FoldStep, IsFold
  <2> QED
    BY <1>1, <2>3
<1> DEFINE g == CHOOSE h : Folds(h)
           f == [k \in 0..n |-> g[1..k]]
<1>5. Folds(g)
  BY <1>4
<1> HIDE DEF g
<1>6. g[1..0] = 0 /\ \A k \in 1..n : g[1..k] = g[1..(k - 1)] + w[q[k]]
  <2>1. g[1..0] = 0
    <3>1. 1..0 = {} /\ {} \in SUBSET (1..n)
      OBVIOUS
    <3> QED
      BY <1>1, <1>5, <3>1
  <2>2. ASSUME NEW k \in 1..n PROVE g[1..k] = g[1..(k - 1)] + w[q[k]]
    <3>1. Max(1..k) = k /\ (1..k) \ {k} = 1..(k - 1) /\ 1..k # {} /\ 1..k \in SUBSET (1..n)
      BY IntervalMax
    <3> QED
      BY <1>1, <1>5, <3>1
  <2> QED
    BY <2>1, <2>2
<1>7. \A k \in 0..n : f[k] \in Nat
  <2> DEFINE S == {k \in 0..n : g[1..k] \in Nat}
  <2>1. 0 \in S
    BY <1>1, <1>6
  <2>2. ASSUME NEW k \in 0..(n - 1), k \in S PROVE k + 1 \in S
    <3>1. k + 1 \in 1..n /\ (k + 1) - 1 = k
      BY <1>1
    <3> QED
      BY <1>1, <1>6, <2>2, <3>1
  <2> HIDE DEF S
  <2>3. 0..n \subseteq S
    BY <1>1, <2>1, <2>2, UpToInduction
  <2> QED
    BY <2>3 DEF S
<1>8. /\ f[0] = 0
      /\ \A k \in 1..n : f[k] = f[k - 1] + w[q[k]]
      /\ Weight(w, q) = f[n]
  <2>1. Weight(w, q) = g[1..n]
    BY <1>1, <1>3 DEF g
  <2>2. \A k \in 1..n : k \in 0..n /\ k - 1 \in 0..n
    BY <1>1
  <2>3. 0 \in 0..n /\ n \in 0..n
    BY <1>1
  <2> QED
    BY <2>1, <2>2, <2>3, <1>6
<1>9. f \in [0..n -> Nat]
  BY <1>7
<1> HIDE DEF f
<1> QED
  BY <1>8, <1>9 DEF IsSum

LEMMA WeightOfEmpty ==
  ASSUME NEW R, NEW w \in [R -> Nat]
  PROVE  Weight(w, <<>>) = 0
<1> DEFINE q == <<>>
<1>1. q \in Seq(R) /\ Len(q) = 0
  OBVIOUS
<1> HIDE DEF q
<1>2. PICK f \in [0..Len(q) -> Nat] : IsSum(f, w, q, Weight(w, q))
  BY <1>1, WeightIsSum
<1> QED
  BY <1>1, <1>2 DEF IsSum, q

LEMMA WeightOfAppend ==
  ASSUME NEW R, NEW w \in [R -> Nat], NEW q \in Seq(R), NEW r \in R
  PROVE  /\ Weight(w, q) \in Nat
         /\ Weight(w, Append(q, r)) = Weight(w, q) + w[r]
<1> DEFINE n == Len(q)
           p == Append(q, r)
<1>1. /\ p \in Seq(R) /\ Len(p) = n + 1 /\ p[n + 1] = r /\ n \in Nat
      /\ \A k \in 1..n : p[k] = q[k]
  BY AppendProperties, LenProperties
<1>2. PICK f \in [0..n -> Nat] : IsSum(f, w, q, Weight(w, q))
  BY WeightIsSum
<1> HIDE DEF p
<1>3. PICK h \in [0..Len(p) -> Nat] : IsSum(h, w, p, Weight(w, p))
  BY <1>1, WeightIsSum
<1> HIDE DEF n
<1> USE DEF IsSum
<1>4. \A k \in 1..n : f[k - 1] = h[k - 1] => f[k] = h[k]
  <2>1. \A k \in 1..n : f[k] = f[k - 1] + w[q[k]]
    BY <1>2 DEF n
  <2>2. \A k \in 1..n : k \in 1..Len(p)
    BY <1>1
  <2> QED
    BY <1>1, <1>3, <2>1, <2>2
<1>5. f[n] = h[n]
  <2>1. f[0] = h[0]
    BY <1>2, <1>3
  <2> QED
    BY <1>1, <1>4, <2>1, SameSteps
<1>6. Len(p) \in 1..Len(p) /\ Len(p) - 1 = n
  BY <1>1
<1>7. h[Len(p)] = h[n] + w[r]
  BY <1>1, <1>3, <1>6
<1>8. f[n] \in Nat /\ Weight(w, q) = f[n] /\ Weight(w, p) = h[Len(p)]
  BY <1>1, <1>2, <1>3 DEF n
<1> QED
  BY <1>5, <1>7, <1>8 DEF p

LEMMA SameWeight ==
  ASSUME NEW R, NEW w \in [R -> Nat], NEW v \in [R -> Nat], NEW q \in Seq(R),
         \A k \in 1..Len(q) : w[q[k]] = v[q[k]]
  PROVE  Weight(w, q) = Weight(v, q)
<1>1. PICK f \in [0..Len(q) -> Nat] : IsSum(f, w, q, Weight(w, q))
  BY WeightIsSum
<1>2. PICK h \in [0..Len(q) -> Nat] : IsSum(h, v, q, Weight(v, q))
  BY WeightIsSum
<1> USE DEF IsSum
<1>3. Len(q) \in Nat
  BY LenProperties
<1>4. \A k \in 1..Len(q) : f[k - 1] = h[k - 1] => f[k] = h[k]
  BY <1>1, <1>2
<1>5. f[Len(q)] = h[Len(q)]
  <2>1. f[0] = h[0]
    BY <1>1, <1>2
  <2> HIDE DEF IsSum
  <2> QED
    BY <1>3, <1>4, <2>1, SameSteps
<1> QED
  BY <1>1, <1>2, <1>5
=============================================================================
