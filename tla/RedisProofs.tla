---------------------------- MODULE RedisProofs -----------------------------
(***************************************************************************)
(* The lock excludes, for any number of objects, attempts and tokens; and  *)
(* what was cached with a ttl goes when the ttl has passed, for any number *)
(* of callers, keys and fields, and any ttl; and what is read of many keys *)
(* is keyed by its own name.                                               *)
(***************************************************************************)
EXTENDS RedLock, Redkit, InductionLemmas, TLAPS

-----------------------------------------------------------------------------
(* RedLock                                                                 *)

(* Each token is in the hands of one object, of one command or of nobody.  *)
TokensApart ==
  \A c, d \in Client : c # d =>
    /\ token[c] # None => token[c] # token[d] /\ token[c] # trying[d]
    /\ trying[c] # None => trying[c] # trying[d]

TokensOut ==
  /\ \A c \in Client : token[c] # None => token[c] \notin sets \cup dels
  /\ sets \cap (dels \cup expired) = {}
  /\ key # None => key \notin sets \cup expired

Trying ==
  /\ \A c \in Client : point[c] \in {"set", "get"} =>
       trying[c] # None /\ trying[c] # token[c] /\ trying[c] \notin dels
  /\ \A c \in Client : point[c] = "held" => token[c] # None

Inv == TypeOK /\ TokensApart /\ TokensOut /\ Trying /\ HolderOwnsKey

LEMMA InitInv == Init => Inv
BY DEF Init, Inv, TypeOK, Point, None, TokensApart, TokensOut, Trying, HolderOwnsKey

(* What dropping an object, and what the end of set_nx, leave behind.      *)
Dropped(c) ==
  /\ token' = [token EXCEPT ![c] = None]
  /\ point' = [point EXCEPT ![c] = "gone"]
  /\ dels' \in {dels, dels \cup ({token[c]} \ {None})}
  /\ abandoned' \subseteq abandoned \cup ({token[c], trying[c]} \ {None})
  /\ UNCHANGED <<key, trying, left, prevent, minted, sets, expired>>

LEMMA DroppedKeeps ==
  ASSUME Inv, NEW c \in Client, Dropped(c)
  PROVE  Inv'
<1> USE DEF Inv, None
<1>1. \A d \in Client :
        /\ token'[d] = IF d = c THEN None ELSE token[d]
        /\ point'[d] = IF d = c THEN "gone" ELSE point[d]
  BY DEF Dropped, TypeOK
<1>2. TypeOK'
  <2>1. dels' \subseteq 1..minted /\ abandoned' \subseteq 1..minted
    BY DEF Dropped, TypeOK
  <2> QED
    BY <2>1 DEF Dropped, TypeOK, Point
<1>3. TokensApart'
  BY <1>1 DEF Dropped, TokensApart
<1>4. TokensOut'
  BY <1>1 DEF Dropped, TokensOut, TokensApart
<1>5. Trying'
  BY <1>1 DEF Dropped, Trying, TokensApart
<1>6. HolderOwnsKey'
  BY <1>1 DEF Dropped, HolderOwnsKey
<1> QED
  BY <1>2, <1>3, <1>4, <1>5, <1>6

(* The token a call of set_nx may end with: the one it has, or the new one *)
(* if Redis holds it.                                                      *)
Settled(c, tok) ==
  /\ point[c] \in {"set", "get"}
  /\ AfterSet(c, tok)
  /\ tok = token[c] \/ (tok = trying[c] /\ key' = trying[c] /\ tok \notin sets')
  /\ sets' \subseteq sets
  /\ key' = key \/ (key = None /\ key' = tok /\ tok = trying[c] /\ tok \in sets)
  /\ abandoned' \subseteq abandoned \cup {trying[c]}
  /\ UNCHANGED <<trying, prevent, minted, dels, expired>>

LEMMA SettledKeeps ==
  ASSUME Inv, NEW c \in Client, NEW tok, Settled(c, tok)
  PROVE  Inv'
<1> USE DEF Inv, None
<1>1. \A d \in Client : token'[d] = IF d = c THEN tok ELSE token[d]
  BY DEF Settled, AfterSet, TypeOK
<1>2. \A d \in Client : d # c => point'[d] = point[d]
  BY DEF Settled, AfterSet, Goto, TypeOK
<1>3. point'[c] \in {"held", "sleep", "gone"} /\ (point'[c] = "held" => tok # None)
  BY DEF Settled, AfterSet, Goto, TypeOK
<1>4. tok \in 0..minted /\ trying[c] \in 1..minted /\ trying[c] \notin dels
  BY DEF Settled, TypeOK, Trying
<1>5. TypeOK'
  <2>1. token' \in [Client -> 0..minted] /\ left' \in [Client -> Nat]
    BY <1>4 DEF Settled, AfterSet, TypeOK
  <2>2. point' \in [Client -> Point]
    BY DEF Settled, AfterSet, Goto, TypeOK, Point
  <2>3. key' \in 0..minted /\ sets' \subseteq 1..minted /\ abandoned' \subseteq 1..minted
    BY <1>4 DEF Settled, TypeOK
  <2> QED
    BY <2>1, <2>2, <2>3 DEF Settled, TypeOK
<1>6. TokensApart'
  BY <1>1, <1>4 DEF Settled, TokensApart
<1>7. TokensOut'
  BY <1>1, <1>4 DEF Settled, TokensOut
<1>8. Trying'
  BY <1>1, <1>2, <1>3 DEF Settled, Trying
<1>9. HolderOwnsKey'
  BY <1>1 DEF Settled, HolderOwnsKey
<1> QED
  BY <1>5, <1>6, <1>7, <1>8, <1>9

LEMMA SendKeeps ==
  ASSUME Inv, NEW c \in Client, SendSet(c), left' \in [Client -> Nat]
  PROVE  Inv'
<1> DEFINE t == minted + 1
<1> USE DEF Inv, None
<1>1. /\ t \in Nat /\ t \notin 0..minted /\ minted' = t /\ 0..minted \subseteq 0..t
      /\ 1..minted \subseteq 1..t /\ t \in 1..t /\ t # 0
  BY DEF SendSet, TypeOK
<1>2. /\ sets' = sets \cup {t}
      /\ \A d \in Client : trying'[d] = IF d = c THEN t ELSE trying[d]
      /\ \A d \in Client : point'[d] = IF d = c THEN "set" ELSE point[d]
      /\ UNCHANGED <<key, token, prevent, dels, expired, abandoned>>
  BY DEF SendSet, Goto, TypeOK
<1>3. /\ trying' = [trying EXCEPT ![c] = t] /\ point' = [point EXCEPT ![c] = "set"]
  BY DEF SendSet, Goto
<1>4. /\ key # t /\ t \notin dels /\ t \notin expired
      /\ \A d \in Client : token[d] # t /\ trying[d] # t
  BY <1>1 DEF TypeOK
<1> HIDE DEF t
<1>5. TypeOK'
  <2>1. trying' \in [Client -> 0..t] /\ token' \in [Client -> 0..t]
    BY <1>1, <1>2, <1>3 DEF TypeOK
  <2>2. point' \in [Client -> Point]
    BY <1>3 DEF TypeOK, Point
  <2> QED
    BY <1>1, <1>2, <2>1, <2>2 DEF TypeOK
<1>6. TokensApart'
  BY <1>1, <1>2, <1>4 DEF TokensApart
<1>7. TokensOut'
  BY <1>2, <1>4 DEF TokensOut
<1>8. Trying'
  BY <1>1, <1>2, <1>4 DEF Trying
<1>9. HolderOwnsKey'
  BY <1>2 DEF HolderOwnsKey
<1> QED
  BY <1>5, <1>6, <1>7, <1>8, <1>9

LEMMA ObjectKeeps ==
  ASSUME Inv, NEW c \in Client,
         \/ Prevent(c) \/ SetFails(c) \/ Release(c) \/ ReleaseReturns(c)
  PROVE  Inv'
<1> USE DEF Inv, None
<1>1. CASE Prevent(c)
  <2>1. TypeOK'
    BY <1>1 DEF Prevent, TypeOK
  <2>2. TokensApart' /\ TokensOut' /\ Trying' /\ HolderOwnsKey'
    BY <1>1 DEF Prevent, TokensApart, TokensOut, Trying, HolderOwnsKey
  <2> QED
    BY <2>1, <2>2
<1>2. CASE SetFails(c) \/ ReleaseReturns(c)
  <2>1. TypeOK'
    BY <1>2 DEF SetFails, ReleaseReturns, Goto, TypeOK, Point
  <2>2. UNCHANGED <<key, token, trying, minted, sets, dels, expired>>
    BY <1>2 DEF SetFails, ReleaseReturns
  <2>3. \A d \in Client :
          /\ point'[d] \in {"set", "get"} => point[d] \in {"set", "get"}
          /\ point'[d] # "held" \/ point[d] = "held"
    BY <1>2 DEF SetFails, ReleaseReturns, Goto, TypeOK
  <2>4. TokensApart' /\ TokensOut' /\ HolderOwnsKey'
    BY <2>2 DEF TokensApart, TokensOut, HolderOwnsKey
  <2>5. Trying'
    BY <2>2, <2>3 DEF Trying
  <2> QED
    BY <2>1, <2>4, <2>5
<1>3. CASE Release(c)
  <2>1. /\ token[c] \in 1..minted /\ point[c] = "held"
        /\ \A d \in Client : token'[d] = IF d = c THEN None ELSE token[d]
        /\ \A d \in Client : d # c => point'[d] = point[d]
        /\ point'[c] \in {"releasing", "free"}
        /\ dels' \in {dels, dels \cup {token[c]}}
        /\ abandoned' \subseteq abandoned \cup {token[c]}
        /\ UNCHANGED <<key, trying, left, prevent, minted, sets, expired>>
    BY <1>3 DEF Release, Goto, TypeOK, Trying
  <2>2. TypeOK'
    <3>1. token' \in [Client -> 0..minted] /\ point' \in [Client -> Point]
      BY <1>3 DEF Release, Goto, TypeOK, Point
    <3>2. dels' \subseteq 1..minted /\ abandoned' \subseteq 1..minted
      BY <2>1 DEF TypeOK
    <3> QED
      BY <2>1, <3>1, <3>2 DEF TypeOK
  <2>3. TokensApart'
    BY <2>1 DEF TokensApart
  <2>4. TokensOut'
    BY <2>1 DEF TokensOut, TokensApart
  <2>5. Trying'
    BY <2>1 DEF Trying, TokensApart
  <2>6. HolderOwnsKey'
    BY <2>1 DEF HolderOwnsKey
  <2> QED
    BY <2>2, <2>3, <2>4, <2>5, <2>6
<1> QED
  BY <1>1, <1>2, <1>3

LEMMA NetworkKeeps ==
  ASSUME Inv, Expire \/ \E t \in 1..minted :
                          LateSet(t) \/ LoseSet(t) \/ RunDel(t) \/ LoseDel(t)
  PROVE  Inv'
<1> USE DEF Inv, None
<1>1. CASE Expire
  BY <1>1 DEF Expire, TypeOK, TokensApart, TokensOut, Trying, HolderOwnsKey
<1>2. ASSUME NEW t \in 1..minted, LateSet(t) \/ LoseSet(t) PROVE Inv'
  <2>1. /\ sets' = sets \ {t} /\ t \in sets
        /\ key' = key \/ (key = None /\ key' = t)
        /\ UNCHANGED <<point, token, trying, left, prevent, minted, dels, expired,
                       abandoned>>
    BY <1>2 DEF LateSet, LoseSet
  <2>2. TypeOK' /\ TokensApart' /\ Trying'
    BY <2>1 DEF TypeOK, TokensApart, Trying
  <2>3. TokensOut' /\ HolderOwnsKey'
    BY <2>1 DEF TokensOut, HolderOwnsKey
  <2> QED
    BY <2>2, <2>3
<1>3. ASSUME NEW t \in 1..minted, RunDel(t) \/ LoseDel(t) PROVE Inv'
  <2>1. /\ dels' = dels \ {t} /\ t \in dels
        /\ key' = key \/ (key = t /\ key' = None)
        /\ abandoned' \subseteq abandoned \cup {t}
        /\ UNCHANGED <<point, token, trying, left, prevent, minted, sets, expired>>
    BY <1>3 DEF RunDel, LoseDel
  <2>2. TypeOK' /\ TokensApart' /\ Trying'
    BY <2>1 DEF TypeOK, TokensApart, Trying
  <2>3. TokensOut' /\ HolderOwnsKey'
    BY <2>1 DEF TokensOut, HolderOwnsKey
  <2> QED
    BY <2>2, <2>3
<1> QED
  BY <1>1, <1>2, <1>3

LEMMA StepKeepsInv == Inv /\ [Next]_vars => Inv'
<1> SUFFICES ASSUME Inv, [Next]_vars PROVE Inv'
  OBVIOUS
<1>1. ASSUME NEW c \in Client, NEW attempts \in 1..MaxAttempts, Acquire(c, attempts)
      PROVE  Inv'
  <2>1. attempts - 1 \in Nat
    BY LockAssumption
  <2>2. left' \in [Client -> Nat]
    BY <1>1, <2>1 DEF Acquire, Inv, TypeOK
  <2> QED
    BY <1>1, <2>2, SendKeeps DEF Acquire
<1>2. ASSUME NEW c \in Client, Retry(c) PROVE Inv'
  <2>1. left' \in [Client -> Nat]
    BY <1>2 DEF Retry, Inv, TypeOK
  <2> QED
    BY <1>2, <2>1, SendKeeps DEF Retry
<1>3. ASSUME NEW c \in Client, DropLock(c) PROVE Inv'
  <2>1. Dropped(c)
    BY <1>3 DEF DropLock, Discard, Goto, Dropped
  <2> QED
    BY <2>1, DroppedKeeps
<1>4. ASSUME NEW c \in Client, GiveUp(c) PROVE Inv'
  <2>1. trying[c] # None
    BY <1>4 DEF GiveUp, Inv, Trying
  <2>2. Dropped(c)
    BY <1>4, <2>1 DEF GiveUp, Goto, Dropped
  <2> QED
    BY <2>2, DroppedKeeps
<1>5. ASSUME NEW c \in Client, SetAnswered(c) PROVE Inv'
  <2>1. CASE key = None
    <3>1. Settled(c, trying[c])
      BY <1>5, <2>1 DEF SetAnswered, Settled
    <3> QED
      BY <3>1, SettledKeeps
  <2>2. CASE key # None
    <3>1. Settled(c, token[c])
      BY <1>5, <2>2 DEF SetAnswered, Settled
    <3> QED
      BY <3>1, SettledKeeps
  <2> QED
    BY <2>1, <2>2
<1>6. ASSUME NEW c \in Client, GetAnswered(c) PROVE Inv'
  <2>1. CASE key = trying[c]
    <3>1. trying[c] \notin sets
      BY <1>6, <2>1 DEF GetAnswered, Inv, TokensOut
    <3>2. Settled(c, trying[c])
      BY <1>6, <2>1, <3>1 DEF GetAnswered, Settled
    <3> QED
      BY <3>2, SettledKeeps
  <2>2. CASE key # trying[c]
    <3>1. Settled(c, token[c])
      BY <1>6, <2>2 DEF GetAnswered, Settled
    <3> QED
      BY <3>1, SettledKeeps
  <2> QED
    BY <2>1, <2>2
<1>7. ASSUME NEW c \in Client,
             \/ Prevent(c) \/ SetFails(c) \/ Release(c) \/ ReleaseReturns(c)
      PROVE  Inv'
  BY <1>7, ObjectKeeps
<1>8. CASE Expire \/ \E t \in 1..minted :
                       LateSet(t) \/ LoseSet(t) \/ RunDel(t) \/ LoseDel(t)
  BY <1>8, NetworkKeeps
<1>9. CASE UNCHANGED vars
  BY <1>9 DEF vars, Inv, TypeOK, TokensApart, TokensOut, Trying, HolderOwnsKey
<1> QED
  BY <1>1, <1>2, <1>3, <1>4, <1>5, <1>6, <1>7, <1>8, <1>9 DEF Next, Finished

LEMMA InvHolds == Spec => []Inv
BY InitInv, StepKeepsInv, PTL DEF Spec

(* While its lease lasts, the key in Redis belongs to the object that      *)
(* acquired it (set_nx, the DEL script, release and Drop).                 *)
THEOREM LeaseIsRespected == Spec => []HolderOwnsKey
<1>1. Inv => HolderOwnsKey
  BY DEF Inv
<1> QED
  BY <1>1, InvHolds, PTL

(* Two objects hold the lock together only if the lease of one has run     *)
(* out, whatever commands were lost, late or retried.                      *)
THEOREM Excludes == Spec => []MutualExclusion
<1>1. Inv => MutualExclusion
  BY DEF Inv, TypeOK, TokensApart, Trying, HolderOwnsKey, MutualExclusion
<1> QED
  BY <1>1, InvHolds, PTL

-----------------------------------------------------------------------------
(* Nothing is left behind: a SET in the network is awaited, asked about or *)
(* given up, and so is the key it may leave.                               *)
Asked(t) == \E c \in Client : point[c] = "get" /\ trying[c] = t

Held(t) == \E c \in Client : token[c] = t

SetsTracked == \A t \in sets : Awaited(t) \/ Asked(t) \/ t \in abandoned

KeyTracked ==
  key # None => key \in abandoned \/ key \in dels \/ Held(key) \/ Asked(key)

Tracked == SetsTracked /\ KeyTracked

LEMMA TrackedIsNothingLeft == KeyTracked => NoKeyLeftBehind
BY DEF KeyTracked, NoKeyLeftBehind, Held, Asked

LEMMA ObjectStepTracks ==
  ASSUME Inv, Tracked, NEW c \in Client, NEW attempts,
         \/ Acquire(c, attempts) \/ Retry(c) \/ SetFails(c) \/ GiveUp(c) \/ DropLock(c)
         \/ Release(c) \/ ReleaseReturns(c) \/ Prevent(c)
  PROVE  Tracked'
<1> USE DEF Inv, Tracked, None, SetsTracked, KeyTracked, Awaited, Asked, Held
<1>1. CASE Acquire(c, attempts) \/ Retry(c)
  <2>1. /\ point[c] \notin {"set", "get"} /\ point' = [point EXCEPT ![c] = "set"]
        /\ trying' = [trying EXCEPT ![c] = minted + 1] /\ sets' = sets \cup {minted + 1}
        /\ UNCHANGED <<key, token, dels, abandoned>>
    BY <1>1 DEF Acquire, Retry, SendSet, Goto
  <2>2. /\ point'[c] = "set" /\ trying'[c] = minted + 1
        /\ \A d \in Client : d # c => point'[d] = point[d] /\ trying'[d] = trying[d]
    BY <2>1 DEF TypeOK
  <2> QED
    BY <2>1, <2>2
<1>2. CASE SetFails(c)
  <2>1. /\ point'[c] = "get" /\ \A d \in Client : d # c => point'[d] = point[d]
        /\ UNCHANGED <<key, token, trying, sets, dels, abandoned>>
    BY <1>2 DEF SetFails, Goto, TypeOK
  <2> QED
    BY <2>1
<1>3. CASE GiveUp(c)
  <2>1. /\ \A d \in Client : d # c => point'[d] = point[d] /\ token'[d] = token[d]
        /\ trying[c] \in abandoned' /\ abandoned \subseteq abandoned'
        /\ dels \subseteq dels' /\ (token[c] # None => token[c] \in dels' \cup abandoned')
        /\ UNCHANGED <<key, trying, sets>>
    BY <1>3 DEF GiveUp, Goto, TypeOK, Trying
  <2> QED
    BY <2>1
<1>4. CASE DropLock(c) \/ Release(c)
  <2>1. /\ point[c] \notin {"set", "get"}
        /\ \A d \in Client : d # c => point'[d] = point[d] /\ token'[d] = token[d]
        /\ abandoned \subseteq abandoned' /\ dels \subseteq dels'
        /\ token[c] # None => token[c] \in dels' \cup abandoned'
        /\ UNCHANGED <<key, trying, sets>>
    BY <1>4 DEF DropLock, Discard, Release, Goto, TypeOK
  <2> QED
    BY <2>1
<1>5. CASE ReleaseReturns(c) \/ Prevent(c)
  <2>1. /\ \A d \in Client : point[d] \in {"set", "get"} => point'[d] = point[d]
        /\ UNCHANGED <<key, token, trying, sets, dels, abandoned>>
    BY <1>5 DEF ReleaseReturns, Prevent, Goto, TypeOK
  <2> QED
    BY <2>1
<1> QED
  BY <1>1, <1>2, <1>3, <1>4, <1>5

LEMMA AnswerTracks ==
  ASSUME Inv, Tracked, NEW c \in Client, SetAnswered(c) \/ GetAnswered(c)
  PROVE  Tracked'
<1> USE DEF Inv, Tracked, None, SetsTracked, KeyTracked, Awaited, Asked, Held
<1>1. /\ \A d \in Client : d # c => point'[d] = point[d] /\ token'[d] = token[d]
      /\ UNCHANGED <<trying, dels>>
  BY DEF SetAnswered, GetAnswered, AfterSet, Goto, TypeOK
<1>2. CASE SetAnswered(c)
  <2>1. /\ point[c] = "set" /\ sets' = sets \ {trying[c]} /\ UNCHANGED abandoned
        /\ \/ key' = trying[c] /\ token'[c] = trying[c]
           \/ key' = key /\ token'[c] = token[c]
    BY <1>2 DEF SetAnswered, AfterSet, TypeOK
  <2>2. KeyTracked'
    BY <1>1, <2>1
  <2>3. SetsTracked'
    BY <1>1, <2>1
  <2> QED
    BY <2>2, <2>3
<1>3. CASE GetAnswered(c)
  <2>1. /\ point[c] = "get" /\ UNCHANGED <<key, sets>> /\ abandoned \subseteq abandoned'
        /\ \/ key = trying[c] /\ token'[c] = trying[c] /\ key # None
           \/ key # trying[c] /\ token'[c] = token[c] /\ trying[c] \in abandoned'
    BY <1>3 DEF GetAnswered, AfterSet, TypeOK
  <2>2. KeyTracked'
    BY <1>1, <2>1
  <2>3. trying[c] \in sets => trying[c] \in abandoned'
    BY <2>1 DEF TokensOut
  <2>4. SetsTracked'
    BY <1>1, <2>1, <2>3
  <2> QED
    BY <2>2, <2>4
<1> QED
  BY <1>2, <1>3

LEMMA NetworkTracks ==
  ASSUME Inv, Tracked, Expire \/ \E t \in 1..minted :
                                   LateSet(t) \/ LoseSet(t) \/ RunDel(t) \/ LoseDel(t)
  PROVE  Tracked'
<1> USE DEF Inv, Tracked, None, SetsTracked, KeyTracked, Awaited, Asked, Held
<1>1. UNCHANGED <<point, token, trying>>
  BY DEF Expire, LateSet, LoseSet, RunDel, LoseDel
<1>2. CASE Expire
  BY <1>1, <1>2 DEF Expire
<1>3. ASSUME NEW t \in 1..minted, LateSet(t) \/ LoseSet(t) PROVE Tracked'
  BY <1>1, <1>3 DEF LateSet, LoseSet
<1>4. ASSUME NEW t \in 1..minted, RunDel(t) \/ LoseDel(t) PROVE Tracked'
  BY <1>1, <1>4 DEF RunDel, LoseDel
<1> QED
  BY <1>2, <1>3, <1>4

(* No way out of acquire, try_acquire, release or Drop leaves the key      *)
(* behind, unless a command failed, the release could not be sent, or      *)
(* prevent was called.                                                     *)
THEOREM NothingLeftBehind == Spec => []NoKeyLeftBehind
<1>1. Init => Tracked
  BY DEF Init, Tracked, SetsTracked, KeyTracked
<1>2. Inv /\ Tracked /\ [Next]_vars => Tracked'
  <2> SUFFICES ASSUME Inv, Tracked, [Next]_vars PROVE Tracked'
    OBVIOUS
  <2>1. CASE UNCHANGED vars
    BY <2>1 DEF vars, Tracked, SetsTracked, KeyTracked, Awaited, Asked, Held
  <2> QED
    BY <2>1, ObjectStepTracks, AnswerTracks, NetworkTracks DEF Next, Finished
<1>3. Tracked => NoKeyLeftBehind
  BY TrackedIsNothingLeft DEF Tracked
<1> QED
  BY <1>1, <1>2, <1>3, InvHolds, PTL DEF Spec

-----------------------------------------------------------------------------
(* Redkit                                                                  *)

(* What has no content was not stored with a ttl.                          *)
ContentOK(e) ==
  /\ e \in [Place -> [val : Value \cup {Nothing, Bad}, timed : BOOLEAN]]
  /\ \A p \in Place : e[p].val = Nothing => ~e[p].timed

TtlOK(r) == r \in [Homes -> {NoTtl} \cup 1..MaxTtl]

(* What was stored with a ttl is in a key that has one.                    *)
Covered(e, r) == \A p \in Place : e[p].timed => r[Home(p)] # NoTtl

(* What differs from the source goes before quiet has reached MaxTtl.      *)
Leaving(e, r, src, q) ==
  \A p \in Place : e[p].timed /\ e[p].val # src => r[Home(p)] + q <= MaxTtl

Calling ==
  \A c \in Caller :
    /\ call[c].at # "idle" => call[c].place \in Place
    /\ call[c].at = "store" => call[c].got \in Value

CacheInv ==
  /\ CacheTypeOK
  /\ ContentOK(entry) /\ TtlOK(remain) /\ Covered(entry, remain)
  /\ Leaving(entry, remain, source, quiet)
  /\ Calling

LEMMA HomeOfPlace == \A p \in Place : Home(p) \in Homes
BY DEF Place, Home, Homes

LEMMA InitCacheInv == CacheInit => CacheInv
BY CacheAssumption, HomeOfPlace
DEF CacheInit, CacheInv, CacheTypeOK, ContentOK, TtlOK, Covered, Leaving, Calling, Missing, Idle,
    Nothing, NoTtl, Bad

(* Tidying ends no ttl that something needs.                               *)
LEMMA TidyKeeps ==
  ASSUME NEW e, NEW r, ContentOK(e), TtlOK(r), Covered(e, r)
  PROVE  /\ TtlOK(Tidy(r, e))
         /\ Covered(e, Tidy(r, e))
         /\ \A p \in Place : e[p].timed => Tidy(r, e)[Home(p)] = r[Home(p)]
<1>1. TtlOK(Tidy(r, e))
  BY DEF TtlOK, Tidy
<1>2. ASSUME NEW p \in Place, e[p].timed
      PROVE  Tidy(r, e)[Home(p)] = r[Home(p)]
  <2>1. Exists(Home(p), e)
    BY <1>2 DEF Exists, ContentOK
  <2> QED
    BY <2>1, HomeOfPlace DEF Tidy
<1> QED
  BY <1>1, <1>2 DEF Covered

(* A new state of Redis in which nothing that was stored with a ttl has    *)
(* more time than it had, but what is the source's value.                  *)
Safe(e, r) ==
  /\ ContentOK(e) /\ TtlOK(r) /\ Covered(e, r)
  /\ \A p \in Place : e[p].timed /\ e[p].val # source =>
       e[p] = entry[p] /\ r[Home(p)] = remain[Home(p)]

LEMMA UpdateIsSafe ==
  ASSUME NEW e, NEW r, Safe(e, r), Update(e, r)
  PROVE  Safe(entry', remain')
BY TidyKeeps DEF Safe, Update

(* The same without the source.                                            *)
Kept(e, r) == ContentOK(e) /\ TtlOK(r) /\ Covered(e, r)

LEMMA UpdateIsKept ==
  ASSUME NEW e, NEW r, Kept(e, r), Update(e, r)
  PROVE  Kept(entry', remain')
BY TidyKeeps DEF Kept, Update

(* A safe step leaves the invariant, with the same source and quiet.       *)
LEMMA SafeStepKeeps ==
  ASSUME CacheInv, Safe(entry', remain'), UNCHANGED <<source, quiet>>
  PROVE  Leaving(entry', remain', source', quiet')
BY HomeOfPlace DEF CacheInv, Safe, Leaving

(* Whatever is stored, nothing has more than MaxTtl.                       *)
LEMMA FreshStart ==
  ASSUME Kept(entry', remain'), quiet' = 0
  PROVE  Leaving(entry', remain', source', quiet')
BY HomeOfPlace, CacheAssumption DEF Kept, Leaving, TtlOK, Covered, NoTtl

-----------------------------------------------------------------------------
(* What a call puts at its place.                                          *)
Stored(c) == Put(call[c].place, call[c].got, call[c].ttl # NoTtl)

LEMMA StoredContent ==
  ASSUME CacheInv, NEW c \in Caller, call[c].at = "store"
  PROVE  /\ ContentOK(Stored(c))
         /\ call[c].place \in Place /\ call[c].got # Nothing
         /\ Stored(c)[call[c].place].val = call[c].got
         /\ Stored(c)[call[c].place].timed = (call[c].ttl # NoTtl)
         /\ \A p \in Place \ {call[c].place} : Stored(c)[p] = entry[p]
<1> DEFINE e == Stored(c)
           timed == call[c].ttl # NoTtl
<1>1. call[c].place \in Place /\ call[c].got \in Value /\ call[c].got # Nothing
  BY CacheAssumption DEF CacheInv, Calling, Nothing
<1>2. /\ e[call[c].place] = [val |-> call[c].got, timed |-> timed]
      /\ \A p \in Place \ {call[c].place} : e[p] = entry[p]
  BY <1>1 DEF CacheInv, ContentOK, Put, Stored
<1>3. e \in [Place -> [val : Value \cup {Nothing, Bad}, timed : BOOLEAN]]
  BY <1>1 DEF CacheInv, ContentOK, Put, Stored
<1> HIDE DEF e, timed
<1>4. e[call[c].place].val = call[c].got /\ e[call[c].place].timed = timed
  BY <1>2
<1>5. ContentOK(e)
  BY <1>1, <1>2, <1>3, <1>4 DEF CacheInv, ContentOK
<1> QED
  BY <1>1, <1>2, <1>4, <1>5 DEF e, timed

LEMMA TtlOfCall ==
  ASSUME CacheInv, NEW c \in Caller
  PROVE  call[c].ttl \in NoTtl..MaxTtl
BY DEF CacheInv, CacheTypeOK

LEMMA StoreStringKeeps ==
  ASSUME CacheInv, NEW c \in Caller, call[c].at = "store", call[c].place \in Key, StoreString(c)
  PROVE  Kept(entry', remain') /\ (call[c].got = source => Safe(entry', remain'))
<1> DEFINE k == call[c].place
           t == call[c].ttl
           e == Stored(c)
           r == [remain EXCEPT ![k] = t]
<1>1. CASE t = 0
  BY <1>1 DEF StoreString, CacheInv, Kept, Safe
<1>2. CASE t # 0
  <2>1. Update(e, r)
    BY <1>2 DEF StoreString, Stored
  <2>2. /\ ContentOK(e)
        /\ k \in Place /\ e[k].val = call[c].got /\ e[k].timed = (t # NoTtl)
        /\ \A p \in Place \ {k} : e[p] = entry[p]
    BY StoredContent
  <2>3. \A p \in Place : Home(p) = k <=> p = k
    BY CacheAssumption DEF Place, Home
  <2>4. TtlOK(r) /\ r[k] = t /\ \A p \in Place \ {k} : r[Home(p)] = remain[Home(p)]
    BY <1>2, <2>3, TtlOfCall, HomeOfPlace, CacheAssumption DEF CacheInv, TtlOK, NoTtl, Homes
  <2>5. Covered(e, r)
    <3> SUFFICES ASSUME NEW p \in Place, e[p].timed PROVE r[Home(p)] # NoTtl
      BY DEF Covered
    <3>1. CASE p = k
      <4>1. t # NoTtl
        BY <2>2, <3>1
      <4> QED
        BY <2>3, <2>4, <3>1, <4>1
    <3>2. CASE p # k
      <4>1. e[p] = entry[p] /\ r[Home(p)] = remain[Home(p)]
        BY <2>2, <2>4, <3>2
      <4> QED
        BY <4>1 DEF CacheInv, Covered
    <3> QED
      BY <3>1, <3>2
  <2>6. Kept(e, r)
    BY <2>2, <2>4, <2>5 DEF Kept
  <2>7. ASSUME call[c].got = source
        PROVE  Safe(e, r)
    <3> SUFFICES ASSUME NEW p \in Place, e[p].timed, e[p].val # source
                 PROVE  e[p] = entry[p] /\ r[Home(p)] = remain[Home(p)]
      BY <2>6 DEF Kept, Safe
    <3>1. p # k
      BY <2>2, <2>7
    <3> QED
      BY <2>2, <2>4, <3>1
  <2> HIDE DEF e, r
  <2> QED
    BY <2>1, <2>6, <2>7, UpdateIsKept, UpdateIsSafe
<1> QED
  BY <1>1, <1>2

(* Either the hash has a ttl, or no field was stored with one before.      *)
LEMMA StoreFieldKeeps ==
  ASSUME CacheInv, NEW c \in Caller, call[c].at = "store", call[c].place \notin Key, StoreField(c)
  PROVE  Kept(entry', remain') /\ (call[c].got = source => Safe(entry', remain'))
<1> DEFINE f == call[c].place
           t == call[c].ttl
           e == Stored(c)
<1>1. /\ ContentOK(e)
      /\ f \in Place /\ e[f].val = call[c].got /\ e[f].timed = (t # NoTtl)
      /\ call[c].got # Nothing
      /\ \A p \in Place \ {f} : e[p] = entry[p]
  BY StoredContent
<1>2. Home(f) = "hash" /\ "hash" \in Homes
  BY <1>1 DEF Home, Homes
<1>3. TtlOf("hash", e) = remain["hash"]
  BY <1>1, <1>2 DEF TtlOf, Exists
<1>4. t \in NoTtl..MaxTtl
  BY TtlOfCall
<1>5. CASE t # NoTtl /\ remain["hash"] = NoTtl
  <2> DEFINE w == Without("hash", e)
             r == [remain EXCEPT !["hash"] = t]
  <2>1. ExpireKey("hash", t, e)
    BY <1>3, <1>5 DEF StoreField, Stored, NoTtl
  <2>2. \A p \in Place : entry[p].timed => Home(p) # "hash"
    BY <1>5 DEF CacheInv, Covered
  <2>3. CASE t <= 0
    <3>1. Update(w, remain)
      BY <2>1, <2>3 DEF ExpireKey
    <3>2. ContentOK(w)
      BY <1>1 DEF ContentOK, Without, Missing
    <3>3. \A p \in Place : w[p].timed => p # f /\ w[p] = entry[p]
      BY <1>1, <1>2 DEF Without, Missing
    <3>4. Safe(w, remain)
      BY <3>2, <3>3 DEF Safe, CacheInv, Covered
    <3> HIDE DEF w
    <3> QED
      BY <3>1, <3>4, UpdateIsSafe DEF Safe, Kept
  <2>4. CASE ~(t <= 0)
    <3>1. Update(e, r)
      BY <2>1, <2>4 DEF ExpireKey
    <3>2. t \in 1..MaxTtl
      BY <1>4, <2>4, CacheAssumption DEF NoTtl
    <3>3. TtlOK(r) /\ r["hash"] = t /\ \A h \in Homes \ {"hash"} : r[h] = remain[h]
      BY <1>2, <3>2 DEF CacheInv, TtlOK
    <3>4. Covered(e, r)
      <4> SUFFICES ASSUME NEW p \in Place, e[p].timed PROVE r[Home(p)] # NoTtl
        BY DEF Covered
      <4>1. CASE Home(p) = "hash"
        BY <1>5, <3>3, <4>1
      <4>2. CASE Home(p) # "hash"
        <5>1. e[p] = entry[p] /\ r[Home(p)] = remain[Home(p)]
          BY <1>1, <1>2, <3>3, <4>2, HomeOfPlace
        <5> QED
          BY <5>1 DEF CacheInv, Covered
      <4> QED
        BY <4>1, <4>2
    <3>5. Kept(e, r)
      BY <1>1, <3>3, <3>4 DEF Kept
    <3>6. ASSUME call[c].got = source
          PROVE  Safe(e, r)
      <4> SUFFICES ASSUME NEW p \in Place, e[p].timed, e[p].val # source
                   PROVE  e[p] = entry[p] /\ r[Home(p)] = remain[Home(p)]
        BY <3>5 DEF Kept, Safe
      <4>1. p # f
        BY <1>1, <3>6
      <4>2. e[p] = entry[p]
        BY <1>1, <4>1
      <4> QED
        BY <2>2, <3>3, <4>2, HomeOfPlace
    <3> HIDE DEF e, r
    <3> QED
      BY <3>1, <3>5, <3>6, UpdateIsKept, UpdateIsSafe
  <2> QED
    BY <1>4, <2>3, <2>4
<1>6. CASE t = NoTtl \/ remain["hash"] # NoTtl
  <2>1. Update(e, remain)
    BY <1>3, <1>6 DEF StoreField, Stored, NoTtl
  <2>2. Covered(e, remain)
    <3> SUFFICES ASSUME NEW p \in Place, e[p].timed PROVE remain[Home(p)] # NoTtl
      BY DEF Covered
    <3>1. CASE p = f
      <4>1. t # NoTtl
        BY <1>1, <3>1
      <4> QED
        BY <1>2, <1>6, <3>1, <4>1
    <3>2. CASE p # f
      <4>1. e[p] = entry[p]
        BY <1>1, <3>2
      <4> QED
        BY <4>1 DEF CacheInv, Covered
    <3> QED
      BY <3>1, <3>2
  <2>3. Kept(e, remain)
    BY <1>1, <2>2 DEF Kept, CacheInv
  <2>4. ASSUME call[c].got = source
        PROVE  Safe(e, remain)
    BY <1>1, <2>3, <2>4 DEF Kept, Safe
  <2> HIDE DEF e
  <2> QED
    BY <2>1, <2>3, <2>4, UpdateIsKept, UpdateIsSafe
<1> QED
  BY <1>5, <1>6

-----------------------------------------------------------------------------
LEMMA ForgetKeeps ==
  ASSUME CacheInv, NEW places, Forget(places)
  PROVE  Safe(entry', remain')
<1> DEFINE e == [p \in Place |-> IF p \in places THEN Missing ELSE entry[p]]
<1>1. Update(e, remain)
  BY DEF Forget
<1>2. ContentOK(e)
  BY DEF CacheInv, ContentOK, Missing
<1>3. \A p \in Place : e[p].timed => e[p] = entry[p]
  BY DEF Missing
<1>4. Safe(e, remain)
  BY <1>2, <1>3 DEF Safe, CacheInv, Covered
<1> HIDE DEF e
<1> QED
  BY <1>1, <1>4, UpdateIsSafe

LEMMA SpoilKeeps ==
  ASSUME CacheInv, NEW s \in Place, Spoil(s)
  PROVE  Safe(entry', remain')
<1> DEFINE e == Put(s, Bad, FALSE)
           r == IF s \in Key THEN [remain EXCEPT ![s] = NoTtl] ELSE remain
<1>1. Update(e, r)
  BY DEF Spoil
<1>2. /\ e[s] = [val |-> Bad, timed |-> FALSE]
      /\ \A p \in Place \ {s} : e[p] = entry[p]
      /\ e \in [Place -> [val : Value \cup {Nothing, Bad}, timed : BOOLEAN]]
  BY DEF CacheInv, ContentOK, Put
<1> HIDE DEF e
<1>2a. e[s].val = Bad /\ ~e[s].timed
  BY <1>2
<1>3. ContentOK(e)
  <2>1. Bad # Nothing
    BY DEF Bad, Nothing
  <2>2. \A p \in Place : e[p].val = Nothing => ~e[p].timed
    BY <1>2, <1>2a, <2>1 DEF CacheInv, ContentOK
  <2> QED
    BY <1>2, <2>2 DEF ContentOK
<1>4. TtlOK(r) /\ \A p \in Place \ {s} : r[Home(p)] = remain[Home(p)]
  <2>1. TtlOK(r)
    BY DEF CacheInv, TtlOK
  <2>2. ASSUME NEW p \in Place, p # s, s \in Key
        PROVE  Home(p) # s
    BY <2>2, CacheAssumption DEF Home
  <2>3. \A p \in Place \ {s} : r[Home(p)] = remain[Home(p)]
    BY <2>2, HomeOfPlace DEF CacheInv, TtlOK
  <2> QED
    BY <2>1, <2>3
<1>5. \A p \in Place : e[p].timed => e[p] = entry[p] /\ r[Home(p)] = remain[Home(p)]
  BY <1>2, <1>2a, <1>4
<1>6. Safe(e, r)
  BY <1>3, <1>4, <1>5 DEF Safe, CacheInv, Covered
<1> HIDE DEF r
<1> QED
  BY <1>1, <1>6, UpdateIsSafe

(* A second takes one from every ttl, and adds at most one to quiet.       *)
LEMMA SecondKeeps ==
  ASSUME CacheInv, Second
  PROVE  Kept(entry', remain') /\ Leaving(entry', remain', source', quiet')
<1> DEFINE e == [p \in Place |-> IF Home(p) \in {h \in Homes : remain[h] = 1} THEN Missing
                                                                          ELSE entry[p]]
           r == [h \in Homes |-> IF remain[h] = NoTtl THEN NoTtl ELSE remain[h] - 1]
           r1 == [h \in Homes |-> IF remain[h] \in {NoTtl, 1} THEN NoTtl ELSE remain[h] - 1]
<1>1. Update(e, r)
  BY DEF Second
<1>2. \A h \in Homes : remain[h] = 1 => ~Exists(h, e)
  BY DEF Exists, Missing
<1>3. Tidy(r, e) = Tidy(r1, e)
  BY <1>2 DEF Tidy, CacheInv, TtlOK, NoTtl
<1>4. Update(e, r1)
  BY <1>1, <1>3 DEF Update
<1>5. ContentOK(e)
  BY DEF CacheInv, ContentOK, Missing
<1>6. TtlOK(r1)
  BY CacheAssumption DEF CacheInv, TtlOK, NoTtl
<1>7. ASSUME NEW p \in Place, e[p].timed
      PROVE  e[p] = entry[p] /\ r1[Home(p)] # NoTtl /\ r1[Home(p)] = remain[Home(p)] - 1
  <2>1. e[p] = entry[p] /\ remain[Home(p)] # 1
    BY <1>7, HomeOfPlace DEF Missing
  <2>2. remain[Home(p)] # NoTtl /\ remain[Home(p)] \in 1..MaxTtl
    BY <1>7, <2>1, HomeOfPlace DEF CacheInv, Covered, TtlOK
  <2> QED
    BY <2>1, <2>2, HomeOfPlace, CacheAssumption DEF NoTtl
<1>8. Kept(e, r1)
  BY <1>5, <1>6, <1>7 DEF Kept, Covered
<1> HIDE DEF e, r, r1
<1>9. Kept(entry', remain')
  BY <1>4, <1>8, UpdateIsKept
<1>10. ASSUME NEW p \in Place, entry'[p].timed, entry'[p].val # source'
       PROVE  remain'[Home(p)] + quiet' <= MaxTtl
  <2>1. entry' = e /\ remain'[Home(p)] = remain[Home(p)] - 1
    BY <1>4, <1>7, <1>8, <1>10, TidyKeeps DEF Update, Kept
  <2>2. entry[p].timed /\ entry[p].val # source /\ source' = source
    BY <1>7, <1>10, <2>1 DEF Second
  <2>3. remain[Home(p)] + quiet <= MaxTtl
    BY <2>2 DEF CacheInv, Leaving
  <2>4. quiet \in Int /\ quiet' \in Int /\ quiet' <= quiet + 1 /\ remain[Home(p)] \in Int
    BY HomeOfPlace, CacheAssumption DEF Second, CacheInv, CacheTypeOK, TtlOK, NoTtl
  <2> QED
    BY <2>1, <2>3, <2>4, CacheAssumption
<1> QED
  BY <1>9, <1>10 DEF Leaving

-----------------------------------------------------------------------------
(* The type of the rest.                                                   *)
Around ==
  /\ source \in Value \cup {Nothing}
  /\ quiet \in 0..MaxTtl
  /\ call \in [Caller -> [at : {"idle", "load", "store"}, place : Place \cup {Nothing},
                          ttl : NoTtl..MaxTtl, got : Value \cup {Nothing}]]
  /\ Calling

LEMMA InvParts ==
  CacheInv <=> Around /\ Kept(entry, remain) /\ Leaving(entry, remain, source, quiet)
<1>1. TtlOK(remain) => remain \in [Homes -> NoTtl..MaxTtl]
  BY CacheAssumption DEF TtlOK, NoTtl
<1> QED
  BY <1>1 DEF CacheInv, Around, Kept, CacheTypeOK, ContentOK

LEMMA InvPartsPrime ==
  ASSUME Around', Kept(entry', remain'), Leaving(entry', remain', source', quiet')
  PROVE  CacheInv'
<1>1. TtlOK(remain') => remain' \in [Homes -> NoTtl..MaxTtl]
  BY CacheAssumption DEF TtlOK, NoTtl
<1> QED
  BY <1>1 DEF CacheInv, Around, Kept, CacheTypeOK, ContentOK, TtlOK, Covered, Leaving

(* A call begins, has loaded, or ends; Redis is as before.                 *)
LEMMA CallKeeps ==
  ASSUME CacheInv, NEW c \in Caller, UNCHANGED <<source, entry, remain, quiet>>,
         \/ call' = [call EXCEPT ![c] = Idle]
         \/ \E p \in Place, ttl \in NoTtl..MaxTtl :
              call' = [call EXCEPT ![c] = [at |-> "load", place |-> p, ttl |-> ttl, got |-> Nothing]]
         \/ /\ call[c].at = "load" /\ source # Nothing
            /\ call' = [call EXCEPT ![c].at = "store", ![c].got = source]
  PROVE  CacheInv'
<1>1. Around'
  <2>1. CASE call' = [call EXCEPT ![c] = Idle]
    BY <2>1, CacheAssumption DEF CacheInv, CacheTypeOK, Around, Calling, Idle, NoTtl
  <2>2. CASE \E p \in Place, ttl \in NoTtl..MaxTtl :
               call' = [call EXCEPT ![c] = [at |-> "load", place |-> p, ttl |-> ttl,
                                            got |-> Nothing]]
    BY <2>2 DEF CacheInv, CacheTypeOK, Around, Calling
  <2>3. CASE /\ call[c].at = "load" /\ source # Nothing
             /\ call' = [call EXCEPT ![c].at = "store", ![c].got = source]
    BY <2>3 DEF CacheInv, CacheTypeOK, Around, Calling
  <2> QED
    BY <2>1, <2>2, <2>3
<1> QED
  BY <1>1, InvParts, InvPartsPrime DEF CacheInv, Leaving, Kept, ContentOK, TtlOK, Covered

LEMMA StoreKeeps ==
  ASSUME CacheInv, NEW c \in Caller, Store(c)
  PROVE  CacheInv'
<1>1. Kept(entry', remain') /\ (call[c].got = source => Safe(entry', remain'))
  BY StoreStringKeeps, StoreFieldKeeps DEF Store
<1>2. Leaving(entry', remain', source', quiet')
  <2>1. CASE call[c].got = source
    BY <1>1, <2>1, SafeStepKeeps DEF Store
  <2>2. CASE call[c].got # source
    BY <1>1, <2>2, FreshStart DEF Store
  <2> QED
    BY <2>1, <2>2
<1>3. Around'
  BY CacheAssumption DEF Store, CacheInv, CacheTypeOK, Around, Calling, Idle, NoTtl
<1> QED
  BY <1>1, <1>2, <1>3, InvPartsPrime

LEMMA NextKeeps ==
  ASSUME CacheInv, [CacheNext]_cacheVars
  PROVE  CacheInv'
<1>1. ASSUME UNCHANGED <<source, entry, remain, call, quiet>>
      PROVE  CacheInv'
  BY <1>1 DEF CacheInv, CacheTypeOK, ContentOK, TtlOK, Covered, Leaving, Calling, Exists
<1>2. ASSUME NEW c \in Caller, NEW p \in Place, NEW ttl \in NoTtl..MaxTtl, Miss(c, p, ttl)
      PROVE  CacheInv'
  BY <1>2, CallKeeps DEF Miss
<1>3. ASSUME NEW c \in Caller, Load(c) \/ LoaderFails(c) \/ StoreFails(c)
      PROVE  CacheInv'
  BY <1>3, CallKeeps DEF Load, LoaderFails, StoreFails
<1>4. ASSUME NEW v \in Value \cup {Nothing}, ChangeSource(v)
      PROVE  CacheInv'
  <2>1. Kept(entry', remain') /\ Around'
    BY <1>4, CacheAssumption
    DEF ChangeSource, CacheInv, CacheTypeOK, Around, Calling, Kept, ContentOK, TtlOK, Covered
  <2> QED
    BY <1>4, <2>1, FreshStart, InvPartsPrime DEF ChangeSource
<1>5. ASSUME UNCHANGED <<source, call, quiet>>, Safe(entry', remain')
      PROVE  CacheInv'
  <2>1. Around'
    BY <1>5 DEF CacheInv, CacheTypeOK, Around, Calling
  <2> QED
    BY <1>5, <2>1, SafeStepKeeps, InvPartsPrime DEF Safe, Kept
<1>6. ASSUME NEW places, Forget(places)
      PROVE  CacheInv'
  BY <1>5, <1>6, ForgetKeeps DEF Forget
<1>7. ASSUME NEW p \in Place, Spoil(p)
      PROVE  CacheInv'
  BY <1>5, <1>7, SpoilKeeps DEF Spoil
<1>8. ASSUME Second
      PROVE  CacheInv'
  <2>1. Around'
    BY <1>8, CacheAssumption DEF Second, CacheInv, CacheTypeOK, Around, Calling
  <2> QED
    BY <1>8, <2>1, SecondKeeps, InvPartsPrime
<1>9. ASSUME ReadHash \/ TakeAnswer \/ UNCHANGED cacheVars
      PROVE  CacheInv'
  BY <1>1, <1>9 DEF ReadHash, TakeAnswer, cacheVars
<1>10. ASSUME NEW ps, NEW typed, ReadMany(ps, typed)
       PROVE  CacheInv'
  BY <1>1, <1>10 DEF ReadMany
<1> QED
  BY <1>2, <1>3, <1>4, <1>6, <1>7, <1>8, <1>9, <1>10, StoreKeeps DEF CacheNext

LEMMA InvIsFresh == CacheInv => StaleGoes
<1> SUFFICES ASSUME CacheInv, quiet = MaxTtl, NEW p \in Place, entry[p].timed, entry[p].val # source
             PROVE  FALSE
  BY DEF StaleGoes
<1>1. remain[Home(p)] + quiet <= MaxTtl /\ remain[Home(p)] # NoTtl
  BY DEF CacheInv, Leaving, Covered
<1> QED
  BY <1>1, HomeOfPlace, CacheAssumption DEF CacheInv, TtlOK

(* The invariant of the cache, with its type invariant.                    *)
THEOREM Typed == CacheSpec => []CacheTypeOK
<1>1. CacheInv => CacheTypeOK
  BY DEF CacheInv
<1> QED
  BY <1>1, InitCacheInv, NextKeeps, PTL DEF CacheSpec

(* What was cached with a ttl is not older than its ttl, for any number of *)
(* callers, keys and fields, any ttl, and stores of any kind at any time.  *)
THEOREM CachedIsFresh == CacheSpec => []StaleGoes
BY InitCacheInv, NextKeeps, InvIsFresh, PTL DEF CacheSpec

(* Of equal keys the last is found, and it is the same key.                *)
LEMMA LastIndex ==
  ASSUME NEW S, NEW ps \in Seq(S), NEW j \in DOMAIN ps
  PROVE  /\ SelectLastInSeq(ps, LAMBDA q : q = ps[j]) \in DOMAIN ps
         /\ ps[SelectLastInSeq(ps, LAMBDA q : q = ps[j])] = ps[j]
<1> DEFINE I == {i \in 1..Len(ps) : ps[i] = ps[j]}
<1>1. Len(ps) \in Nat /\ DOMAIN ps = 1..Len(ps)
  BY LenProperties
<1>2. I # {} /\ I \in SUBSET (0..Len(ps))
  BY <1>1
<1>3. SelectLastInSeq(ps, LAMBDA q : q = ps[j]) = Max(I)
  BY <1>2 DEF SelectLastInSeq
<1>4. Max(I) \in I
  <2> HIDE DEF I
  <2> QED
    BY <1>1, <1>2, GreatestNatural
<1> QED
  BY <1>1, <1>3, <1>4

LEMMA PairIsOwn ==
  ASSUME NEW S, NEW ps \in Seq(S), NEW raw, \A i \in DOMAIN ps : raw[i] = entry[ps[i]].val
  PROVE  Pair(ps, raw) = [p \in {q \in ToSet(ps) : entry[q].val # Nothing} |-> entry[p].val]
<1> DEFINE at(p) == SelectLastInSeq(ps, LAMBDA q : q = p)
           found == {ps[i] : i \in {j \in DOMAIN ps : raw[j] # Nothing}}
<1>1. \A j \in DOMAIN ps : at(ps[j]) \in DOMAIN ps /\ ps[at(ps[j])] = ps[j]
  BY LastIndex
<1>2. Pair(ps, raw) = [p \in found |-> raw[at(p)]]
  BY DEF Pair
<1> HIDE DEF at
<1>3. found = {q \in ToSet(ps) : entry[q].val # Nothing}
  BY DEF ToSet
<1>4. ASSUME NEW p \in found PROVE raw[at(p)] = entry[p].val
  <2>1. PICK j \in DOMAIN ps : p = ps[j]
    OBVIOUS
  <2> QED
    BY <1>1, <2>1
<1> HIDE DEF found
<1> QED
  BY <1>2, <1>3, <1>4

(* An answer is of the moment at which it is asked for.                    *)
LEMMA NextKeepsMaps == MapsAreOwn /\ [CacheNext]_cacheVars => MapsAreOwn'
<1> SUFFICES ASSUME MapsAreOwn, [CacheNext]_cacheVars PROVE MapsAreOwn'
  OBVIOUS
<1>1. CASE asked' = <<>>
  BY <1>1 DEF MapsAreOwn
<1>2. ASSUME NEW S \in {Key, Field}, NEW typed \in BOOLEAN, NEW ps \in SeqOf(S, 3),
             ReadMany(ps, typed)
      PROVE  MapsAreOwn'
  <2> DEFINE raw == [i \in DOMAIN ps |-> entry[ps[i]].val]
             map == Pair(ps, raw)
  <2>1. ps \in Seq(S)
    <3>1. PICK m \in 0..3 : ps \in [1..m -> S]
      BY DEF SeqOf
    <3> QED
      BY <3>1
  <2>2. map = [p \in {q \in ToSet(ps) : entry[q].val # Nothing} |-> entry[p].val]
    <3>1. \A i \in DOMAIN ps : raw[i] = entry[ps[i]].val
      OBVIOUS
    <3> HIDE DEF raw
    <3> QED
      BY <2>1, <3>1, PairIsOwn
  <2>3. /\ asked' = [places |-> ToSet(ps), typed |-> typed, ans |-> Answer(map, typed)]
        /\ entry' = entry
    BY <1>2 DEF ReadMany
  <2> HIDE DEF map
  <2>4. Answer(map, typed).ok => Answer(map, typed).map = map
    BY DEF Answer, Failed
  <2> QED
    BY <2>2, <2>3, <2>4 DEF MapsAreOwn
<1>3. CASE ReadHash
  <2> DEFINE map == [f \in {g \in Field : entry[g].val # Nothing} |-> entry[f].val]
  <2>1. /\ asked' = [places |-> Field, typed |-> TRUE, ans |-> Answer(map, TRUE)]
        /\ entry' = entry
    BY <1>3 DEF ReadHash
  <2>2. Answer(map, TRUE).ok => Answer(map, TRUE).map = map
    BY DEF Answer, Failed
  <2> QED
    BY <2>1, <2>2 DEF MapsAreOwn
<1>4. CASE UNCHANGED cacheVars
  BY <1>4 DEF cacheVars, MapsAreOwn
<1>5. \/ asked' = <<>>
      \/ \E S \in {Key, Field}, typed \in BOOLEAN :
           \E ps \in SeqOf(S, 3) : ReadMany(ps, typed)
      \/ ReadHash \/ UNCHANGED cacheVars
  BY DEF CacheNext, Miss, Load, LoaderFails, Store, StoreFails, ChangeSource, Forget, Spoil,
         Second, TakeAnswer
<1> QED
  BY <1>1, <1>2, <1>3, <1>4, <1>5

(* What is read of many keys or fields is keyed by its own name: no nil,   *)
(* and no key asked for twice, shifts a value to another key (mget_map,    *)
(* mget_str_map, hmget_map, hmget_str_map, hgetall).                       *)
THEOREM AnswersAreOwn == CacheSpec => []MapsAreOwn
<1>1. CacheInit => MapsAreOwn
  BY DEF CacheInit, MapsAreOwn
<1> QED
  BY <1>1, NextKeepsMaps, PTL DEF CacheSpec
=============================================================================
