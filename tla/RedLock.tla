------------------------------ MODULE RedLock ------------------------------
(***************************************************************************)
(* The single-key Redis lock (redlock.rs): RedLock and AsyncRedLock        *)
(* objects of several clients on one key, over a network that may fail any *)
(* command before or after Redis has executed it.                          *)
(*                                                                         *)
(* A client reads an answer in the step in which Redis gives it: what it   *)
(* does with the answer is local, so nobody can tell the difference.  The  *)
(* lease may run out at any moment.                                        *)
(***************************************************************************)
EXTENDS Naturals, FiniteSets

CONSTANTS Client,       \* the lock objects
          MaxAttempts,  \* the bound of try_acquire's attempts
          MaxTokens     \* bound: how many tokens are ever minted

ASSUME LockAssumption == MaxAttempts \in Nat /\ MaxTokens \in Nat

VARIABLES key,       \* the value of the key in Redis, 0 if there is none
          point,     \* where each object stands
          token,     \* RedLock::token, 0 for None
          trying,    \* new_token of the set_nx in progress, or of the last one
          left,      \* attempts of try_acquire that remain after this one
          prevent,   \* RedLock::prevent
          minted,    \* Uuid::new_v4: tokens are numbered in order
          sets,      \* tokens of the SET commands in the network
          dels,      \* tokens of the release scripts in the network
          expired,   \* history: tokens whose lease has run out
          abandoned  \* history: tokens given up with the key possibly set

vars == <<key, point, token, trying, left, prevent, minted, sets, dels, expired,
          abandoned>>

None == 0

(* "free": alive without a call in progress and not acquired; "held":      *)
(* acquire has returned Some; "gone": dropped.                             *)
Point == {"free", "set", "get", "sleep", "held", "releasing", "gone"}

TypeOK ==
  /\ key \in 0..minted
  /\ point \in [Client -> Point]
  /\ token \in [Client -> 0..minted]
  /\ trying \in [Client -> 0..minted]
  /\ left \in [Client -> Nat]
  /\ prevent \in [Client -> BOOLEAN]
  /\ minted \in Nat
  /\ sets \subseteq 1..minted
  /\ dels \subseteq 1..minted
  /\ expired \subseteq 1..minted
  /\ abandoned \subseteq 1..minted

Init ==
  /\ key = None
  /\ point = [c \in Client |-> "free"]
  /\ token = [c \in Client |-> None]
  /\ trying = [c \in Client |-> None]
  /\ left = [c \in Client |-> 0]
  /\ prevent = [c \in Client |-> FALSE]
  /\ minted = 0
  /\ sets = {}
  /\ dels = {}
  /\ expired = {}
  /\ abandoned = {}

Goto(c, p) == point' = [point EXCEPT ![c] = p]

-----------------------------------------------------------------------------
(* Dropping an object.                                                     *)

(* Drop: the release script goes out unless prevent was called.  It is not *)
(* sent outside a tokio runtime, or when the pool has no connection.       *)
Discard(c) ==
  /\ Goto(c, "gone")
  /\ token' = [token EXCEPT ![c] = None]
  /\ IF token[c] = None
     THEN UNCHANGED <<dels, abandoned>>
     ELSE \/ ~prevent[c] /\ dels' = dels \cup {token[c]} /\ UNCHANGED abandoned
          \/ abandoned' = abandoned \cup {token[c]} /\ UNCHANGED dels

(* The object goes out of scope, also by a call of try_acquire that makes  *)
(* no attempt, finds no connection in the pool, or is cancelled as it      *)
(* sleeps.                                                                 *)
DropLock(c) ==
  /\ point[c] \in {"free", "held", "sleep"}
  /\ Discard(c)
  /\ UNCHANGED <<key, trying, left, prevent, minted, sets, expired>>

Prevent(c) ==
  /\ point[c] \in {"free", "held"}
  /\ prevent' = [prevent EXCEPT ![c] = TRUE]
  /\ UNCHANGED <<key, point, token, trying, left, minted, sets, dels, expired, abandoned>>

-----------------------------------------------------------------------------
(* acquire, try_acquire and set_nx.                                        *)

(* A new token, and SET NX PX goes out.                                    *)
SendSet(c) ==
  /\ minted < MaxTokens
  /\ minted' = minted + 1
  /\ trying' = [trying EXCEPT ![c] = minted + 1]
  /\ sets' = sets \cup {minted + 1}
  /\ Goto(c, "set")
  /\ UNCHANGED <<key, token, prevent, dels, expired, abandoned>>

(* acquire is try_acquire with one attempt.  The object acquire returned   *)
(* may be asked to acquire again.                                          *)
Acquire(c, attempts) ==
  /\ point[c] \in {"free", "held"}
  /\ attempts > 0
  /\ SendSet(c)
  /\ left' = [left EXCEPT ![c] = attempts - 1]

(* What try_acquire does after set_nx has returned Ok with this token.     *)
AfterSet(c, tok) ==
  /\ token' = [token EXCEPT ![c] = tok]
  /\ IF tok # None
     THEN Goto(c, "held") /\ UNCHANGED left
     ELSE IF left[c] > 0
          THEN Goto(c, "sleep") /\ left' = [left EXCEPT ![c] = @ - 1]
          ELSE Goto(c, "gone") /\ UNCHANGED left

(* Redis executes the SET and the client reads true or false.  On false    *)
(* the token field keeps what it had.                                      *)
SetAnswered(c) ==
  /\ point[c] = "set"
  /\ trying[c] \in sets
  /\ sets' = sets \ {trying[c]}
  /\ IF key = None
     THEN key' = trying[c] /\ AfterSet(c, trying[c])
     ELSE UNCHANGED key /\ AfterSet(c, token[c])
  /\ UNCHANGED <<trying, prevent, minted, dels, expired, abandoned>>

(* The SET fails for the client; it may have been executed, or still be.   *)
SetFails(c) ==
  /\ point[c] = "set"
  /\ Goto(c, "get")
  /\ UNCHANGED <<key, token, trying, left, prevent, minted, sets, dels, expired, abandoned>>

(* Mutants of GetAnswered: the value found is not compared, or is compared *)
(* with the token the object had before.                                   *)
GetAnsweredAny(c) ==
  /\ point[c] = "get"
  /\ key # None
  /\ AfterSet(c, trying[c])
  /\ UNCHANGED <<key, trying, prevent, minted, sets, dels, expired, abandoned>>

GetAnsweredOld(c) ==
  /\ point[c] = "get"
  /\ key # None
  /\ AfterSet(c, token[c])
  /\ UNCHANGED <<key, trying, prevent, minted, sets, dels, expired, abandoned>>

(* The GET after a failed SET finds a value: our token, or another's.      *)
GetAnswered(c) ==
  /\ point[c] = "get"
  /\ key # None
  /\ IF key = trying[c]
     THEN AfterSet(c, trying[c]) /\ UNCHANGED abandoned
     ELSE AfterSet(c, token[c]) /\ abandoned' = abandoned \cup {trying[c]}
  /\ UNCHANGED <<key, trying, prevent, minted, sets, dels, expired>>

(* The GET fails or finds nothing, so that acquire returns the error; or   *)
(* the future of acquire is dropped as it waits.  The object is dropped,   *)
(* whatever the SET may have done or may still do.                         *)
GiveUp(c) ==
  /\ point[c] \in {"set", "get"}
  /\ Goto(c, "gone")
  /\ token' = [token EXCEPT ![c] = None]
  /\ \/ /\ token[c] # None /\ ~prevent[c]
        /\ dels' = dels \cup {token[c]}
        /\ abandoned' = abandoned \cup {trying[c]}
     \/ abandoned' = abandoned \cup ({trying[c], token[c]} \ {None}) /\ UNCHANGED dels
  /\ UNCHANGED <<key, trying, left, prevent, minted, sets, expired>>

(* The interval between two attempts is over.                              *)
Retry(c) ==
  /\ point[c] = "sleep"
  /\ SendSet(c)
  /\ UNCHANGED left

-----------------------------------------------------------------------------
(* release; with no token it does nothing.                                 *)

Release(c) ==
  /\ point[c] = "held"
  /\ token' = [token EXCEPT ![c] = None]
  /\ \/ /\ Goto(c, "releasing")
        /\ dels' = dels \cup {token[c]} /\ UNCHANGED abandoned
     \/ /\ Goto(c, "free")
        /\ abandoned' = abandoned \cup {token[c]} /\ UNCHANGED dels
  /\ UNCHANGED <<key, trying, left, prevent, minted, sets, expired>>

(* The script was answered, or failed for the client.                      *)
ReleaseReturns(c) ==
  /\ point[c] = "releasing"
  /\ Goto(c, "free")
  /\ UNCHANGED <<key, token, trying, left, prevent, minted, sets, dels, expired, abandoned>>

-----------------------------------------------------------------------------
(* Redis and the network.                                                  *)

Awaited(t) == \E c \in Client : point[c] = "set" /\ trying[c] = t

(* A SET whose client has given up is executed after all, or is lost.      *)
LateSet(t) ==
  /\ t \in sets
  /\ ~Awaited(t)
  /\ sets' = sets \ {t}
  /\ key' = IF key = None THEN t ELSE key
  /\ UNCHANGED <<point, token, trying, left, prevent, minted, dels, expired, abandoned>>

LoseSet(t) ==
  /\ t \in sets
  /\ ~Awaited(t)
  /\ sets' = sets \ {t}
  /\ UNCHANGED <<key, point, token, trying, left, prevent, minted, dels, expired, abandoned>>

(* Mutant of RunDel: the key is deleted without comparing its value.       *)
RunDelBlindly(t) ==
  /\ t \in dels
  /\ dels' = dels \ {t}
  /\ key' = None
  /\ UNCHANGED <<point, token, trying, left, prevent, minted, sets, expired, abandoned>>

(* The release script DEL.                                                 *)
RunDel(t) ==
  /\ t \in dels
  /\ dels' = dels \ {t}
  /\ key' = IF key = t THEN None ELSE key
  /\ UNCHANGED <<point, token, trying, left, prevent, minted, sets, expired, abandoned>>

LoseDel(t) ==
  /\ t \in dels
  /\ dels' = dels \ {t}
  /\ abandoned' = abandoned \cup {t}
  /\ UNCHANGED <<key, point, token, trying, left, prevent, minted, sets, expired>>

(* The TTL runs out.                                                       *)
Expire ==
  /\ key # None
  /\ key' = None
  /\ expired' = expired \cup {key}
  /\ UNCHANGED <<point, token, trying, left, prevent, minted, sets, dels, abandoned>>

(* Every object is dropped, or the bound on tokens is reached.             *)
Finished ==
  /\ minted = MaxTokens \/ \A c \in Client : point[c] = "gone"
  /\ UNCHANGED vars

Next ==
  \/ \E c \in Client :
       \/ \E attempts \in 1..MaxAttempts : Acquire(c, attempts)
       \/ SetAnswered(c) \/ SetFails(c) \/ GetAnswered(c) \/ GiveUp(c) \/ Retry(c)
       \/ Release(c) \/ ReleaseReturns(c) \/ DropLock(c) \/ Prevent(c)
  \/ \E t \in 1..minted : LateSet(t) \/ LoseSet(t) \/ RunDel(t) \/ LoseDel(t)
  \/ Expire
  \/ Finished

Spec == Init /\ [][Next]_vars

-----------------------------------------------------------------------------
(* While its lease lasts, the key belongs to the object that acquired it:  *)
(* no late SET, no retry and no stale release of another object or of an   *)
(* earlier acquisition takes it away.                                      *)
HolderOwnsKey ==
  \A c \in Client : token[c] # None /\ token[c] \notin expired => key = token[c]

(* Two objects whose acquire returned Some hold the lock together only if  *)
(* the lease of one has run out.                                           *)
MutualExclusion ==
  \A c, d \in Client :
    point[c] = "held" /\ point[d] = "held" /\ c # d =>
      token[c] \in expired \/ token[d] \in expired

(* No way out of acquire, try_acquire, release or Drop leaves the key      *)
(* behind for its whole TTL, unless a command failed, the release could    *)
(* not be sent, or prevent was called.                                     *)
NoKeyLeftBehind ==
  key = None \/ key \in abandoned \/ key \in dels
    \/ \E c \in Client : token[c] = key \/ (point[c] = "get" /\ trying[c] = key)

(* acquire returns Some only for a lock it has, and Ok(None) otherwise     *)
(* (redlock.rs:5).                                                         *)
AcquireReturnsLiveLock ==
  [][\A c \in Client :
       point[c] # "held" /\ point'[c] = "held" => token'[c] \notin expired]_vars
=============================================================================
