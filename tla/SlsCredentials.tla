--------------------------- MODULE SlsCredentials ---------------------------
(***************************************************************************)
(* The credentials of a sink (sls/sink.rs): the client in the ArcSwap slot *)
(* and the task that asks the provider again, from                         *)
(* spawn_credentials_refresh_loop, as long as the pipeline runs.           *)
(*                                                                         *)
(* Time goes in units of Urgent or finer; sleep wakes when it is due.  The *)
(* task sleeps on the monotonic clock and reads expiries on the wall       *)
(* clock, which may jump ahead of it.                                      *)
(***************************************************************************)
EXTENDS Integers

CONSTANTS Urgent,       \* URGENT_CREDENTIALS_REFRESH_INTERVAL, 1 s
          MinInterval,  \* MIN_CREDENTIALS_REFRESH_INTERVAL, 60 s
          Ahead,        \* credentials_refresh_ahead
          Intervals,    \* what credentials_refresh_interval may be set to
          Lifetimes,    \* time until expire_time of what the provider returns
          Latency,      \* longest call of a provider that does not hang
          Jumps,        \* how far the wall clock may jump
          Forever       \* no expire_time; no interval; longer than all times

ASSUME CredentialsAssumption ==
  /\ Urgent \in Nat \ {0} /\ MinInterval \in Nat /\ Urgent <= MinInterval
  /\ Forever \in Nat /\ MinInterval < Forever
  /\ Ahead \in Nat /\ Latency \in Nat /\ Latency < Ahead
  /\ Intervals \subseteq 0..Forever /\ Lifetimes \subseteq Int /\ Jumps \subseteq Nat
  /\ \A l \in Lifetimes : l <= Forever

VARIABLES
  interval,  \* credentials_refresh_interval as normalized
  expiry,    \* time until the credentials of the client in the slot expire
  loop,      \* the refresh task
  wait,      \* time until it wakes
  running,   \* for how long the provider has been running
  healthy,   \* time since the provider failed, hung or granted too little
  pause,     \* time since the provider was called
  skewed     \* the clock has jumped since the last success

credVars == <<interval, expiry, loop, wait, running, healthy, pause, skewed>>

(* By then a provider that has recovered was asked again.                  *)
Recovery == MinInterval + Latency

CredTypeOK ==
  /\ interval \in MinInterval..Forever
  /\ expiry \in 0..Forever
  /\ loop \in {"off", "sleep", "provide"}
  /\ wait \in 0..Forever
  /\ running \in 0..Latency + 1
  /\ healthy \in 0..Recovery + 1
  /\ pause \in 0..MinInterval

AtMost(x, bound) == IF x > bound THEN bound ELSE x

AtLeast(x, bound) == IF x < bound THEN bound ELSE x

-----------------------------------------------------------------------------
(* Mutants of RefreshDelay: the minimum also inside the window; and the    *)
(* credentials are renewed when they expire.                               *)
RefreshDelayMin(life) ==
  IF life = Forever THEN interval ELSE AtLeast(life - Ahead, MinInterval)

RefreshDelayLate(life) ==
  IF life = Forever THEN interval ELSE AtLeast(life, Urgent)

(* refresh_delay_for; Forever stands for None.                             *)
RefreshDelay(life) ==
  IF life = Forever THEN interval
  ELSE IF AtLeast(life, 0) <= Ahead THEN Urgent
  ELSE life - Ahead

Sleep(delay) == loop' = "sleep" /\ wait' = delay

(* The client is in the slot; without a delay there is no next round.      *)
Schedule(life) ==
  IF RefreshDelay(life) = Forever THEN loop' = "off" /\ wait' = 0
  ELSE Sleep(RefreshDelay(life))

(* Lives long enough to be renewed in time, also within the window.        *)
Sufficient(life) == life > Urgent + Latency

(* normalized: an interval that is set is not shorter than the least.      *)
Normalized(i) == IF i = Forever THEN i ELSE AtLeast(i, MinInterval)

CredInit ==
  /\ interval \in {Normalized(i) : i \in Intervals}
  /\ \E life \in Lifetimes :
       /\ expiry = AtLeast(life, 0)
       /\ IF RefreshDelay(life) = Forever THEN loop = "off" /\ wait = 0
          ELSE loop = "sleep" /\ wait = RefreshDelay(life)
       /\ healthy = IF Sufficient(life) THEN Recovery + 1 ELSE 0
  /\ running = 0
  /\ pause = 0
  /\ skewed = FALSE

-----------------------------------------------------------------------------
(* The sleep is over: spawn_blocking calls the provider.                   *)
CallProvider ==
  /\ loop = "sleep" /\ wait = 0
  /\ loop' = "provide"
  /\ running' = 0
  /\ pause' = 0
  /\ UNCHANGED <<interval, expiry, wait, healthy, skewed>>

(* New credentials, a client of them, and the slot has it.                 *)
Renew(life) ==
  /\ loop = "provide"
  /\ expiry' = AtLeast(life, 0)
  /\ Schedule(life)
  /\ healthy' = IF Sufficient(life) THEN healthy ELSE 0
  /\ running' = 0
  /\ skewed' = FALSE
  /\ UNCHANGED <<interval, pause>>

(* Mutant of RenewFails: an error ends the task.                           *)
RenewFailsForGood ==
  /\ loop = "provide"
  /\ loop' = "off"
  /\ healthy' = 0
  /\ running' = 0
  /\ UNCHANGED <<interval, expiry, wait, pause, skewed>>

(* The provider returns an error or panics, or no client can be built: the *)
(* slot keeps what it has.                                                 *)
RenewFails ==
  /\ loop = "provide"
  /\ Sleep(MinInterval)
  /\ healthy' = 0
  /\ running' = 0
  /\ UNCHANGED <<interval, expiry, pause, skewed>>

After(time, passed) == IF time = Forever THEN Forever ELSE AtLeast(time - passed, 0)

(* One unit of time.                                                       *)
Pass ==
  /\ ~(loop = "sleep" /\ wait = 0)
  /\ expiry' = After(expiry, 1)
  /\ wait' = AtLeast(wait - 1, 0)
  /\ running' = IF loop = "provide" THEN AtMost(running + 1, Latency + 1) ELSE 0
  /\ healthy' = IF running' > Latency THEN 0 ELSE AtMost(healthy + 1, Recovery + 1)
  /\ pause' = AtMost(pause + 1, MinInterval)
  /\ UNCHANGED <<interval, loop, skewed>>

(* The wall clock is set, or the machine was suspended.                    *)
Jump(time) ==
  /\ expiry' = After(expiry, time)
  /\ skewed' = TRUE
  /\ UNCHANGED <<interval, loop, wait, running, healthy, pause>>

CredNext ==
  \/ CallProvider \/ RenewFails
  \/ \E life \in Lifetimes : Renew(life)
  \/ Pass
  \/ \E time \in Jumps : Jump(time)

CredSpec == CredInit /\ [][CredNext]_credVars

-----------------------------------------------------------------------------
(* PutLogs is never signed with expired credentials while the provider     *)
(* does its part: credentials may be expired only until Recovery after it  *)
(* failed, hung or granted too little, or after a jump of the clock.       *)
ClientIsFresh == expiry > 0 \/ healthy <= Recovery \/ skewed

(* With an Ahead longer than the credentials live, the refresh falls back  *)
(* to the shortest interval, 60 s (sink.rs:308).                           *)
RefreshIsPaced == [][pause' < pause => pause >= MinInterval]_credVars
=============================================================================
