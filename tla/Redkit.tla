------------------------------- MODULE Redkit -------------------------------
(***************************************************************************)
(* The cache helpers of neon-redis (redkit.rs): get_or_set on string keys, *)
(* hget_or_set on the fields of one hash, and the helpers that read many.  *)
(*                                                                         *)
(* Time goes in seconds.  The source of the loaders has one value, which   *)
(* may be absent.  A call whose GET fails, finds a value, or finds content *)
(* that does not parse, ends there and changes nothing; what is left of a  *)
(* call begins with a miss.                                                *)
(***************************************************************************)
EXTENDS Integers, Sequences, SequencesExt

CONSTANTS Caller, Value, Key, Field,
          MaxTtl   \* the longest ttl a caller gives, in seconds

ASSUME CacheAssumption ==
  /\ MaxTtl \in Nat \ {0}
  /\ Key \cap Field = {} /\ "hash" \notin Key
  /\ {"nothing", "bad"} \cap Value = {} /\ "nothing" \notin Key \cup Field

Place == Key \cup Field

(* The key of Redis that holds a place: all fields are in one hash.        *)
Home(p) == IF p \in Key THEN p ELSE "hash"

Homes == Key \cup {"hash"}

Nothing == "nothing"   \* nil, or None from the loader

Bad == "bad"           \* content that is no JSON of the type

NoTtl == -1            \* the answer of TTL; ttl None

VARIABLES
  source,   \* what the loader finds
  entry,    \* content of each place, and whether a call with a ttl stored it
  remain,   \* TTL of each key of Redis
  call,     \* the call each caller is in, after its miss
  quiet,    \* seconds since the source changed or an older value was stored
  asked     \* a call that reads many, and its answer

cacheVars == <<source, entry, remain, call, quiet, asked>>

Idle == [at |-> "idle", place |-> Nothing, ttl |-> NoTtl, got |-> Nothing]

Missing == [val |-> Nothing, timed |-> FALSE]

CacheTypeOK ==
  /\ source \in Value \cup {Nothing}
  /\ entry \in [Place -> [val : Value \cup {Nothing, Bad}, timed : BOOLEAN]]
  /\ remain \in [Homes -> NoTtl..MaxTtl]
  /\ call \in [Caller -> [at : {"idle", "load", "store"}, place : Place \cup {Nothing},
                          ttl : NoTtl..MaxTtl, got : Value \cup {Nothing}]]
  /\ quiet \in 0..MaxTtl

CacheInit ==
  /\ source \in Value
  /\ entry = [p \in Place |-> Missing]
  /\ remain = [h \in Homes |-> NoTtl]
  /\ call = [c \in Caller |-> Idle]
  /\ quiet = 0
  /\ asked = <<>>

-----------------------------------------------------------------------------
(* Redis                                                                   *)

Exists(h, e) == \E p \in Place : Home(p) = h /\ e[p].val # Nothing

(* TTL: -2 without the key, -1 without an expiry.                          *)
TtlOf(h, e) == IF Exists(h, e) THEN remain[h] ELSE -2

(* A key that has no content has no TTL.                                   *)
Tidy(r, e) == [h \in Homes |-> IF Exists(h, e) THEN r[h] ELSE NoTtl]

Without(h, e) == [p \in Place |-> IF Home(p) = h THEN Missing ELSE e[p]]

Put(p, v, timed) == [entry EXCEPT ![p] = [val |-> v, timed |-> timed]]

Update(e, r) == entry' = e /\ remain' = Tidy(r, e)

(* EXPIRE deletes a key at once if the time is not positive.               *)
ExpireKey(h, secs, e) ==
  IF secs <= 0 THEN Update(Without(h, e), remain)
  ELSE Update(e, [remain EXCEPT ![h] = secs])

-----------------------------------------------------------------------------
(* get_or_set and hget_or_set                                              *)

Miss(c, p, ttl) ==
  /\ call[c] = Idle
  /\ entry[p].val = Nothing
  /\ call' = [call EXCEPT ![c] = [at |-> "load", place |-> p, ttl |-> ttl, got |-> Nothing]]
  /\ UNCHANGED <<source, entry, remain, quiet, asked>>

(* The loader answers; an error or None ends the call, nothing is stored.  *)
Load(c) ==
  /\ call[c].at = "load"
  /\ IF source = Nothing
     THEN call' = [call EXCEPT ![c] = Idle]
     ELSE call' = [call EXCEPT ![c].at = "store", ![c].got = source]
  /\ UNCHANGED <<source, entry, remain, quiet, asked>>

LoaderFails(c) ==
  /\ call[c].at = "load"
  /\ call' = [call EXCEPT ![c] = Idle]
  /\ UNCHANGED <<source, entry, remain, quiet, asked>>

(* SETEX, which refuses a time of zero, or SET, which ends a TTL.          *)
StoreString(c) ==
  LET k == call[c].place
      t == call[c].ttl
  IN  IF t = 0 THEN UNCHANGED <<entry, remain>>
      ELSE Update(Put(k, call[c].got, t # NoTtl), [remain EXCEPT ![k] = t])

(* Mutants of StoreField: two commands, the second of which is lost; and a *)
(* script that takes the answer for a missing key for that without a TTL.  *)
StoreFieldInTwo(c) ==
  LET e == Put(call[c].place, call[c].got, call[c].ttl # NoTtl)
  IN  \/ Update(e, remain)
      \/ call[c].ttl # NoTtl /\ TtlOf("hash", e) = -1 /\ ExpireKey("hash", call[c].ttl, e)

StoreFieldOnNew(c) ==
  LET e == Put(call[c].place, call[c].got, call[c].ttl # NoTtl)
  IN  IF call[c].ttl # NoTtl /\ TtlOf("hash", entry) = -2
      THEN ExpireKey("hash", call[c].ttl, e)
      ELSE Update(e, remain)

(* HSET, with a ttl within the script, which Redis executes as one: the    *)
(* TTL of a hash that has one is left alone.                               *)
StoreField(c) ==
  LET e == Put(call[c].place, call[c].got, call[c].ttl # NoTtl)
  IN  IF call[c].ttl # NoTtl /\ TtlOf("hash", e) = -1
      THEN ExpireKey("hash", call[c].ttl, e)
      ELSE Update(e, remain)

Store(c) ==
  /\ call[c].at = "store"
  /\ IF call[c].place \in Key THEN StoreString(c) ELSE StoreField(c)
  /\ call' = [call EXCEPT ![c] = Idle]
  /\ quiet' = IF call[c].got = source THEN quiet ELSE 0
  /\ UNCHANGED <<source, asked>>

(* The command fails, which is logged, or the future of the call is        *)
(* dropped.  If Redis executes the command after all, that is Store, late. *)
StoreFails(c) ==
  /\ call[c].at # "idle"
  /\ call' = [call EXCEPT ![c] = Idle]
  /\ UNCHANGED <<source, entry, remain, quiet, asked>>

-----------------------------------------------------------------------------
(* mget_map, mget_str_map, hmget_map, hmget_str_map, hgetall               *)

Failed == [ok |-> FALSE, map |-> <<>>]

(* Mutant of Pair: the nils are left out before keys and values are paired. *)
PairFound(ps, raw) ==
  LET found == SelectSeq(raw, LAMBDA v : v # Nothing)
  IN  [p \in {ps[i] : i \in DOMAIN found} |-> found[SelectLastInSeq(ps, LAMBDA q : q = p)]]

(* The keys and the answer of Redis, pair by pair; a nil is skipped, and   *)
(* of equal keys the last is kept.                                         *)
Pair(ps, raw) ==
  [p \in {ps[i] : i \in {j \in DOMAIN ps : raw[j] # Nothing}} |->
     raw[SelectLastInSeq(ps, LAMBDA q : q = p)]]

Answer(map, typed) ==
  IF typed /\ \E p \in DOMAIN map : map[p] = Bad THEN Failed ELSE [ok |-> TRUE, map |-> map]

(* MGET and HMGET are one command, and none without keys.                  *)
ReadMany(ps, typed) ==
  LET raw == [i \in DOMAIN ps |-> entry[ps[i]].val]
  IN  /\ asked = <<>>
      /\ asked' = [places |-> ToSet(ps), typed |-> typed, ans |-> Answer(Pair(ps, raw), typed)]
      /\ UNCHANGED <<source, entry, remain, call, quiet>>

(* HGETALL                                                                 *)
ReadHash ==
  LET map == [f \in {g \in Field : entry[g].val # Nothing} |-> entry[f].val]
  IN  /\ asked = <<>>
      /\ asked' = [places |-> Field, typed |-> TRUE, ans |-> Answer(map, TRUE)]
      /\ UNCHANGED <<source, entry, remain, call, quiet>>

TakeAnswer ==
  /\ asked # <<>>
  /\ asked' = <<>>
  /\ UNCHANGED <<source, entry, remain, call, quiet>>

-----------------------------------------------------------------------------
(* The world outside.                                                      *)

ChangeSource(v) ==
  /\ v # source
  /\ source' = v
  /\ quiet' = 0
  /\ UNCHANGED <<entry, remain, call, asked>>

(* The application deletes a key or a field, or Redis evicts a key.        *)
Forget(places) ==
  /\ Update([p \in Place |-> IF p \in places THEN Missing ELSE entry[p]], remain)
  /\ UNCHANGED <<source, call, quiet, asked>>

(* Another program stores something else: SET or HSET.                     *)
Spoil(p) ==
  /\ Update(Put(p, Bad, FALSE), IF p \in Key THEN [remain EXCEPT ![p] = NoTtl] ELSE remain)
  /\ UNCHANGED <<source, call, quiet, asked>>

(* A second passes.                                                        *)
Second ==
  LET due == {h \in Homes : remain[h] = 1}
  IN  /\ Update([p \in Place |-> IF Home(p) \in due THEN Missing ELSE entry[p]],
                [h \in Homes |-> IF remain[h] = NoTtl THEN NoTtl ELSE remain[h] - 1])
      /\ quiet' = IF quiet = MaxTtl THEN MaxTtl ELSE quiet + 1
      /\ UNCHANGED <<source, call, asked>>

(* An answer is of the moment of its command: nothing is gained by letting *)
(* others move before it is looked at.                                     *)
CacheNext ==
  \/ /\ asked = <<>>
     /\ \/ \E c \in Caller :
             \/ \E p \in Place, ttl \in NoTtl..MaxTtl : Miss(c, p, ttl)
             \/ Load(c) \/ LoaderFails(c) \/ Store(c) \/ StoreFails(c)
        \/ \E v \in Value \cup {Nothing} : ChangeSource(v)
        \/ \E h \in Homes : Forget({p \in Place : Home(p) = h})
        \/ \E f \in Field : Forget({f})
        \/ \E p \in Place : Spoil(p)
        \/ Second
  \/ \E S \in {Key, Field}, typed \in BOOLEAN :
       \E ps \in SeqOf(S, 3) : ReadMany(ps, typed)
  \/ ReadHash \/ TakeAnswer

CacheSpec == CacheInit /\ [][CacheNext]_cacheVars

-----------------------------------------------------------------------------
(* What was cached with a ttl is not older than the ttl: once the source   *)
(* has stood still for that long, and no older value was stored meanwhile, *)
(* get_or_set and hget_or_set find its value or nothing, whatever other    *)
(* callers store without a ttl in the same hash, with another one, or      *)
(* late.                                                                   *)
StaleGoes ==
  quiet = MaxTtl => \A p \in Place : entry[p].timed => entry[p].val = source

(* What is read of many keys or fields is keyed by its own name: no nil,   *)
(* and no key asked for twice, shifts a value to another key.              *)
MapsAreOwn ==
  asked # <<>> /\ asked.ans.ok =>
    asked.ans.map = [p \in {q \in asked.places : entry[q].val # Nothing} |-> entry[p].val]
=============================================================================
