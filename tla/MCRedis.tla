------------------------------ MODULE MCRedis ------------------------------
(* What neon-redis does with a connection, in one run: the application     *)
(* either takes locks or reads through the cache; they share no key.       *)
EXTENDS RedLock, Redkit, TLC

VARIABLE part

Product(F, G) == {f @@ g : f \in F, g \in G}

(* Clients, callers and fields are interchangeable.                        *)
Symmetry ==
  Product(Permutations(Client), Product(Permutations(Caller), Permutations(Field)))

MCInit == Init /\ CacheInit /\ part \in {"lock", "cache"}

MCNext ==
  \/ part = "lock" /\ Next /\ UNCHANGED <<cacheVars, part>>
  \/ part = "cache" /\ CacheNext /\ UNCHANGED <<vars, part>>

MCSpec == MCInit /\ [][MCNext]_<<vars, cacheVars, part>>
=============================================================================
