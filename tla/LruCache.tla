------------------------------ MODULE LruCache ------------------------------
(***************************************************************************)
(* What a least-recently-used cache promises: a list of keys with their    *)
(* values, the most recently used first, never longer than its capacity.   *)
(* LruTable (strong_lru_hashtable) and Hyperlinks (lru_cache) implement it.*)
(***************************************************************************)
EXTENDS Naturals, Sequences, SequencesExt

CONSTANTS CacheKeys, CacheValues, Capacity

VARIABLES
  cache,         \* a sequence of <<key, value>>
  asked          \* the key of the last call, 0 without one

Held == {cache[i][1] : i \in DOMAIN cache}
PlaceOf(k) == CHOOSE i \in DOMAIN cache : cache[i][1] = k
Without(k) == IF k \in Held THEN RemoveAt(cache, PlaceOf(k)) ELSE cache

\* A key that is held becomes the most recent one.
Use(k) == k \in Held /\ cache' = <<cache[PlaceOf(k)]>> \o Without(k)
\* A key is given a value; a full cache first drops the least recently used key.
Put(k, v) ==
  LET rest == Without(k)
  IN  cache' = <<<<k, v>>>> \o (IF Len(rest) = Capacity THEN Front(rest) ELSE rest)
\* A value is written in place, by a constructor that has ended.
Assign(k, v) == k \in Held /\ cache' = [cache EXCEPT ![PlaceOf(k)] = <<k, v>>]
Drop(k) == cache' = Without(k)

CacheInit == cache = <<>> /\ asked = 0
CacheNext ==
  \/ \E k \in CacheKeys :
       /\ asked' = k
       /\ \/ Use(k)
          \/ k \notin Held /\ UNCHANGED cache
          \/ \E v \in CacheValues : Put(k, v)
  \/ /\ asked' = 0
     /\ \/ \E k \in CacheKeys : Drop(k) \/ \E v \in CacheValues : Assign(k, v)
        \/ cache' = <<>>
CacheSpec == CacheInit /\ [][CacheNext]_<<cache, asked>>
=============================================================================
