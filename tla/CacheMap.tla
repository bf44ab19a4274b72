------------------------------ MODULE CacheMap ------------------------------
(***************************************************************************)
(* The bounded cache of src/src/cache_map.rs.  Each entry is stamped with  *)
(* the value a counter had when it was inserted; when the map is full, the *)
(* entry with the smallest stamp makes room.  Reading does not refresh an  *)
(* entry.  The cache holds the host names and the locations of IPs.        *)
(***************************************************************************)
EXTENDS Naturals, FiniteSets

CONSTANTS
    Key,
    Value,
    MaxSize,      \* max_size
    MaxInserts    \* bound: insertions in a run

ASSUME CacheAssumption ==
    /\ MaxSize \in Nat \ {0}       \* new() refuses zero (cache_map.rs:26)
    /\ MaxInserts \in Nat

VARIABLES
    map,          \* key -> [inserted, value]
    counter       \* stamp of the next entry

cacheVars == <<map, counter>>

Entry == [inserted : Nat, value : Value]

CacheInit ==
    /\ map = [k \in {} |-> [inserted |-> 0, value |-> 0]]
    /\ counter = 0

(* Mutant: the newest entry makes room. *)
OldestNewest == {k \in DOMAIN map : \A j \in DOMAIN map : map[k].inserted >= map[j].inserted}

(* min_by: the keys whose stamp is the smallest. *)
Oldest == {k \in DOMAIN map : \A j \in DOMAIN map : map[k].inserted <= map[j].inserted}

IsFull == Cardinality(DOMAIN map) >= MaxSize

(* The map with a new or replaced entry for k. *)
With(kept, k, v) ==
    [j \in kept \cup {k} |-> IF j = k THEN [inserted |-> counter, value |-> v] ELSE map[j]]

(* Mutant: only a new key advances the counter. *)
InsertReusingStamps(k, v) ==
    /\ IF IsFull
       THEN \E o \in Oldest : map' = With(DOMAIN map \ {o}, k, v)
       ELSE map' = With(DOMAIN map, k, v)
    /\ counter' = IF k \in DOMAIN map THEN counter ELSE counter + 1

(* insert() with prune(): in a full map room is made before looking        *)
(* whether the key is there, so a replacement may drop another entry.      *)
Insert(k, v) ==
    /\ IF IsFull
       THEN \E o \in Oldest : map' = With(DOMAIN map \ {o}, k, v)
       ELSE map' = With(DOMAIN map, k, v)
    /\ counter' = counter + 1

(* get() *)
Cached(k) == k \in DOMAIN map

CacheNext ==
    /\ counter < MaxInserts
    /\ \E k \in Key, v \in Value : Insert(k, v)

CacheSpec == CacheInit /\ [][CacheNext]_cacheVars

-----------------------------------------------------------------------------
(* Keys, values and stamps are what insert() puts together. *)
CacheTypeOK ==
    /\ DOMAIN map \subseteq Key
    /\ map \in [DOMAIN map -> Entry]
    /\ counter \in Nat

(* The cache never holds more than max_size entries (cache_map.rs:7). *)
SizeBound == Cardinality(DOMAIN map) <= MaxSize

(* No two entries carry the same stamp and none a future one, so there is  *)
(* exactly one oldest entry and prune() removes one that it may remove,    *)
(* however often keys are replaced.                                        *)
StampsUnique ==
    /\ \A k \in DOMAIN map : map[k].inserted < counter
    /\ \A j, k \in DOMAIN map : map[j].inserted = map[k].inserted => j = k
=============================================================================
