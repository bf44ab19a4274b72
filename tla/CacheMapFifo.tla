---------------------------- MODULE CacheMapFifo ----------------------------
(* The cache of stamped entries seen as a queue. *)
EXTENDS CacheMap, SequencesExt

(* The keys of the map, oldest first. *)
ByAge ==
    CHOOSE s \in SetToSeqs(DOMAIN map) :
        \A i, j \in DOMAIN s : i < j => map[s[i]].inserted < map[s[j]].inserted

(* And their entries. *)
Queue == [i \in DOMAIN ByAge |-> [key |-> ByAge[i], value |-> map[ByAge[i]].value]]

Fifo == INSTANCE BoundedFifo WITH queue <- Queue

(* The map of stamped entries behaves like a bounded queue: the entry that *)
(* was written longest ago goes first, whether or not it was read since,   *)
(* and a rewritten entry starts again at the end.                          *)
ImplementsFifo == Fifo!FifoSpec
=============================================================================
