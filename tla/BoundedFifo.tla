----------------------------- MODULE BoundedFifo -----------------------------
(***************************************************************************)
(* What CacheMap promises, as a queue of distinct keys, oldest first.  An  *)
(* insertion into a full queue drops the head; the inserted key then goes  *)
(* to the end, also when the queue held it already.                        *)
(***************************************************************************)
EXTENDS Naturals, SequencesExt

CONSTANTS Key, Value, MaxSize     \* MaxSize is positive

VARIABLE queue      \* sequence of [key, value]

Without(q, k) ==
    IF \E i \in DOMAIN q : q[i].key = k
    THEN RemoveAt(q, CHOOSE i \in DOMAIN q : q[i].key = k)
    ELSE q

FifoInit == queue = <<>>

FifoInsert ==
    \E k \in Key, v \in Value :
        LET room == IF Len(queue) >= MaxSize THEN Tail(queue) ELSE queue
        IN  queue' = Append(Without(room, k), [key |-> k, value |-> v])

FifoSpec == FifoInit /\ [][FifoInsert]_queue
=============================================================================
