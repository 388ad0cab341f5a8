------------------------------ MODULE FifoCache -----------------------------
(***************************************************************************)
(* "The runtime caches immutable frame descriptions for up to 128 distinct *)
(* complete PC sequences ..., replacing old entries in insertion order"    *)
(* (README.md:304): a bounded queue of distinct keys.                      *)
(***************************************************************************)
EXTENDS Naturals, Sequences

CONSTANTS Keys, Capacity

VARIABLE queue

Cached(k) == \E i \in 1..Len(queue) : queue[i] = k

Init == queue = <<>>

Insert(k) ==
    /\ ~Cached(k)
    /\ queue' = Append(IF Len(queue) = Capacity THEN Tail(queue) ELSE queue, k)

Next == \E k \in Keys : Insert(k)

Spec == Init /\ [][Next]_queue
=============================================================================
