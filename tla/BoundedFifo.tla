---------------------------- MODULE BoundedFifo ----------------------------
(***************************************************************************)
(* What a ring of the bus promises its two ends: a first-in first-out      *)
(* queue of at most Cap frames that loses, repeats and reorders nothing,   *)
(* and out of which every frame is taken in the end.                       *)
(***************************************************************************)
EXTENDS Naturals, Sequences

CONSTANTS Value, Cap

VARIABLE queue

Init == queue \in UNION {[1 .. n -> Value] : n \in 0 .. Cap}

Put(v) == Len(queue) < Cap /\ queue' = Append(queue, v)
Take   == queue # <<>> /\ queue' = Tail(queue)

Next == Take \/ \E v \in Value : Put(v)

Safety == Init /\ [][Next]_queue

Spec == Safety /\ WF_queue(Take)

=============================================================================
