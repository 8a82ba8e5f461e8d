---------------------------- MODULE BoundedFifo ----------------------------
(***************************************************************************)
(* What a tCircularFifo promises: a sequence of at most `capacity` values, *)
(* first in, first out.  The assertions of its methods are preconditions   *)
(* that the caller has to meet.                                            *)
(***************************************************************************)
EXTENDS Integers, Sequences

CONSTANTS
    Values,         \* the elements (RdmaBuffer*)
    Null,           \* a null pointer
    Capacities      \* the sizes that reallocate is called with

VARIABLES
    queue,          \* the elements, the oldest first
    capacity,
    seen            \* the value that was last pushed or returned by front

vars == <<queue, capacity, seen>>

Init == queue = <<>> /\ capacity = 0 /\ seen = Null

Reallocate(n) == queue' = <<>> /\ capacity' = n /\ UNCHANGED seen

Push(v) ==
    /\ Len(queue) < capacity
    /\ queue' = Append(queue, v)
    /\ seen' = v
    /\ UNCHANGED capacity

Front ==
    /\ queue # <<>>
    /\ seen' = Head(queue)
    /\ UNCHANGED <<queue, capacity>>

Pop ==
    /\ queue # <<>>
    /\ queue' = Tail(queue)
    /\ UNCHANGED <<capacity, seen>>

Next ==
    \/ \E n \in Capacities : Reallocate(n)
    \/ \E v \in Values : Push(v)
    \/ Front
    \/ Pop

Spec == Init /\ [][Next]_vars

=============================================================================
