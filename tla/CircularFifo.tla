---------------------------- MODULE CircularFifo ----------------------------
(***************************************************************************)
(* tCircularFifo (core/common/tCircularFifo.h), the container of the four  *)
(* lists of a buffer queue: a ring in a vector.  It implements             *)
(* BoundedFifo.  Its names are apart from BufferQueue's, with which it is  *)
(* proved.                                                                 *)
(***************************************************************************)
EXTENDS Integers, Sequences

CONSTANTS
    Values,         \* the elements (RdmaBuffer*)
    Null,           \* what a new element of the vector holds
    Capacities      \* the sizes that reallocate is called with

ASSUME CapacitiesAssumption == Capacities \subseteq Nat

VARIABLES
    buffer,         \* _buffer, a vector: its elements from 0 on ...
    capacity,       \* ... and its size
    head,           \* _head
    size,           \* _size
    seen            \* the value that was last pushed or returned by front

ringVars == <<buffer, capacity, head, size, seen>>

\* Mutant: the index does not wrap
WriteIndexUnwrapped == head + size

getWriteIndex == (head + size) % capacity

getReadIndex(offset) == (head + offset) % capacity

\* The default constructor
RingInit ==
    /\ buffer = [i \in {} |-> Null]
    /\ capacity = 0
    /\ head = 0 /\ size = 0
    /\ seen = Null

clear == head' = 0 /\ size' = 0

\* Old elements that fit stay in the vector
reallocate(n) ==
    /\ clear
    /\ buffer' = [i \in 0 .. n - 1 |-> IF i < capacity THEN buffer[i] ELSE Null]
    /\ capacity' = n
    /\ UNCHANGED seen

push(v) ==
    /\ size + 1 <= capacity
    /\ buffer' = [buffer EXCEPT ![getWriteIndex] = v]
    /\ size' = size + 1
    /\ seen' = v
    /\ UNCHANGED <<capacity, head>>

front ==
    /\ size > 0
    /\ seen' = buffer[getReadIndex(0)]
    /\ UNCHANGED <<buffer, capacity, head, size>>

pop ==
    /\ size >= 1
    /\ head' = (head + 1) % capacity
    /\ size' = size - 1
    /\ UNCHANGED <<buffer, capacity, seen>>

RingNext ==
    \/ \E n \in Capacities : reallocate(n)
    \/ \E v \in Values : push(v)
    \/ front
    \/ pop

RingSpec == RingInit /\ [][RingNext]_ringVars

-----------------------------------------------------------------------------
(* Properties                                                              *)

\* The head is a position of the vector (or 0 while it is empty) and the ring
\* never holds more than the vector, so that no index leaves the vector, whatever
\* sequence of calls led there and however often the ring wrapped.
RingTypeOK ==
    /\ capacity \in Nat
    /\ buffer \in [0 .. capacity - 1 -> Values \cup {Null}]
    /\ head \in Nat /\ (head < capacity \/ head = 0)
    /\ size \in 0 .. capacity
    /\ seen \in Values \cup {Null}

\* The elements from the oldest to the newest
contents == [i \in 1 .. size |-> buffer[getReadIndex(i - 1)]]

Fifo == INSTANCE BoundedFifo WITH queue <- contents

\* The ring is a first in, first out queue: front returns, across every wrap of the
\* index, the oldest value that was pushed and not yet popped, and nothing that was
\* pushed is overwritten.
ImplementsFifo == Fifo!Spec

=============================================================================
