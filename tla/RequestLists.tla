---------------------------- MODULE RequestLists ----------------------------
(***************************************************************************)
(* The data structure behind AccessManager: tRequest objects that are      *)
(* taken from a pool and given back to it, each with two counts, a nesting *)
(* mask and an auto-reset event; and four lists of them, which count the   *)
(* accesses they hold (core/api/tAccessManager.h).  It is shown to         *)
(* implement AccessManager, which has none of this.  A list is a sequence  *)
(* of requests, a request a position in the sequence of all that were      *)
(* allocated.                                                              *)
(*                                                                         *)
(* ReleaseAll and AcquireAll, which only the unit tests call, are here     *)
(* too.  YieldExclusive and ReleaseAndReacquireAtEnd are private and have  *)
(* no callers, so that yieldedTo is never set: they are left out.          *)
(***************************************************************************)
EXTENDS Integers, Sequences, SequencesExt, FiniteSets, FiniteSetsExt

CONSTANTS
    Threads,
    MaxNest,            \* kMaxNestLevel: also the bits of the mask (32 in the code)
    InitialRequests,    \* kInitialNumberOfRequestsInAccessManager (32 in the code)
    Garbage,            \* bound: what the fields of fresh memory may hold
    MaxCalls            \* bound: calls of Acquire, Suspend and ReleaseAll

ASSUME RequestListsAssumption ==
    /\ MaxNest \in Nat \ {0} /\ {InitialRequests, MaxCalls} \subseteq Nat
    /\ Garbage \subseteq Nat

VARIABLES
    m,          \* the lists and the requests
    refcount, allRefsReleased, pc, want, closing, zeroSeen,   \* as in AccessManager
    all,        \* all[t]: where t is in ReleaseAll or AcquireAll, and its tAccessStack
    aborted,    \* an assertion failed
    was,        \* history: was[t]: t's accesses when it called ReleaseAll
    calls       \* history: calls of Acquire, Suspend and ReleaseAll

refs == <<refcount, allRefsReleased, pc, want, closing, zeroSeen>>
vars == <<m, refs, all, aborted, was, calls>>

Lists == {"active", "pending", "suspended", "empty"}
NULL  == 0
None  == [tid |-> "none"]

-----------------------------------------------------------------------------
(* tRequestList                                                            *)

\* Accesses in a list, not requests
Count(L, n) == L.shared[n] + L.exclusive[n]

Counted(L, n, r, sign) ==
    [L EXCEPT !.shared[n] = @ + sign * L.req[r].shared,
              !.exclusive[n] = @ + sign * L.req[r].exclusive]

Find(L, n, t) ==
    LET found == {r \in Range(L.list[n]) : L.req[r].tid = t}
    IN  IF found = {} THEN NULL ELSE CHOOSE r \in found : TRUE

RemoveRequest(L, n, r) ==
    Counted([L EXCEPT !.list[n] = RemoveAt(@, CHOOSE i \in DOMAIN @ : @[i] = r)], n, r, -1)

RemoveHead(L, n) ==
    Counted([L EXCEPT !.list[n] = Tail(@)], n, Head(L.list[n]), -1)

AddAtHead(L, n, r) == Counted([L EXCEPT !.list[n] = <<r>> \o @], n, r, 1)

AddAtTail(L, n, r) == Counted([L EXCEPT !.list[n] = Append(@, r)], n, r, 1)

-----------------------------------------------------------------------------
(* tRequest                                                                *)

RequestCount(q) == q.shared + q.exclusive

\* 1 << i
Two[i \in 0 .. MaxNest] == IF i = 0 THEN 1 ELSE 2 * Two[i - 1]

\* The mask is as wide as there are accesses; what is shifted out is lost.
Add(q, kind) ==
    LET bit == IF kind = "shared" THEN 1 ELSE 0
    IN  [q EXCEPT !.shared = @ + bit, !.exclusive = @ + 1 - bit,
                  !.nesting = (2 * @ + bit) % Two[MaxNest]]

LastIsExclusive(q) == q.nesting % 2 = 0

\* Mutant: the mask is not shifted back
RemoveLastKeepsMask(q) ==
    [q EXCEPT !.shared = IF LastIsExclusive(q) THEN @ ELSE @ - 1,
              !.exclusive = IF LastIsExclusive(q) THEN @ - 1 ELSE @]

RemoveLast(q) ==
    [q EXCEPT !.shared = IF LastIsExclusive(q) THEN @ ELSE @ - 1,
              !.exclusive = IF LastIsExclusive(q) THEN @ - 1 ELSE @,
              !.nesting = @ \div 2]

\* MakeNewRequest: the memory is not initialised, only the event is.
FreshRequest(g) ==
    [tid |-> None, shared |-> g, exclusive |-> g, nesting |-> g, signal |-> FALSE]

\* operator new: the top of the pool, or one more object when the pool is empty.
Allocate(L, g) ==
    IF L.list["empty"] # <<>>
    THEN [state |-> RemoveHead(L, "empty"), request |-> Head(L.list["empty"])]
    ELSE [state |-> [L EXCEPT !.req = Append(@, FreshRequest(g))],
          request |-> Len(L.req) + 1]

\* The constructor sets all but the mask, and then adds the first access.
Construct(L, r, t, kind) ==
    [L EXCEPT !.req[r] = Add([@ EXCEPT !.tid = t, !.shared = 0, !.exclusive = 0], kind)]

Signal(L, r) == [L EXCEPT !.req[r].signal = TRUE]

-----------------------------------------------------------------------------
(* SatisfyRequest                                                          *)

\* The second and third criterion
Compatible(L, r) ==
    /\ L.exclusive["active"] = 0
    /\ ~(L.req[r].exclusive > 0 /\ Count(L, "active") > 0)

\* SatisfyRequest(pendingRequests.RemoveHead(), kHighPriority | kDifferentThread)
SatisfyHead(L) ==
    IF L.list["pending"] = <<>> THEN L
    ELSE LET r  == Head(L.list["pending"])
             L1 == RemoveHead(L, "pending")
         IN  IF Compatible(L1, r) THEN Signal(AddAtHead(L1, "active", r), r)
             ELSE AddAtHead(L1, "pending", r)

\* SatisfyRequest(request): t's request r is in no list of L.
SatisfyRequest(t, L, r) ==
    IF Count(L, "pending") = 0 /\ Compatible(L, r)
    THEN m' = AddAtHead(L, "active", r) /\ pc' = [pc EXCEPT ![t] = "out"]
    ELSE /\ m' = AddAtTail(SatisfyHead(L), "pending", r)
         /\ pc' = [pc EXCEPT ![t] = "waiting"]

-----------------------------------------------------------------------------
(* What AccessManager has in place of this                                 *)

\* The low bits of the mask, as many as there are accesses: 1 is shared.
StackOf(q) ==
    [i \in 1 .. RequestCount(q) |->
        IF (q.nesting \div Two[RequestCount(q) - i]) % 2 = 1 THEN "shared" ELSE "exclusive"]

\* The request of t is not in the pool.
RequestOf(L, t) ==
    LET found == {r \in DOMAIN L.req \ Range(L.list["empty"]) : L.req[r].tid = t}
    IN  IF found = {} THEN NULL ELSE CHOOSE r \in found : TRUE

ThreadsIn(L, n) == {L.req[r].tid : r \in Range(L.list[n])}

PendingOf(L) == [i \in DOMAIN L.list["pending"] |-> L.req[L.list["pending"][i]].tid]

NestingOf(L) == [t \in Threads |-> IF RequestOf(L, t) = NULL THEN <<>>
                                    ELSE StackOf(L.req[RequestOf(L, t)])]

SignalOf(L) == [t \in Threads |-> RequestOf(L, t) # NULL /\ L.req[RequestOf(L, t)].signal]

AM == INSTANCE AccessManager WITH
        active    <- ThreadsIn(m, "active"),
        pending   <- PendingOf(m),
        suspended <- ThreadsIn(m, "suspended"),
        nesting   <- NestingOf(m),
        signal    <- SignalOf(m)

-----------------------------------------------------------------------------
(* tAccessManager                                                          *)

\* The constructor puts InitialRequests objects in the pool, the last one on top.
Init ==
    /\ \E g \in Garbage :
        m = [req       |-> [i \in 1 .. InitialRequests |-> FreshRequest(g)],
             list      |-> [n \in Lists |-> IF n = "empty"
                              THEN [i \in 1 .. InitialRequests |-> InitialRequests + 1 - i]
                              ELSE <<>>],
             shared    |-> [n \in Lists |-> IF n = "empty" THEN g * InitialRequests ELSE 0],
             exclusive |-> [n \in Lists |-> IF n = "empty" THEN g * InitialRequests ELSE 0]]
    /\ refcount = 0 /\ allRefsReleased = TRUE
    /\ pc = [t \in Threads |-> "out"] /\ want = [t \in Threads |-> "shared"]
    /\ closing = {} /\ zeroSeen = {}
    /\ all = [t \in Threads |-> [at |-> "no", stack |-> <<>>]]
    /\ aborted = FALSE
    /\ was = [t \in Threads |-> <<>>] /\ calls = 0

Unlisted == <<refcount, allRefsReleased, want, closing, zeroSeen, all, aborted, was, calls>>

\* Mutant: an access is added to a request that stays in its list
SharedInPlace(t) ==
    /\ pc[t] = "lock" /\ want[t] = "shared"
    /\ LET r == Find(m, "active", t)
       IN  \/ /\ r # NULL
              /\ m' = [m EXCEPT !.req[r] = Add(@, "shared")]
              /\ pc' = [pc EXCEPT ![t] = "out"]
           \/ /\ r = NULL
              /\ \E g \in Garbage :
                    LET new == Allocate(m, g)
                    IN  SatisfyRequest(t, Construct(new.state, new.request, t, "shared"),
                                       new.request)
    /\ UNCHANGED Unlisted

\* A request leaves its list before its counts change.
GetSharedAccess(t) ==
    /\ pc[t] = "lock" /\ want[t] = "shared"
    /\ LET r == Find(m, "active", t)
           L == RemoveRequest(m, "active", r)
       IN  \/ /\ r # NULL
              /\ m' = AddAtHead([L EXCEPT !.req[r] = Add(@, "shared")], "active", r)
              /\ pc' = [pc EXCEPT ![t] = "out"]
           \/ /\ r = NULL
              /\ \E g \in Garbage :
                    LET new == Allocate(m, g)
                    IN  SatisfyRequest(t, Construct(new.state, new.request, t, "shared"),
                                       new.request)
    /\ UNCHANGED Unlisted

GetExclusiveAccess(t) ==
    /\ pc[t] = "lock" /\ want[t] = "exclusive"
    /\ LET r == Find(m, "active", t)
           L == [RemoveRequest(m, "active", r) EXCEPT !.req[r] = Add(@, "exclusive")]
       IN  \/ /\ r # NULL /\ m.req[r].exclusive > 0
              /\ m' = AddAtHead(L, "active", r)
              /\ pc' = [pc EXCEPT ![t] = "out"]
           \/ r # NULL /\ m.req[r].exclusive = 0 /\ SatisfyRequest(t, L, r)
           \/ /\ r = NULL
              /\ \E g \in Garbage :
                    LET new == Allocate(m, g)
                    IN  SatisfyRequest(t, Construct(new.state, new.request, t, "exclusive"),
                                       new.request)
    /\ UNCHANGED Unlisted

\* The event resets itself and stays with the object.
WaitForSignal(t) ==
    /\ pc[t] = "waiting" /\ m.req[RequestOf(m, t)].signal
    /\ m' = [m EXCEPT !.req[RequestOf(m, t)].signal = FALSE]
    /\ pc' = [pc EXCEPT ![t] = "woken"]
    /\ UNCHANGED Unlisted

SatisfyNext(t) ==
    /\ pc[t] = "woken"
    /\ m' = SatisfyHead(m)
    /\ pc' = [pc EXCEPT ![t] = "out"]
    /\ UNCHANGED Unlisted

\* Release, under the lock: the request goes back to its list, or to the pool.
ReleaseAccess(t) ==
    /\ pc[t] = "out" /\ Find(m, "active", t) # NULL
    /\ LET r == Find(m, "active", t)
           L == [RemoveRequest(m, "active", r) EXCEPT !.req[r] = RemoveLast(@)]
           n == IF RequestCount(L.req[r]) > 0 THEN "active" ELSE "empty"
       IN  m' = SatisfyHead(AddAtHead(L, n, r))
    /\ pc' = [pc EXCEPT ![t] = "decref"]
    /\ UNCHANGED <<refcount, allRefsReleased, want, zeroSeen, aborted, calls>>

Release(t) ==
    /\ all[t].at = "no" /\ ReleaseAccess(t) /\ UNCHANGED <<closing, all, was>>

ReleaseAndWait(t) ==
    /\ all[t].at = "no" /\ Find(m, "active", t) # NULL
    /\ RequestCount(m.req[Find(m, "active", t)]) = 1
    /\ ReleaseAccess(t)
    /\ closing' = closing \cup {t}
    /\ UNCHANGED <<all, was>>

\* A request with exclusive access gets one more and loses it again, which would undo a
\* yielded access.  With a full mask the assertion of Add fails.
SuspendAccess(t) ==
    /\ pc[t] = "out" /\ all[t].at = "no" /\ Find(m, "active", t) # NULL
    /\ LET r == Find(m, "active", t)
           q == m.req[r]
           L == [RemoveRequest(m, "active", r) EXCEPT
                    !.req[r] = IF q.exclusive > 0 THEN RemoveLast(Add(@, "exclusive")) ELSE @]
       IN  IF q.exclusive > 0 /\ RequestCount(q) = MaxNest
           THEN aborted' = TRUE /\ UNCHANGED m
           ELSE m' = SatisfyHead(AddAtHead(L, "suspended", r)) /\ UNCHANGED aborted
    /\ calls < MaxCalls /\ calls' = calls + 1
    /\ UNCHANGED <<refs, all, was>>

ResumeAccess(t) ==
    /\ pc[t] = "out" /\ Find(m, "suspended", t) # NULL
    /\ LET r == Find(m, "suspended", t)
       IN  SatisfyRequest(t, RemoveRequest(m, "suspended", r), r)
    /\ UNCHANGED Unlisted

\* The steps outside the lock are those of AccessManager.
Acquire(t, kind) ==
    /\ all[t].at = "no" /\ calls < MaxCalls
    /\ calls' = calls + 1
    /\ UNCHANGED <<m, all, aborted, was>> /\ AM!IncRef(t, kind)

Outside(t) ==
    /\ UNCHANGED <<m, all, aborted, was, calls>>
    /\ \/ AM!ResetAllRefsReleased(t) \/ AM!DecRef(t) \/ AM!ReleaseAllRefsReleased(t)
       \/ AM!WaitForAllReferences(t)

-----------------------------------------------------------------------------
(* ReleaseAll and AcquireAll                                               *)

\* Each takes the request out of the list, puts it back and asks the counters of the list.
HasExclusiveAccess(t) == Find(m, "active", t) # NULL /\ m.exclusive["active"] > 0
HasSharedAccess(t) ==
    /\ Find(m, "active", t) # NULL
    /\ m.exclusive["active"] = 0 /\ m.shared["active"] > 0

ReleaseAll(t) ==
    /\ pc[t] = "out" /\ all[t].at = "no" /\ Find(m, "active", t) # NULL
    /\ all' = [all EXCEPT ![t].at = "release"]
    /\ was' = [was EXCEPT ![t] = NestingOf(m)[t]]
    /\ calls < MaxCalls /\ calls' = calls + 1
    /\ UNCHANGED <<m, refs, aborted>>

\* One round of the loop: what Release returns is pushed on the stack.
ReleaseNext(t) ==
    /\ pc[t] = "out" /\ all[t].at = "release"
    /\ HasExclusiveAccess(t) \/ HasSharedAccess(t)
    /\ all' = [all EXCEPT ![t].stack =
                  Append(@, IF LastIsExclusive(m.req[RequestOf(m, t)]) THEN "exclusive"
                            ELSE "shared")]
    /\ ReleaseAccess(t)
    /\ UNCHANGED <<closing, was>>

AcquireAll(t) ==
    /\ pc[t] = "out" /\ all[t].at = "release"
    /\ ~(HasExclusiveAccess(t) \/ HasSharedAccess(t))
    /\ all' = [all EXCEPT ![t].at = "acquire"]
    /\ UNCHANGED <<m, refs, aborted, was, calls>>

\* Mutant: the stack is gone through from its bottom
AcquireFirst(t) ==
    /\ pc[t] = "out" /\ all[t].at = "acquire"
    /\ \/ /\ all[t].stack # <<>>
          /\ UNCHANGED <<m, aborted, was, calls>> /\ AM!IncRef(t, Head(all[t].stack))
          /\ all' = [all EXCEPT ![t].stack = Tail(@)]
       \/ /\ all[t].stack = <<>>
          /\ all' = [all EXCEPT ![t].at = "no"]
          /\ was' = [was EXCEPT ![t] = <<>>]
          /\ UNCHANGED <<m, refs, aborted, calls>>

AcquireNext(t) ==
    /\ pc[t] = "out" /\ all[t].at = "acquire"
    /\ \/ /\ all[t].stack # <<>>
          /\ UNCHANGED <<m, aborted, was, calls>> /\ AM!IncRef(t, Last(all[t].stack))
          /\ all' = [all EXCEPT ![t].stack = Front(@)]
       \/ /\ all[t].stack = <<>>
          /\ all' = [all EXCEPT ![t].at = "no"]
          /\ was' = [was EXCEPT ![t] = <<>>]
          /\ UNCHANGED <<m, refs, aborted, calls>>

-----------------------------------------------------------------------------
\* A failed assertion ends the program.
Next ==
    /\ ~aborted
    /\ \E t \in Threads :
        \/ (\E kind \in AM!Kinds : Acquire(t, kind)) \/ Outside(t)
        \/ GetSharedAccess(t) \/ GetExclusiveAccess(t) \/ WaitForSignal(t) \/ SatisfyNext(t)
        \/ Release(t) \/ ReleaseAndWait(t) \/ SuspendAccess(t) \/ ResumeAccess(t)
        \/ ReleaseAll(t) \/ ReleaseNext(t) \/ AcquireAll(t) \/ AcquireNext(t)

Spec == Init /\ [][Next]_vars

-----------------------------------------------------------------------------
(* Properties                                                              *)

\* The accesses of a kind that the requests in a list have, numbered for each
Accesses(L, n, kind) == UNION {{r} \X (1 .. L.req[r][kind]) : r \in Range(L.list[n])}

\* Every object is in exactly one list, or is the one that a waiting or releasing call has
\* just handed on; and each list counts exactly the accesses of its requests, although the
\* counts of a request change in four functions, and fresh objects have any counts.  A
\* wrong count would let in, or keep out, everyone for ever.
\* tRequestList::AddAtHead, Remove, tAccessManager.h:1450-1516.
CountersExact ==
    /\ \A n \in Lists :
        /\ m.shared[n] = Cardinality(Accesses(m, n, "shared"))
        /\ m.exclusive[n] = Cardinality(Accesses(m, n, "exclusive"))
        /\ IsInjective(m.list[n])
    /\ \A r \in DOMAIN m.req :
        \E n \in Lists : \A k \in Lists : r \in Range(m.list[k]) <=> k = n

\* ReleaseAll and then AcquireAll give a thread the accesses that it had, in their order
\* ("Aquire access to the entity we're managing in the same order as in the access
\* stack"), whatever other threads do in between.  tAccessManager.h:359-405.
AcquireAllRestores ==
    \A t \in Threads :
        all[t].at = "acquire" /\ all[t].stack = <<>> /\ pc[t] = "out" =>
            NestingOf(m)[t] = was[t]

\* Recycled objects, their left-over masks and events, and the counters of the lists do
\* what the sets and stacks of AccessManager do: every step here is a step there.
ImplementsAccessManager == AM!Spec

=============================================================================
