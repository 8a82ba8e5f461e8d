--------------------------- MODULE AccessManager ---------------------------
(***************************************************************************)
(* The reentrant shared/exclusive access lock of one session               *)
(* (core/api/tAccessManager.h), as driven by tAccessManagedRef and         *)
(* tAccessSuspender.  Everything done under criticalSection is one action; *)
(* the atomic refcount, the allRefsReleased event and each request's       *)
(* auto-reset signal are touched outside it and are steps of their own.    *)
(*                                                                         *)
(* A thread has at most one tRequest, so a request is named by its thread. *)
(* Active and suspended requests are looked up by thread id only: they are *)
(* sets.  The pending list is a FIFO: it is a sequence.  The emptyRequests *)
(* pool that recycles request objects is left out.                         *)
(***************************************************************************)
EXTENDS Integers, Sequences

CONSTANTS
    Threads,    \* the threads that call into the session
    MaxNest     \* accesses one thread may stack (kMaxNestLevel, 32, in the code)

ASSUME MaxNestAssumption == MaxNest \in Nat \ {0}

VARIABLES
    active,     \* activeRequests: threads that have access
    pending,    \* pendingRequests: threads waiting for access, oldest first
    suspended,  \* suspendedRequests: threads that put their access aside
    nesting,    \* nesting[t]: stack of "shared" and "exclusive", last is top
    signal,     \* signal[t]: the auto-reset event of t's request is set
    refcount,   \* number of references, counted from before the acquire
    allRefsReleased,  \* manual-reset event: is it signalled
    pc,         \* pc[t]: where t is in the code
    want,       \* want[t]: the kind of access t's Acquire asks for
    closing,    \* threads inside ReleaseAndWaitForAllReferencesGone
    zeroSeen    \* history: those of closing during whose call refcount was 0

lists == <<active, pending, suspended, nesting, signal>>
refs  == <<refcount, allRefsReleased, closing, zeroSeen>>
vars  == <<active, pending, suspended, nesting, signal,
           refcount, allRefsReleased, pc, want, closing, zeroSeen>>

Kinds == {"shared", "exclusive"}

\* "out": not inside a call of the access manager
Places == {"out", "reset", "lock", "waiting", "woken", "decref", "release",
           "waitrefs"}

-----------------------------------------------------------------------------
(* tRequest and tRequestList                                               *)

\* tRequest::CountExclusive() > 0
HasExclusive(stack) == \E i \in DOMAIN stack : stack[i] = "exclusive"

\* Mutant: one Release drops every nested access
RemoveAll(stack) == <<>>

\* tRequest::RemoveLast
RemoveLast(stack) == SubSeq(stack, 1, Len(stack) - 1)

\* tRequest::Add asserts that the nesting limit is not reached.  Mutant: off by one
MayNestOnceMore(t) == Len(nesting[t]) <= MaxNest
MayNest(t) == Len(nesting[t]) < MaxNest

\* Mutant: an admitted thread is not signalled
SignalLost(t) == UNCHANGED signal

\* tRequest::Signal
Signal(t) == signal' = [signal EXCEPT ![t] = TRUE]

\* Mutant: an exclusive request does not wait for the readers
CompatibleWithReaders(t, act, nst) == \A u \in act : ~HasExclusive(nst[u])

\* The part of SatisfyRequest's test that does not depend on the priority: t's
\* request (with the nesting nst) is compatible with the active requests act.
Compatible(t, act, nst) ==
    /\ \A u \in act : ~HasExclusive(nst[u])
    /\ HasExclusive(nst[t]) => act = {}

\* The oldest pending request could be satisfied
HeadIsCompatible(act, nst) ==
    pending # <<>> /\ Compatible(Head(pending), act, nst)

\* SatisfyRequest(pendingRequests.RemoveHead(), kHighPriority|kDifferentThread):
\* the oldest pending request becomes active and its thread is signalled, or it
\* keeps its place.  `more` is what the caller then adds at the tail.
SatisfyHead(act, nst, more) ==
    \/ /\ HeadIsCompatible(act, nst)
       /\ active' = act \cup {Head(pending)}
       /\ pending' = Tail(pending) \o more
       /\ Signal(Head(pending))
    \/ /\ ~HeadIsCompatible(act, nst)
       /\ active' = act
       /\ pending' = pending \o more
       /\ UNCHANGED signal

\* Mutant: a new request overtakes the pending ones
MayBarge(t, act, nst) == Compatible(t, act, nst)

\* Without kHighPriority a request is satisfied only if nobody is pending
MayEnter(t, act, nst) == pending = <<>> /\ Compatible(t, act, nst)

\* SatisfyRequest(request) with the default flags, for t's own request: t gets
\* access at once only if nobody is pending; otherwise it admits the head,
\* queues up behind everybody and waits with criticalSection unlocked.
SatisfyRequest(t, act, nst) ==
    \/ /\ MayEnter(t, act, nst)
       /\ active' = act \cup {t}
       /\ pc' = [pc EXCEPT ![t] = "out"]
       /\ UNCHANGED <<pending, signal>>
    \/ /\ ~MayEnter(t, act, nst)
       /\ SatisfyHead(act, nst, <<t>>)
       /\ pc' = [pc EXCEPT ![t] = "waiting"]

\* The threads on the pending list
PendingThreads == {pending[i] : i \in DOMAIN pending}

-----------------------------------------------------------------------------
Init ==
    /\ active = {}
    /\ pending = <<>>
    /\ suspended = {}
    /\ nesting = [t \in Threads |-> <<>>]
    /\ signal = [t \in Threads |-> FALSE]
    /\ refcount = 0
    /\ allRefsReleased = TRUE
    /\ pc = [t \in Threads |-> "out"]
    /\ want = [t \in Threads |-> "shared"]
    /\ closing = {}
    /\ zeroSeen = {}

\* Acquire(exclusive), first step: IncRef's ++refcount.  A thread with a
\* suspended request may not acquire (the rule stated in GetSharedAccess).
IncRef(t, kind) ==
    /\ pc[t] = "out"
    /\ t \notin suspended
    /\ MayNest(t)
    /\ refcount' = refcount + 1
    /\ pc' = [pc EXCEPT ![t] = IF refcount' = 1 THEN "reset" ELSE "lock"]
    /\ want' = [want EXCEPT ![t] = kind]
    /\ UNCHANGED <<lists, allRefsReleased, closing, zeroSeen>>

\* IncRef, second step, taken by the thread that counted from 0 to 1
ResetAllRefsReleased(t) ==
    /\ pc[t] = "reset"
    /\ allRefsReleased' = FALSE
    /\ pc' = [pc EXCEPT ![t] = "lock"]
    /\ UNCHANGED <<lists, refcount, closing, want, zeroSeen>>

\* GetSharedAccess
GetSharedAccess(t) ==
    /\ pc[t] = "lock"
    /\ want[t] = "shared"
    /\ nesting' = [nesting EXCEPT ![t] = Append(@, "shared")]
    /\ \/ /\ t \in active
          /\ pc' = [pc EXCEPT ![t] = "out"]
          /\ UNCHANGED <<active, pending, signal>>
       \/ /\ t \notin active
          /\ SatisfyRequest(t, active, nesting')
    /\ UNCHANGED <<suspended, refs, want>>

\* GetExclusiveAccess: a thread that only has shared access leaves the active
\* list, and so gives that access up, until its upgraded request is satisfied.
GetExclusiveAccess(t) ==
    /\ pc[t] = "lock"
    /\ want[t] = "exclusive"
    /\ nesting' = [nesting EXCEPT ![t] = Append(@, "exclusive")]
    /\ \/ /\ t \in active /\ HasExclusive(nesting[t])
          /\ pc' = [pc EXCEPT ![t] = "out"]
          /\ UNCHANGED <<active, pending, signal>>
       \/ /\ ~(t \in active /\ HasExclusive(nesting[t]))
          /\ SatisfyRequest(t, active \ {t}, nesting')
    /\ UNCHANGED <<suspended, refs, want>>

\* Mutant: the wait returns although nobody signalled
WaitForSignalSpurious(t) ==
    /\ pc[t] = "waiting"
    /\ pc' = [pc EXCEPT ![t] = "woken"]
    /\ UNCHANGED <<lists, refs, want>>

\* WaitForSignal returns and resets the event of t's request
WaitForSignal(t) ==
    /\ pc[t] = "waiting"
    /\ signal[t]
    /\ signal' = [signal EXCEPT ![t] = FALSE]
    /\ pc' = [pc EXCEPT ![t] = "woken"]
    /\ UNCHANGED <<active, pending, suspended, nesting, refs, want>>

\* Mutant: an admitted thread admits nobody in turn
SatisfyNobody(t) ==
    /\ pc[t] = "woken"
    /\ pc' = [pc EXCEPT ![t] = "out"]
    /\ UNCHANGED <<lists, refs, want>>

\* The rest of SatisfyRequest after the wait: back under the lock, the thread
\* that was admitted tries to admit the next one.
SatisfyNext(t) ==
    /\ pc[t] = "woken"
    /\ SatisfyHead(active, nesting, <<>>)
    /\ pc' = [pc EXCEPT ![t] = "out"]
    /\ UNCHANGED <<suspended, nesting, refs, want>>

\* Release, the part under the lock: t's last access is removed, the request is
\* freed if it was the only one, and the oldest pending request is tried.
ReleaseAccess(t) ==
    /\ pc[t] = "out"
    /\ t \in active
    /\ nesting' = [nesting EXCEPT ![t] = RemoveLast(@)]
    /\ SatisfyHead(IF Len(nesting[t]) > 1 THEN active ELSE active \ {t},
                   nesting', <<>>)
    /\ pc' = [pc EXCEPT ![t] = "decref"]
    /\ UNCHANGED <<suspended, refcount, allRefsReleased, zeroSeen, want>>

Release(t) == ReleaseAccess(t) /\ UNCHANGED closing

\* ReleaseAndWaitForAllReferencesGone: the caller drops its only reference
ReleaseAndWait(t) ==
    /\ Len(nesting[t]) = 1
    /\ ReleaseAccess(t)
    /\ closing' = closing \cup {t}

\* What follows the release: the wait for the event, or the end of the call
AfterRelease(t) == IF t \in closing THEN "waitrefs" ELSE "out"

\* Release, after the lock: DecRef's --refcount
DecRef(t) ==
    /\ pc[t] = "decref"
    /\ refcount' = refcount - 1
    /\ pc' = [pc EXCEPT ![t] = IF refcount' = 0 THEN "release"
                                              ELSE AfterRelease(t)]
    /\ zeroSeen' = IF refcount' = 0 THEN closing ELSE zeroSeen
    /\ UNCHANGED <<lists, allRefsReleased, closing, want>>

\* DecRef, second step, taken by the thread that counted down to 0
ReleaseAllRefsReleased(t) ==
    /\ pc[t] = "release"
    /\ allRefsReleased' = TRUE
    /\ pc' = [pc EXCEPT ![t] = AfterRelease(t)]
    /\ UNCHANGED <<lists, refcount, closing, want, zeroSeen>>

\* SuspendAccess, from the tAccessSuspender that surrounds a blocking wait
SuspendAccess(t) ==
    /\ pc[t] = "out"
    /\ t \in active
    /\ suspended' = suspended \cup {t}
    /\ SatisfyHead(active \ {t}, nesting, <<>>)
    /\ UNCHANGED <<nesting, refs, pc, want>>

\* ResumeAccess: the suspended request goes through SatisfyRequest again
ResumeAccess(t) ==
    /\ pc[t] = "out"
    /\ t \in suspended
    /\ suspended' = suspended \ {t}
    /\ SatisfyRequest(t, active, nesting)
    /\ UNCHANGED <<nesting, refs, want>>

\* WaitForAllReferencesToBeReleased returns: the manual-reset event is signalled
WaitForAllReferences(t) ==
    /\ pc[t] = "waitrefs"
    /\ allRefsReleased
    /\ pc' = [pc EXCEPT ![t] = "out"]
    /\ closing' = closing \ {t}
    /\ zeroSeen' = zeroSeen \ {t}
    /\ UNCHANGED <<lists, refcount, allRefsReleased, want>>

-----------------------------------------------------------------------------
\* What t does inside a call without needing anybody else's permission
Proceed(t) ==
    \/ ResetAllRefsReleased(t)
    \/ GetSharedAccess(t)
    \/ GetExclusiveAccess(t)
    \/ WaitForSignal(t)
    \/ SatisfyNext(t)
    \/ DecRef(t)
    \/ ReleaseAllRefsReleased(t)
    \/ WaitForAllReferences(t)

\* The calls t may make
Call(t) ==
    \/ \E kind \in Kinds : IncRef(t, kind)
    \/ Release(t)
    \/ ReleaseAndWait(t)
    \/ SuspendAccess(t)
    \/ ResumeAccess(t)

Next == \E t \in Threads : Proceed(t) \/ Call(t)

Spec == Init /\ [][Next]_vars

\* The operating system schedules every thread inside a call, and a thread that
\* suspended its access resumes it: the waits it surrounds are left by a
\* completion, a timeout or an abort.
Fairness == \A t \in Threads : WF_vars(Proceed(t)) /\ WF_vars(ResumeAccess(t))

FairSpec == Spec /\ Fairness

-----------------------------------------------------------------------------
(* Properties                                                              *)

\* How deep t's nesting is, or will be once the Acquire it is in gets the lock
NestingDepth(t) ==
    IF pc[t] \in {"reset", "lock"} THEN Len(nesting[t]) + 1 ELSE Len(nesting[t])

\* Every variable has the type the code gives it; an access that is stacked or
\* about to be fits the nesting mask (the assertion in tRequest::Add).
TypeOK ==
    /\ active \subseteq Threads
    /\ pending \in Seq(Threads)
    /\ suspended \subseteq Threads
    /\ nesting \in [Threads -> Seq(Kinds)]
    /\ \A t \in Threads : NestingDepth(t) <= MaxNest
    /\ signal \in [Threads -> BOOLEAN]
    /\ refcount \in Int
    /\ allRefsReleased \in BOOLEAN
    /\ pc \in [Threads -> Places]
    /\ want \in [Threads -> Kinds]
    /\ closing \subseteq Threads
    /\ zeroSeen \subseteq closing

\* Mutual exclusion: whatever mix of nesting, upgrades, suspensions and
\* admissions by other threads led there, a thread with exclusive access is the
\* only one with access.
ExclusiveIsAlone ==
    \A t \in active : HasExclusive(nesting[t]) => active = {t}

\* A request is in at most one of the three lists, at most once, and it is in
\* none exactly when its thread holds nothing: no list operation of Release,
\* upgrade, suspend or resume loses or duplicates a request.
OneListPerRequest ==
    /\ active \cap suspended = {}
    /\ PendingThreads \cap (active \cup suspended) = {}
    /\ \A i, j \in DOMAIN pending : pending[i] = pending[j] => i = j
    /\ \A t \in Threads :
          nesting[t] # <<>> <=> t \in active \cup suspended \cup PendingThreads

\* No lost wakeup: a thread sleeping in WaitForSignal is either still pending or
\* its event is set; and an event is set only for such a thread, so that a
\* stale signal never lets a later wait through.
NoLostWakeup ==
    \A t \in Threads :
        /\ pc[t] = "waiting" => (signal[t] <=> t \notin PendingThreads)
        /\ signal[t] => pc[t] = "waiting" /\ t \in active

\* No lost admission: Release, SuspendAccess and the rest admit at most one
\* request each.  If the oldest pending request could run now, a thread that has
\* been admitted but has not yet passed the lock is about to admit it.
NoLostAdmission ==
    HeadIsCompatible(active, nesting) =>
        \E t \in active : pc[t] \in {"waiting", "woken"}

\* A thread that runs inside its access (it is out of the call and its request
\* is not suspended) really has it: the access a thread gave up for an upgrade
\* or a suspension is back before the call returns (DebugAssertActive).
ReturnsWithAccess ==
    \A t \in Threads :
        pc[t] = "out" /\ nesting[t] # <<>> => t \in active \cup suspended

\* A thread gains access only as the oldest pending request or when nobody is pending,
\* and nobody is inserted before another.
ServesInOrder ==
    /\ \A t \in active' \ active : pending = <<>> \/ t = Head(pending)
    /\ \A i \in DOMAIN pending' :
          i <= Len(pending) - 1 => pending'[i] \in {pending[i], pending[i + 1]}

\* First come, first served: whatever step admits a thread, whether its own or that of
\* a thread that releases, suspends, upgrades or was itself just admitted.
\* tAccessManager::SatisfyRequest, tAccessManager.h.
FirstComeFirstServed == [][ServesInOrder]_vars

\* A thread that waits for all references returns only if the count has been 0
\* at some moment of its call ("Waits until all references have been
\* released", tAccessManager.h).
WaitsForAllReferences ==
    [][\A t \in Threads :
          pc[t] = "waitrefs" /\ pc'[t] = "out" => t \in zeroSeen]_vars

\* Callers let go: no thread keeps its access for ever.
CallersLetGo == \A t \in Threads : []<>(t \notin active)

\* Nobody starves: if callers let go, every thread that waits for access,
\* shared, exclusive or an upgrade, gets it.
NoStarvation ==
    CallersLetGo =>
        \A t \in Threads : pc[t] \in {"lock", "waiting"} ~> t \in active

=============================================================================
