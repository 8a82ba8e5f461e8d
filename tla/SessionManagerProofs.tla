------------------------ MODULE SessionManagerProofs ------------------------
(***************************************************************************)
(* Proofs about SessionManager, for every set of threads, every set of     *)
(* calls and every number of buffers: the session's access manager is used *)
(* as its specification allows, one call at a time is inside the session,  *)
(* and the deferred close neither forgets a session nor destroys it early. *)
(***************************************************************************)
EXTENDS SessionManager, FiniteSetTheorems, SequenceTheorems, TLAPS

\* The theorems about the access manager, for the one of this session
AMP == INSTANCE AccessManagerProofs

Steps == {"idle", "lookup", "found", "acquire", "body", "blocked", "have", "resume",
          "resumed", "register", "cancel", "check", "exit"}

TypeInv ==
    /\ step \in [Threads -> Steps]
    /\ calls \in [Threads -> Seq(Calls)]
    /\ destructionPending \subseteq Threads
    /\ place \in {"open", "deferred", "closed"}
    /\ deferFlag \in BOOLEAN
    /\ forgotten \in BOOLEAN

\* How many calls t is in, and how many accesses it then has
Depth(t) == Len(calls[t])

Held(t) ==
    IF step[t] \in {"lookup", "found", "exit"} \/ pc[t] \in {"reset", "lock"}
    THEN Depth(t) - 1 ELSE Depth(t)

\* Where the access manager may be while a call is at a step
PlacesAt(s) ==
    IF s = "acquire" THEN {"reset", "lock", "waiting", "woken", "out"}
    ELSE IF s = "resumed" THEN {"waiting", "woken", "out"}
    ELSE IF s = "exit" THEN {"decref", "release", "waitrefs", "out"}
    ELSE {"out"}

\* The calls that can be at a step
CallsAt(s) ==
    IF s \in {"blocked", "resume", "resumed"} THEN {"wait", "external", "accept"}
    ELSE IF s = "have" THEN {"external"}
    ELSE IF s = "register" THEN {"accept"}
    ELSE IF s = "cancel" THEN {"abort", "close"}
    ELSE IF s = "check" THEN {"release"}
    ELSE Calls

\* The calls of t: at most one inside another, made by a callback of Cancel
CallsInv(t) ==
    /\ Depth(t) \in 0 .. 2
    /\ step[t] = "idle" <=> Depth(t) = 0
    /\ step[t] # "idle" => Current(t) \in CallsAt(step[t])
    /\ Depth(t) = 2 => /\ calls[t][1] \in {"abort", "close"}
                       /\ Current(t) = "use"
                       /\ step[t] \in {"lookup", "found", "acquire", "body", "exit"}

\* The calls of t have the accesses they should have, all of them exclusive
AccessInv(t) ==
    /\ pc[t] \in PlacesAt(step[t])
    /\ Len(nesting[t]) = Held(t)
    /\ \A i \in DOMAIN nesting[t] : nesting[t][i] = "exclusive"
    /\ pc[t] \in {"reset", "lock"} => want[t] = "exclusive"
    /\ t \in suspended <=> step[t] \in {"blocked", "have", "resume"}
    /\ step[t] \in {"found", "acquire"} => mapLock = t

\* Which calls have a region of the user, or a buffer
GotInv(t) ==
    /\ t \in got => /\ step[t] # "idle"
                    /\ Current(t) \in {"queue", "release", "wait", "external"}
    /\ t \in got /\ Current(t) = "external" => step[t] = "have"
    /\ step[t] = "have" => t \in got
    /\ step[t] \in {"lookup", "found", "acquire", "body"} /\ Current(t) \in {"queue", "release"}
         => t \in got
    /\ step[t] \in {"lookup", "found", "acquire", "body", "blocked"} /\ Current(t) = "wait"
         => t \notin got

\* What the user has, outside or inside a call, is in userBuffers, and what a call has to
\* queue.  (QueueExternalBufferRegion may have left more there.)
BuffersInv ==
    /\ userBuffers \in Nat /\ regions \in Nat
    /\ got \subseteq Threads /\ IsFiniteSet(got)
    /\ userBuffers >= regions + Cardinality(got)

\* What a call knows of the handle it looked up: only a release finds a session that
\* was closed, and knows of it; the region that it gives back keeps the handle
HandleInv(t) ==
    /\ t \in destructionPending => place # "open"
    /\ step[t] \in {"found", "acquire"} /\ Current(t) \notin {"release", "rerelease"}
         => place = "open"
    /\ step[t] = "found" /\ Current(t) = "release" => place # "closed"
    /\ step[t] = "body" /\ Current(t) \notin {"release", "rerelease", "close"}
         => place = "open"
    /\ step[t] \in {"body", "check"} /\ Current(t) = "release" /\ place # "open"
         => t \in destructionPending

\* The user's buffers and a close with DeferWhileUserBuffersOutstanding
DeferInv ==
    /\ DeferredIsOwed
    /\ deferFlag => place # "open" /\ \A t \in Threads : step[t] # "blocked"
    /\ deferFlag /\ place = "closed" => userBuffers = 0

\* The inductive invariant
IInv ==
    /\ AMP!IInv
    /\ TypeInv
    /\ \A t \in Threads : CallsInv(t) /\ AccessInv(t)
    /\ \A t \in Threads : GotInv(t)
    /\ BuffersInv
    /\ \A t \in Threads : HandleInv(t)
    /\ DeferInv

-----------------------------------------------------------------------------
(* The access manager                                                      *)

\* The steps of the access manager that the calls of t take
AccessStep(t) ==
    \/ AM!Proceed(t)
    \/ AM!IncRef(t, "exclusive")
    \/ AM!Release(t) \/ AM!ReleaseAndWait(t)
    \/ AM!SuspendAccess(t) \/ AM!ResumeAccess(t)

\* The two instances of the module define the same.
LEMMA SameHelpers ==
    /\ \A s : AM!HasExclusive(s) <=> AMP!HasExclusive(s)
    /\ \A t, act, nst : AM!Compatible(t, act, nst) <=> AMP!Compatible(t, act, nst)
    /\ \A act, nst, more : AM!SatisfyHead(act, nst, more) <=> AMP!SatisfyHead(act, nst, more)
    /\ \A t, act, nst : AM!SatisfyRequest(t, act, nst) <=> AMP!SatisfyRequest(t, act, nst)
<1>1. \A s : AM!HasExclusive(s) <=> AMP!HasExclusive(s)
  BY DEF AM!HasExclusive, AMP!HasExclusive
<1>2. \A t, act, nst : AM!Compatible(t, act, nst) <=> AMP!Compatible(t, act, nst)
  BY <1>1 DEF AM!Compatible, AMP!Compatible
<1>3. \A act, nst, more : AM!SatisfyHead(act, nst, more) <=> AMP!SatisfyHead(act, nst, more)
  BY <1>2 DEF AM!SatisfyHead, AMP!SatisfyHead, AM!HeadIsCompatible, AMP!HeadIsCompatible,
     AM!Signal, AMP!Signal
<1>4. \A t, act, nst : AM!SatisfyRequest(t, act, nst) <=> AMP!SatisfyRequest(t, act, nst)
  BY <1>2, <1>3 DEF AM!SatisfyRequest, AMP!SatisfyRequest, AM!MayEnter, AMP!MayEnter
<1> QED
  BY <1>1, <1>2, <1>3, <1>4

\* They are steps of its specification.
LEMMA AccessStepIsNext ==
    ASSUME NEW t \in Threads, AccessStep(t)
    PROVE  AMP!Next
<1>1. CASE AM!Proceed(t)
  <2>1. AM!ResetAllRefsReleased(t) => AMP!ResetAllRefsReleased(t)
    BY DEF AM!ResetAllRefsReleased, AMP!ResetAllRefsReleased, AM!lists, AMP!lists
  <2>2. AM!GetSharedAccess(t) => AMP!GetSharedAccess(t)
    BY SameHelpers DEF AM!GetSharedAccess, AMP!GetSharedAccess, AM!refs, AMP!refs
  <2>3. AM!GetExclusiveAccess(t) => AMP!GetExclusiveAccess(t)
    BY SameHelpers DEF AM!GetExclusiveAccess, AMP!GetExclusiveAccess, AM!refs, AMP!refs
  <2>4. AM!WaitForSignal(t) => AMP!WaitForSignal(t)
    BY DEF AM!WaitForSignal, AMP!WaitForSignal, AM!refs, AMP!refs
  <2>5. AM!SatisfyNext(t) => AMP!SatisfyNext(t)
    BY SameHelpers DEF AM!SatisfyNext, AMP!SatisfyNext, AM!refs, AMP!refs
  <2>6. AM!DecRef(t) => AMP!DecRef(t)
    BY DEF AM!DecRef, AMP!DecRef, AM!lists, AMP!lists, AM!AfterRelease, AMP!AfterRelease
  <2>7. AM!ReleaseAllRefsReleased(t) => AMP!ReleaseAllRefsReleased(t)
    BY DEF AM!ReleaseAllRefsReleased, AMP!ReleaseAllRefsReleased, AM!lists, AMP!lists,
       AM!AfterRelease, AMP!AfterRelease
  <2>8. AM!WaitForAllReferences(t) => AMP!WaitForAllReferences(t)
    BY DEF AM!WaitForAllReferences, AMP!WaitForAllReferences, AM!lists, AMP!lists
  <2>9. AMP!Proceed(t)
    BY <1>1, <2>1, <2>2, <2>3, <2>4, <2>5, <2>6, <2>7, <2>8 DEF AM!Proceed, AMP!Proceed
  <2> QED
    BY <2>9 DEF AMP!Next
<1>2. CASE AM!IncRef(t, "exclusive")
  <2>1. AMP!IncRef(t, "exclusive") /\ "exclusive" \in AMP!Kinds
    BY <1>2 DEF AM!IncRef, AMP!IncRef, AMP!Kinds, AM!MayNest, AMP!MayNest,
       AM!lists, AMP!lists
  <2> QED
    BY <2>1 DEF AMP!Next, AMP!Call
<1>3. CASE AM!Release(t) \/ AM!ReleaseAndWait(t)
  <2>1. AM!ReleaseAccess(t) => AMP!ReleaseAccess(t)
    BY SameHelpers DEF AM!ReleaseAccess, AMP!ReleaseAccess, AM!RemoveLast, AMP!RemoveLast
  <2>2. AMP!Release(t) \/ AMP!ReleaseAndWait(t)
    BY <1>3, <2>1 DEF AM!Release, AMP!Release, AM!ReleaseAndWait, AMP!ReleaseAndWait
  <2> QED
    BY <2>2 DEF AMP!Next, AMP!Call
<1>4. CASE AM!SuspendAccess(t) \/ AM!ResumeAccess(t)
  <2>1. AMP!SuspendAccess(t) \/ AMP!ResumeAccess(t)
    BY <1>4, SameHelpers DEF AM!SuspendAccess, AMP!SuspendAccess, AM!ResumeAccess,
       AMP!ResumeAccess, AM!refs, AMP!refs
  <2> QED
    BY <2>1 DEF AMP!Next, AMP!Call
<1> QED
  BY <1>1, <1>2, <1>3, <1>4 DEF AccessStep

\* So its invariant, with mutual exclusion, holds in the session as well.
LEMMA AccessInvariant ==
    ASSUME AMP!IInv,
           (\E t \in Threads : AccessStep(t)) \/ UNCHANGED access
    PROVE  AMP!IInv'
<1>1. [AMP!Next]_(AMP!vars)
  BY AccessStepIsNext DEF AMP!vars, access
<1> QED
  BY <1>1, AMP!NextIInv, SessionAssumption


\* What the access manager records of u, and does not take from it
Keeps(u) ==
    /\ pc'[u] = pc[u] /\ nesting'[u] = nesting[u] /\ want'[u] = want[u]
    /\ u \in suspended' <=> u \in suspended

\* A step for t changes nothing of another thread but to admit it.
LEMMA OthersKeep ==
    ASSUME AMP!IInv, NEW t \in Threads, AccessStep(t), NEW u \in Threads, u # t
    PROVE  Keeps(u)
<1>1. /\ pc \in [Threads -> AMP!Places] /\ nesting \in [Threads -> Seq(AMP!Kinds)]
      /\ want \in [Threads -> AMP!Kinds]
  BY DEF AMP!IInv, AMP!TypeOK
<1> USE <1>1 DEF Keeps
<1>2. CASE \/ AM!ResetAllRefsReleased(t) \/ AM!WaitForSignal(t) \/ AM!DecRef(t)
           \/ AM!ReleaseAllRefsReleased(t) \/ AM!WaitForAllReferences(t)
           \/ AM!IncRef(t, "exclusive")
  BY <1>2 DEF AM!ResetAllRefsReleased, AM!WaitForSignal, AM!DecRef, AM!ReleaseAllRefsReleased,
     AM!WaitForAllReferences, AM!IncRef, AM!lists
<1>3. CASE AM!GetSharedAccess(t) \/ AM!GetExclusiveAccess(t)
  BY <1>3 DEF AM!GetSharedAccess, AM!GetExclusiveAccess, AM!SatisfyRequest
<1>4. CASE AM!SatisfyNext(t) \/ AM!SuspendAccess(t) \/ AM!ResumeAccess(t)
  BY <1>4 DEF AM!SatisfyNext, AM!SuspendAccess, AM!ResumeAccess, AM!SatisfyRequest
<1>5. CASE AM!Release(t) \/ AM!ReleaseAndWait(t)
  BY <1>5 DEF AM!Release, AM!ReleaseAndWait, AM!ReleaseAccess
<1> QED
  BY <1>2, <1>3, <1>4, <1>5 DEF AccessStep, AM!Proceed

\* What an operation of the access manager does to its own thread
LEMMA IncRefEffect ==
    ASSUME AMP!IInv, NEW t \in Threads, AM!IncRef(t, "exclusive")
    PROVE  /\ pc'[t] \in {"reset", "lock"} /\ want'[t] = "exclusive"
           /\ nesting'[t] = nesting[t] /\ suspended' = suspended /\ t \notin suspended
  BY DEF AMP!IInv, AMP!TypeOK, AM!IncRef, AM!lists

LEMMA ReleaseEffect ==
    ASSUME AMP!IInv, NEW t \in Threads, AM!Release(t) \/ AM!ReleaseAndWait(t)
    PROVE  /\ pc'[t] = "decref" /\ nesting'[t] = SubSeq(nesting[t], 1, Len(nesting[t]) - 1)
           /\ suspended' = suspended
  BY DEF AMP!IInv, AMP!TypeOK, AM!Release, AM!ReleaseAndWait, AM!ReleaseAccess, AM!RemoveLast

LEMMA SuspendEffect ==
    ASSUME AMP!IInv, NEW t \in Threads, AM!SuspendAccess(t)
    PROVE  /\ pc'[t] = "out" /\ nesting'[t] = nesting[t] /\ t \in suspended'
  BY DEF AMP!IInv, AMP!TypeOK, AM!SuspendAccess

LEMMA ResumeEffect ==
    ASSUME AMP!IInv, NEW t \in Threads, AM!ResumeAccess(t)
    PROVE  /\ pc'[t] \in {"out", "waiting"} /\ nesting'[t] = nesting[t] /\ t \notin suspended'
  BY DEF AMP!IInv, AMP!TypeOK, AM!ResumeAccess, AM!SatisfyRequest

\* The rest of an acquire of exclusive access, and of a release
LEMMA ProceedEffect ==
    ASSUME AMP!IInv, NEW t \in Threads, AM!Proceed(t),
           pc[t] = "lock" => want[t] = "exclusive"
    PROVE  /\ suspended' = suspended /\ want' = want
           /\ \/ /\ pc[t] = "reset" /\ pc'[t] = "lock" /\ nesting'[t] = nesting[t]
              \/ /\ pc[t] = "lock" /\ pc'[t] \in {"waiting", "out"}
                 /\ nesting'[t] = Append(nesting[t], "exclusive")
              \/ /\ pc[t] \in {"waiting", "woken"} /\ pc'[t] \in {"woken", "out"}
                 /\ nesting'[t] = nesting[t]
              \/ /\ pc[t] \in {"decref", "release", "waitrefs"}
                 /\ pc'[t] \in {"release", "waitrefs", "out"}
                 /\ nesting'[t] = nesting[t]
<1>1. /\ pc \in [Threads -> AMP!Places] /\ nesting \in [Threads -> Seq(AMP!Kinds)]
  BY DEF AMP!IInv, AMP!TypeOK
<1>2. CASE \/ AM!ResetAllRefsReleased(t) \/ AM!WaitForSignal(t) \/ AM!DecRef(t)
           \/ AM!ReleaseAllRefsReleased(t) \/ AM!WaitForAllReferences(t)
  BY <1>1, <1>2 DEF AM!ResetAllRefsReleased, AM!WaitForSignal, AM!DecRef,
     AM!ReleaseAllRefsReleased, AM!WaitForAllReferences, AM!lists, AM!AfterRelease
<1>3. CASE AM!GetSharedAccess(t)
  BY <1>3 DEF AM!GetSharedAccess
<1>4. CASE AM!GetExclusiveAccess(t)
  BY <1>1, <1>4 DEF AM!GetExclusiveAccess, AM!SatisfyRequest
<1>5. CASE AM!SatisfyNext(t)
  BY <1>1, <1>5 DEF AM!SatisfyNext
<1> QED
  BY <1>2, <1>3, <1>4, <1>5 DEF AM!Proceed

\* A thread that has an access, has not suspended it and does not wait for it is the only
\* one that is active.
LEMMA Alone ==
    ASSUME AMP!IInv, NEW t \in Threads, AccessInv(t),
           Len(nesting[t]) > 0, t \notin suspended, pc[t] # "waiting"
    PROVE  active = {t}
<1>1. nesting[t] \in Seq(AMP!Kinds)
  BY DEF AMP!IInv, AMP!TypeOK
<1>2. t \notin AMP!PendingThreads
  BY DEF AMP!IInv, AMP!PlacesMatchLists
<1>3. t \in active
  BY <1>1, <1>2 DEF AMP!IInv, AMP!OneListPerRequest
<1>4. AMP!HasExclusive(nesting[t])
  <2>1. 1 \in DOMAIN nesting[t]
    BY <1>1
  <2> QED
    BY <2>1 DEF AccessInv, AMP!HasExclusive
<1> QED
  BY <1>3, <1>4 DEF AMP!IInv, AMP!ExclusiveIsAlone


-----------------------------------------------------------------------------
(* One step of one thread                                                  *)

\* A step of t that leaves the calls of the others where they are
OthersStay(t) ==
    \A u \in Threads \ {t} :
        /\ step'[u] = step[u] /\ calls'[u] = calls[u]
        /\ u \in got' <=> u \in got
        /\ u \in destructionPending' <=> u \in destructionPending
        /\ mapLock = u => mapLock' = u

\* What holds of the other threads still holds.
LEMMA OtherThreads ==
    ASSUME IInv, NEW t \in Threads, AccessStep(t) \/ UNCHANGED access, OthersStay(t),
           NEW u \in Threads, u # t
    PROVE  /\ CallsInv(u)' /\ AccessInv(u)' /\ GotInv(u)'
           /\ place' = place => HandleInv(u)'
<1>1. Keeps(u)
  BY OthersKeep DEF IInv, Keeps, access
<1>2. /\ step'[u] = step[u] /\ calls'[u] = calls[u]
      /\ u \in got' <=> u \in got
      /\ u \in destructionPending' <=> u \in destructionPending
      /\ mapLock = u => mapLock' = u
  BY DEF OthersStay
<1>3. Current(u)' = Current(u) /\ Depth(u)' = Depth(u) /\ Held(u)' = Held(u)
  BY <1>1, <1>2 DEF Current, Depth, Held, Keeps
<1>4. CallsInv(u) /\ AccessInv(u) /\ GotInv(u) /\ HandleInv(u)
  BY DEF IInv
<1>5. CallsInv(u)'
  BY <1>2, <1>3, <1>4 DEF CallsInv, CallsAt
<1>6. AccessInv(u)'
  BY <1>1, <1>2, <1>3, <1>4 DEF AccessInv, Keeps, PlacesAt
<1>7. GotInv(u)'
  BY <1>2, <1>3, <1>4 DEF GotInv
<1>8. place' = place => HandleInv(u)'
  BY <1>2, <1>3, <1>4 DEF HandleInv
<1> QED
  BY <1>5, <1>6, <1>7, <1>8

\* So a step that leaves the handle where it is preserves the invariant if it does so
\* for its own thread and for the buffers.
LEMMA StepInv ==
    ASSUME IInv, NEW t \in Threads, AccessStep(t) \/ UNCHANGED access, OthersStay(t),
           place' = place, TypeInv', CallsInv(t)', AccessInv(t)', GotInv(t)', HandleInv(t)',
           BuffersInv', DeferInv'
    PROVE  IInv'
<1>1. AMP!IInv'
  BY AccessInvariant DEF IInv
<1>2. ASSUME NEW u \in Threads
      PROVE  CallsInv(u)' /\ AccessInv(u)' /\ GotInv(u)' /\ HandleInv(u)'
  BY OtherThreads
<1> QED
  BY <1>1, <1>2 DEF IInv

\* A deferred session is still owed if what t had, or the user, is not gone.
LEMMA StillOwed ==
    ASSUME IInv, NEW t \in Threads, OthersStay(t),
           UNCHANGED <<place, forgotten>>, step[t] # "check",
           regions > 0 \/ (t \in got /\ Current(t) # "external")
             => regions' > 0 \/ (t \in got' /\ Current(t)' # "external")
    PROVE  DeferredIsOwed'
<1> SUFFICES ASSUME place = "deferred"
             PROVE  UserHasBuffers' \/ (\E u \in Threads : step'[u] = "check") \/ forgotten
  BY DEF DeferredIsOwed
<1>1. CASE regions > 0 \/ (t \in got /\ Current(t) # "external")
  BY <1>1 DEF UserHasBuffers
<1>2. ASSUME NEW u \in got, u # t, Current(u) # "external"
      PROVE  UserHasBuffers'
  <2>1. u \in Threads
    BY DEF IInv, BuffersInv
  <2>2. u \in got' /\ Current(u)' = Current(u)
    BY <1>2, <2>1 DEF OthersStay, Current
  <2> QED
    BY <1>2, <2>2 DEF UserHasBuffers
<1>3. CASE \E u \in Threads : step[u] = "check"
  BY <1>3 DEF OthersStay
<1>4. CASE forgotten
  BY <1>4
<1> QED
  BY <1>1, <1>2, <1>3, <1>4 DEF IInv, DeferInv, DeferredIsOwed, UserHasBuffers

\* The buffers and the close are as before.
LEMMA SameBuffers ==
    ASSUME IInv, NEW t \in Threads, OthersStay(t),
           UNCHANGED <<userBuffers, regions, got, place, deferFlag, forgotten>>,
           step[t] # "check", step'[t] # "blocked",
           t \in got => Current(t)' = Current(t)
    PROVE  BuffersInv' /\ DeferInv'
<1>1. BuffersInv'
  BY DEF IInv, BuffersInv
<1>2. DeferredIsOwed'
  BY StillOwed
<1>3. deferFlag => \A u \in Threads : step'[u] # "blocked"
  BY DEF IInv, DeferInv, OthersStay
<1> QED
  BY <1>1, <1>2, <1>3 DEF IInv, DeferInv

\* A stack without its top
LEMMA Popped ==
    ASSUME NEW S, NEW s \in Seq(S), s # <<>>
    PROVE  /\ SubSeq(s, 1, Len(s) - 1) \in Seq(S)
           /\ Len(SubSeq(s, 1, Len(s) - 1)) = Len(s) - 1
           /\ \A i \in 1 .. Len(s) - 1 : SubSeq(s, 1, Len(s) - 1)[i] = s[i]
<1>1. Len(s) \in Nat \ {0} /\ DOMAIN s = 1 .. Len(s)
  OBVIOUS
<1> QED
  BY <1>1

\* A region comes into a call, from the user or from the queue.
LEMMA RegionTaken ==
    ASSUME BuffersInv, NEW t \in Threads, t \notin got, got' = got \cup {t},
           \/ userBuffers' = userBuffers /\ regions' = regions - 1 /\ regions > 0
           \/ userBuffers' = userBuffers + 1 /\ regions' = regions
    PROVE  BuffersInv'
<1>1. IsFiniteSet(got \cup {t}) /\ Cardinality(got \cup {t}) = Cardinality(got) + 1
  BY FS_AddElement DEF BuffersInv
<1>2. Cardinality(got) \in Nat
  BY FS_CardinalityType DEF BuffersInv
<1> QED
  BY <1>1, <1>2 DEF BuffersInv

\* A region leaves a call, to the user or to the queue.
LEMMA RegionGiven ==
    ASSUME BuffersInv, NEW t \in Threads, t \in got, got' = got \ {t},
           \/ userBuffers' = userBuffers /\ regions' = regions + 1
           \/ userBuffers' = userBuffers - 1 /\ regions' = regions
    PROVE  BuffersInv' /\ userBuffers > 0
<1>1. IsFiniteSet(got \ {t}) /\ Cardinality(got \ {t}) = Cardinality(got) - 1
  BY FS_RemoveElement DEF BuffersInv
<1>2. Cardinality(got \ {t}) \in Nat /\ Cardinality(got) \in Nat
  BY <1>1, FS_CardinalityType DEF BuffersInv
<1> QED
  BY <1>1, <1>2 DEF BuffersInv

\* No call has a region when no buffer is in userBuffers.
LEMMA NoneGot ==
    ASSUME BuffersInv, userBuffers = 0
    PROVE  got = {}
<1>1. Cardinality(got) \in Nat
  BY FS_CardinalityType DEF BuffersInv
<1>2. Cardinality(got) = 0
  BY <1>1 DEF BuffersInv
<1> QED
  BY <1>2, FS_EmptySet DEF BuffersInv

\* A thread makes a call.
LEMMA BeginStep ==
    ASSUME IInv, NEW t \in Threads, NEW op \in Ops, Begin(t, op)
    PROVE  IInv'
<1>1. /\ step[t] = "idle" /\ op \in Calls
      /\ step' = [step EXCEPT ![t] = "lookup"] /\ calls' = [calls EXCEPT ![t] = <<op>>]
      /\ UNCHANGED <<access, table, userBuffers, cancelled, inProgress>>
  BY SessionAssumption DEF Begin, GoTo
<1>2. TypeInv /\ CallsInv(t) /\ AccessInv(t) /\ GotInv(t) /\ HandleInv(t)
  BY DEF IInv
<1>3. t \notin got
  BY <1>1, <1>2 DEF GotInv
<1>4. /\ step'[t] = "lookup" /\ calls'[t] = <<op>>
      /\ Current(t)' = op /\ Depth(t) = 0 /\ Depth(t)' = 1
  BY <1>1, <1>2 DEF TypeInv, CallsInv, Current, Depth
<1>5. OthersStay(t)
  BY <1>1, <1>2 DEF OthersStay, TypeInv, table, Begin
<1>6. TypeInv'
  <2>1. <<op>> \in Seq(Calls) /\ "lookup" \in Steps
    BY <1>1 DEF Steps
  <2> QED
    BY <1>1, <1>2, <2>1 DEF TypeInv, table
<1>7. BuffersInv'
  <2>1. BuffersInv /\ userBuffers' = userBuffers
    BY <1>1 DEF IInv
  <2>2. CASE got' = got /\ regions' = regions
    BY <2>1, <2>2 DEF BuffersInv
  <2>3. CASE got' = got \cup {t} /\ regions' = regions - 1 /\ regions > 0
    BY <1>3, <2>1, <2>3, RegionTaken
  <2> QED
    BY <2>2, <2>3 DEF Begin
<1>8. CallsInv(t)'
  BY <1>1, <1>4 DEF CallsInv, CallsAt
<1>9. AccessInv(t)'
  BY <1>1, <1>2, <1>4 DEF AccessInv, access, Held, PlacesAt, table
<1>10. GotInv(t)'
  BY <1>1, <1>3, <1>4 DEF GotInv, Begin
<1>11. HandleInv(t)'
  BY <1>1, <1>2, <1>4 DEF HandleInv, table
<1>12. DeferInv'
  <2>1. DeferredIsOwed'
    <3>1. UNCHANGED <<place, forgotten>>
      BY <1>1 DEF table
    <3>2. regions' = regions \/ (t \in got' /\ Current(t)' # "external")
      BY <1>4 DEF Begin
    <3> QED
      BY <1>1, <1>3, <1>5, <3>1, <3>2, StillOwed
  <2>2. deferFlag => \A u \in Threads : step'[u] # "blocked"
    BY <1>1, <1>2 DEF IInv, DeferInv, TypeInv
  <2> QED
    BY <1>1, <2>1, <2>2 DEF IInv, DeferInv, table
<1> QED
  BY <1>1, <1>5, <1>6, <1>7, <1>8, <1>9, <1>10, <1>11, <1>12, StepInv DEF table


\* A call returns, with what it has left to the user.
LEMMA ReturnStep ==
    ASSUME IInv, NEW t \in Threads, Return(t), step[t] \in {"lookup", "exit"}, pc[t] = "out",
           UNCHANGED <<access, kind, mapLock, place, deferFlag, forgotten, userBuffers>>
    PROVE  IInv'
<1>1. TypeInv /\ CallsInv(t) /\ AccessInv(t) /\ GotInv(t) /\ HandleInv(t)
  BY DEF IInv
<1>2. /\ calls' = [calls EXCEPT ![t] = SubSeq(calls[t], 1, Len(calls[t]) - 1)]
      /\ step' = [step EXCEPT ![t] = IF Len(calls[t]) = 1 THEN "idle" ELSE "cancel"]
      /\ got' = got \ {t} /\ destructionPending' = destructionPending \ {t}
      /\ regions' = IF t \in got THEN regions + 1 ELSE regions
  BY DEF Return, GoTo
<1>3. calls[t] \in Seq(Calls) /\ Len(calls[t]) \in 1 .. 2
  BY <1>1 DEF TypeInv, CallsInv, Depth
<1>4. PICK outer \in Seq(Calls) :
             /\ outer = SubSeq(calls[t], 1, Len(calls[t]) - 1)
             /\ Len(outer) = Len(calls[t]) - 1
             /\ Len(calls[t]) = 2 => outer[1] = calls[t][1]
  <2>1. ASSUME NEW c \in Seq(Calls), Len(c) \in 1 .. 2
        PROVE  /\ SubSeq(c, 1, Len(c) - 1) \in Seq(Calls)
               /\ Len(SubSeq(c, 1, Len(c) - 1)) = Len(c) - 1
               /\ Len(c) = 2 => SubSeq(c, 1, Len(c) - 1)[1] = c[1]
    <3>1. c # <<>>
      BY <2>1
    <3>2. Len(c) = 2 => 1 \in 1 .. Len(c) - 1
      BY <2>1
    <3> QED
      BY <3>1, <3>2, Popped
  <2> QED
    BY <1>3, <2>1
<1>5. /\ Depth(t)' = Depth(t) - 1 /\ Depth(t) \in 1 .. 2
      /\ step'[t] = IF Depth(t) = 1 THEN "idle" ELSE "cancel"
      /\ Depth(t) = 2 => Current(t)' = calls[t][1]
  <2>1. /\ calls'[t] = outer
        /\ step'[t] = IF Len(calls[t]) = 1 THEN "idle" ELSE "cancel"
    BY <1>1, <1>2, <1>4 DEF TypeInv
  <2>2. Len(outer) = Len(calls[t]) - 1 /\ Len(calls[t]) \in 1 .. 2
    BY <1>3, <1>4
  <2>3. Len(calls[t]) = 2 => Len(outer) = 1 /\ outer[1] = calls[t][1]
    BY <1>4
  <2> QED
    BY <2>1, <2>2, <2>3 DEF Depth, Current
<1>6. OthersStay(t)
  BY <1>1, <1>2 DEF OthersStay, TypeInv
<1>7. TypeInv'
  <2>1. "idle" \in Steps /\ "cancel" \in Steps
    BY DEF Steps
  <2> QED
    BY <1>1, <1>2, <1>4, <2>1 DEF TypeInv
<1>8. BuffersInv'
  <2>1. BuffersInv
    BY DEF IInv
  <2>2. CASE t \in got
    BY <1>2, <2>1, <2>2, RegionGiven
  <2>3. CASE t \notin got
    <3>1. got' = got /\ regions' = regions /\ userBuffers' = userBuffers
      BY <1>2, <2>3
    <3> QED
      BY <2>1, <3>1 DEF BuffersInv
  <2> QED
    BY <2>2, <2>3
<1>9. CallsInv(t)'
  BY <1>1, <1>5 DEF CallsInv, CallsAt
<1>10. AccessInv(t)'
  <2>1. Held(t) = Depth(t) - 1 /\ Held(t)' = Depth(t)'
    BY <1>1, <1>5 DEF Held, access, AccessInv
  <2>2. nesting'[t] = nesting[t] /\ pc'[t] = "out" /\ suspended' = suspended
    BY DEF access
  <2> QED
    BY <1>1, <1>5, <2>1, <2>2 DEF AccessInv, PlacesAt
<1>11. GotInv(t)'
  BY <1>2, <1>5 DEF GotInv
<1>12. HandleInv(t)'
  BY <1>1, <1>2, <1>5 DEF HandleInv
<1>13. DeferInv'
  <2>1. \A u \in Threads : step'[u] # "blocked" \/ step[u] = "blocked"
    BY <1>5, <1>6 DEF OthersStay
  <2>2. DeferredIsOwed'
    <3>1. regions \in Nat
      BY DEF IInv, BuffersInv
    <3>2. regions > 0 \/ (t \in got /\ Current(t) # "external") => regions' > 0
      BY <1>2, <3>1
    <3> QED
      BY <1>6, <3>2, StillOwed
  <2> QED
    BY <2>1, <2>2 DEF IInv, DeferInv
<1> QED
  BY <1>6, <1>7, <1>8, <1>9, <1>10, <1>11, <1>12, <1>13, StepInv


\* A callback of Cancel makes a call.
LEMMA CallBackStep ==
    ASSUME IInv, NEW t \in Threads, CallBack(t)
    PROVE  IInv'
<1>1. TypeInv /\ CallsInv(t) /\ AccessInv(t) /\ GotInv(t) /\ HandleInv(t)
  BY DEF IInv
<1>2. /\ step[t] = "cancel" /\ Len(calls[t]) = 1
      /\ calls' = [calls EXCEPT ![t] = Append(calls[t], "use")]
      /\ step' = [step EXCEPT ![t] = "lookup"]
      /\ UNCHANGED <<access, table, body, regions>>
  BY DEF CallBack, GoTo
<1>3. calls[t] \in Seq(Calls) /\ "use" \in Calls
  BY <1>1 DEF TypeInv, Calls
<1>4. /\ Append(calls[t], "use") \in Seq(Calls)
      /\ Len(Append(calls[t], "use")) = 2
      /\ Append(calls[t], "use")[1] = calls[t][1]
      /\ Append(calls[t], "use")[2] = "use"
  <2>1. ASSUME NEW c \in Seq(Calls), Len(c) = 1
        PROVE  /\ Append(c, "use") \in Seq(Calls) /\ Len(Append(c, "use")) = 2
               /\ Append(c, "use")[1] = c[1] /\ Append(c, "use")[2] = "use"
    <3>1. /\ Append(c, "use") \in Seq(Calls) /\ Len(Append(c, "use")) = Len(c) + 1
          /\ Append(c, "use")[Len(c) + 1] = "use"
      BY <1>3, AppendProperties
    <3>2. 1 \in 1 .. Len(c)
      BY <2>1
    <3>3. Append(c, "use")[1] = c[1]
      BY <1>3, <3>2, AppendProperties
    <3> QED
      BY <2>1, <3>1, <3>3
  <2> QED
    BY <1>2, <1>3, <2>1
<1>5. /\ Depth(t) = 1 /\ Depth(t)' = 2 /\ Current(t)' = "use"
      /\ calls'[t][1] = calls[t][1] /\ Current(t) = calls[t][1]
      /\ step'[t] = "lookup"
  BY <1>1, <1>2, <1>4 DEF Depth, Current, TypeInv
<1>6. OthersStay(t)
  BY <1>1, <1>2 DEF OthersStay, TypeInv, table, body
<1>7. TypeInv'
  <2>1. "lookup" \in Steps
    BY DEF Steps
  <2> QED
    BY <1>1, <1>2, <1>4, <2>1 DEF TypeInv, table
<1>8. CallsInv(t)'
  BY <1>1, <1>2, <1>5 DEF CallsInv, CallsAt, Calls
<1>9. AccessInv(t)'
  <2>1. Held(t) = 1 /\ Held(t)' = 1
    BY <1>1, <1>2, <1>5 DEF Held, AccessInv, PlacesAt
  <2>2. nesting'[t] = nesting[t] /\ pc'[t] = pc[t] /\ suspended' = suspended
    BY <1>2 DEF access
  <2> QED
    BY <1>1, <1>2, <1>5, <2>1, <2>2 DEF AccessInv, PlacesAt
<1>10. GotInv(t)'
  BY <1>1, <1>2, <1>5 DEF GotInv, body, CallsInv, CallsAt
<1>11. HandleInv(t)'
  BY <1>1, <1>2, <1>5 DEF HandleInv, table
<1>12. BuffersInv' /\ DeferInv'
  <2>1. t \notin got
    BY <1>1, <1>2 DEF GotInv, CallsInv, CallsAt
  <2> QED
    BY <1>2, <1>5, <1>6, <2>1, SameBuffers DEF table, body
<1> QED
  BY <1>2, <1>6, <1>7, <1>8, <1>9, <1>10, <1>11, <1>12, StepInv DEF table

\* A wait ends, with or without a buffer.
LEMMA WaitEndsStep ==
    ASSUME IInv, NEW t \in Threads, WaitEnds(t)
    PROVE  IInv'
<1>1. TypeInv /\ CallsInv(t) /\ AccessInv(t) /\ GotInv(t) /\ HandleInv(t)
  BY DEF IInv
<1>2. PICK s \in {"resume", "have"} :
        /\ step' = [step EXCEPT ![t] = s]
        /\ s = "have" => got' = got \cup {t} /\ Current(t) = "external"
        /\ \/ /\ userBuffers' = userBuffers + 1 /\ got' = got \cup {t}
              /\ s = "resume" => Current(t) = "wait"
           \/ userBuffers' = userBuffers /\ got' = got
  BY DEF WaitEnds, TakeBuffer, GoTo
<1>3. step[t] = "blocked" /\ UNCHANGED <<access, table, regions, calls>>
  BY DEF WaitEnds
<1>4. step'[t] = s /\ Current(t)' = Current(t) /\ Depth(t)' = Depth(t)
      /\ Current(t) \in {"wait", "external", "accept"}
  BY <1>1, <1>2, <1>3 DEF TypeInv, Current, Depth, CallsInv, CallsAt
<1>5. OthersStay(t)
  BY <1>1, <1>2, <1>3 DEF OthersStay, TypeInv, table
<1>6. TypeInv'
  <2>1. s \in Steps
    BY DEF Steps
  <2> QED
    BY <1>1, <1>2, <1>3, <2>1 DEF TypeInv, table
<1>7. CallsInv(t)'
  BY <1>1, <1>2, <1>3, <1>4 DEF CallsInv, CallsAt
<1>8. AccessInv(t)'
  <2>1. Held(t)' = Held(t) /\ nesting'[t] = nesting[t] /\ pc'[t] = pc[t]
        /\ suspended' = suspended
    BY <1>1, <1>3, <1>4 DEF Held, AccessInv, access
  <2> QED
    BY <1>1, <1>3, <1>4, <2>1 DEF AccessInv, PlacesAt
<1>9. t \notin got
  BY <1>1, <1>3, <1>4 DEF GotInv
<1>10. GotInv(t)'
  BY <1>2, <1>4, <1>9 DEF GotInv
<1>11. HandleInv(t)'
  BY <1>1, <1>3, <1>4 DEF HandleInv, table
<1>12. BuffersInv'
  <2>1. BuffersInv
    BY DEF IInv
  <2>2. CASE userBuffers' = userBuffers /\ got' = got
    BY <1>3, <2>1, <2>2 DEF BuffersInv
  <2>3. CASE userBuffers' = userBuffers + 1 /\ got' = got \cup {t}
    BY <1>3, <1>9, <2>1, <2>3, RegionTaken
  <2> QED
    BY <1>2, <2>2, <2>3
<1>13. DeferInv'
  <2>1. UNCHANGED <<place, deferFlag, forgotten, regions>>
    BY <1>3 DEF table
  <2>2. ~deferFlag
    BY <1>3 DEF IInv, DeferInv
  <2>3. DeferredIsOwed'
    BY <1>3, <1>5, <1>9, <2>1, StillOwed
  <2> QED
    BY <2>1, <2>2, <2>3 DEF DeferInv
<1> QED
  BY <1>3, <1>5, <1>6, <1>7, <1>8, <1>10, <1>11, <1>12, <1>13, StepInv DEF table

\* QueueExternalBufferRegion queues its buffer, or leaves it in userBuffers.
LEMMA QueueExternalStep ==
    ASSUME IInv, NEW t \in Threads, QueueExternal(t)
    PROVE  IInv'
<1>1. TypeInv /\ CallsInv(t) /\ AccessInv(t) /\ GotInv(t) /\ HandleInv(t) /\ BuffersInv
  BY DEF IInv
<1>2. /\ step[t] = "have" /\ step' = [step EXCEPT ![t] = "resume"]
      /\ got' = got \ {t}
      /\ userBuffers' = userBuffers \/ userBuffers' = userBuffers - 1
      /\ UNCHANGED <<access, table, regions, calls>>
  BY DEF QueueExternal, GoTo
<1>3. step'[t] = "resume" /\ Current(t)' = Current(t) /\ Depth(t)' = Depth(t)
      /\ Current(t) = "external"
  BY <1>1, <1>2 DEF TypeInv, Current, Depth, CallsInv, CallsAt
<1>4. OthersStay(t)
  BY <1>1, <1>2 DEF OthersStay, TypeInv, table
<1>5. TypeInv'
  <2>1. "resume" \in Steps
    BY DEF Steps
  <2> QED
    BY <1>1, <1>2, <2>1 DEF TypeInv, table
<1>6. CallsInv(t)'
  BY <1>1, <1>2, <1>3 DEF CallsInv, CallsAt
<1>7. AccessInv(t)'
  <2>1. Held(t)' = Held(t) /\ nesting'[t] = nesting[t] /\ pc'[t] = pc[t]
        /\ suspended' = suspended
    BY <1>1, <1>2, <1>3 DEF Held, AccessInv, access
  <2> QED
    BY <1>1, <1>2, <1>3, <2>1 DEF AccessInv, PlacesAt
<1>8. GotInv(t)'
  BY <1>2, <1>3 DEF GotInv
<1>9. HandleInv(t)'
  BY <1>1, <1>2, <1>3 DEF HandleInv, table
<1>10. t \in got
  BY <1>1, <1>2 DEF GotInv
<1>11. BuffersInv' /\ userBuffers > 0
  <2>1. IsFiniteSet(got \ {t}) /\ Cardinality(got \ {t}) = Cardinality(got) - 1
    BY <1>1, <1>10, FS_RemoveElement DEF BuffersInv
  <2>2. Cardinality(got \ {t}) \in Nat /\ Cardinality(got) \in Nat
    BY <1>1, <2>1, FS_CardinalityType DEF BuffersInv
  <2> QED
    BY <1>1, <1>2, <2>1, <2>2 DEF BuffersInv
<1>12. DeferInv'
  <2>1. UNCHANGED <<place, deferFlag, forgotten, regions>>
    BY <1>2 DEF table
  <2>2. DeferredIsOwed'
    BY <1>2, <1>3, <1>4, <2>1, StillOwed
  <2>3. ~(deferFlag /\ place = "closed")
    BY <1>11 DEF IInv, DeferInv
  <2>4. deferFlag => \A u \in Threads : step'[u] # "blocked"
    BY <1>1, <1>2 DEF IInv, DeferInv, TypeInv
  <2> QED
    BY <2>1, <2>2, <2>3, <2>4 DEF IInv, DeferInv
<1> QED
  BY <1>2, <1>4, <1>5, <1>6, <1>7, <1>8, <1>9, <1>11, <1>12, StepInv DEF table

\* The reference is given back: the call is at its end.
LEMMA ReleaseExit ==
    ASSUME IInv, NEW t \in Threads, AM!Release(t) \/ AM!ReleaseAndWait(t),
           step[t] \in {"body", "resumed", "register", "cancel", "check"}, pc[t] = "out",
           step' = [step EXCEPT ![t] = "exit"], calls' = calls,
           mapLock' = mapLock, destructionPending' = destructionPending,
           deferFlag' = deferFlag, forgotten' \in BOOLEAN,
           place' = place \/ place' = "closed",
           got' = got \/ got' = got \ {t}
    PROVE  /\ OthersStay(t) /\ TypeInv' /\ CallsInv(t)' /\ AccessInv(t)' /\ GotInv(t)'
           /\ HandleInv(t)'
<1>1. TypeInv /\ CallsInv(t) /\ AccessInv(t) /\ GotInv(t) /\ HandleInv(t) /\ AMP!IInv
  BY DEF IInv
<1>2. /\ step'[t] = "exit" /\ Current(t)' = Current(t) /\ Depth(t)' = Depth(t)
      /\ calls'[t] = calls[t]
  BY <1>1 DEF TypeInv, Current, Depth
<1>3. OthersStay(t)
  BY <1>1 DEF OthersStay, TypeInv
<1>4. TypeInv'
  <2>1. "exit" \in Steps
    BY DEF Steps
  <2> QED
    BY <1>1, <2>1 DEF TypeInv
<1>5. Depth(t) \in 1 .. 2 /\ Current(t) \in Calls
  BY <1>1 DEF CallsInv, CallsAt, Calls
<1>6. CallsInv(t)'
  BY <1>1, <1>2, <1>5 DEF CallsInv, CallsAt
<1>7. AccessInv(t)'
  <2>1. Len(nesting[t]) = Depth(t) /\ Held(t)' = Depth(t) - 1
    BY <1>1, <1>2 DEF Held, AccessInv
  <2>2. /\ pc'[t] = "decref" /\ suspended' = suspended
        /\ nesting'[t] = SubSeq(nesting[t], 1, Len(nesting[t]) - 1)
    BY <1>1, ReleaseEffect
  <2>3. nesting[t] \in Seq(AMP!Kinds) /\ nesting[t] # <<>>
    BY <1>1, <1>5, <2>1 DEF AMP!IInv, AMP!TypeOK
  <2>4. /\ nesting'[t] \in Seq(AMP!Kinds) /\ Len(nesting'[t]) = Len(nesting[t]) - 1
        /\ \A i \in 1 .. Len(nesting[t]) - 1 : nesting'[t][i] = nesting[t][i]
    BY <2>2, <2>3, Popped
  <2>5. \A i \in DOMAIN nesting'[t] : nesting'[t][i] = "exclusive"
    <3>1. DOMAIN nesting'[t] = 1 .. Len(nesting[t]) - 1 /\ DOMAIN nesting[t] = 1 .. Len(nesting[t])
          /\ Len(nesting[t]) \in Nat
      BY <2>3, <2>4
    <3> QED
      BY <1>1, <2>4, <3>1 DEF AccessInv
  <2>6. Len(nesting'[t]) = Held(t)'
    BY <2>1, <2>4
  <2> QED
    BY <1>1, <1>2, <2>2, <2>5, <2>6 DEF AccessInv, PlacesAt
<1>8. GotInv(t)'
  BY <1>1, <1>2 DEF GotInv
<1>9. HandleInv(t)'
  BY <1>1, <1>2 DEF HandleInv
<1> QED
  BY <1>3, <1>4, <1>6, <1>7, <1>8, <1>9

\* The calls that change nothing when they give their reference back
LEMMA PlainExit ==
    ASSUME IInv, NEW t \in Threads, AM!Release(t) \/ AM!ReleaseAndWait(t),
           step[t] \in {"body", "resumed", "register", "cancel"}, pc[t] = "out",
           GoTo(t, "exit"),
           UNCHANGED <<table, userBuffers, got, regions, calls>>
    PROVE  IInv'
<1>1. /\ OthersStay(t) /\ TypeInv' /\ CallsInv(t)' /\ AccessInv(t)' /\ GotInv(t)'
      /\ HandleInv(t)'
  BY ReleaseExit DEF GoTo, table, IInv, TypeInv
<1>2. step'[t] = "exit" /\ Current(t)' = Current(t)
  BY DEF GoTo, IInv, TypeInv, Current
<1>3. BuffersInv' /\ DeferInv'
  BY <1>1, <1>2, SameBuffers DEF table
<1> QED
  BY <1>1, <1>3, StepInv DEF AccessStep, table

\* Where the access manager is when a call is inside its access
LEMMA OutInside ==
    ASSUME IInv, NEW t \in Threads,
           step[t] \notin {"acquire", "resumed", "exit"}
    PROVE  pc[t] = "out"
  BY DEF IInv, AccessInv, PlacesAt

LEMMA UseStep ==
    ASSUME IInv, NEW t \in Threads, Use(t)
    PROVE  IInv'
  BY OutInside, PlainExit DEF Use, ReleaseAndExit, body

LEMMA RegisterSessionStep ==
    ASSUME IInv, NEW t \in Threads, RegisterSession(t)
    PROVE  IInv'
  BY OutInside, PlainExit DEF RegisterSession, ReleaseAndExit, body

LEMMA CancelledStep ==
    ASSUME IInv, NEW t \in Threads, Cancelled(t)
    PROVE  IInv'
  BY OutInside, PlainExit DEF Cancelled, ReleaseAndExit, body

\* The handle is looked up.
LEMMA LookupStep ==
    ASSUME IInv, NEW t \in Threads, Lookup(t)
    PROVE  IInv'
<1>1. TypeInv /\ CallsInv(t) /\ AccessInv(t) /\ GotInv(t) /\ HandleInv(t)
  BY DEF IInv
<1>2. CASE ~Found(Current(t)) /\ Return(t) /\ UNCHANGED mapLock
  BY <1>2, OutInside, ReturnStep DEF Lookup
<1>3. CASE /\ Found(Current(t)) /\ mapLock' = t /\ GoTo(t, "found")
           /\ UNCHANGED <<destructionPending, got, regions, calls>>
  <2>1. /\ step[t] = "lookup" /\ mapLock = NoThread
        /\ step' = [step EXCEPT ![t] = "found"]
        /\ UNCHANGED <<access, place, deferFlag, forgotten, userBuffers>>
    BY <1>3 DEF Lookup, GoTo
  <2>2. step'[t] = "found" /\ Current(t)' = Current(t) /\ Depth(t)' = Depth(t)
        /\ calls'[t] = calls[t]
    BY <1>1, <1>3, <2>1 DEF TypeInv, Current, Depth
  <2>3. OthersStay(t)
    BY <1>1, <1>3, <2>1, SessionAssumption DEF OthersStay, TypeInv
  <2>4. TypeInv'
    <3>1. "found" \in Steps
      BY DEF Steps
    <3> QED
      BY <1>1, <1>3, <2>1, <3>1 DEF TypeInv
  <2>5. CallsInv(t)'
    BY <1>1, <2>1, <2>2 DEF CallsInv, CallsAt
  <2>6. AccessInv(t)'
    <3>1. Held(t)' = Held(t) /\ nesting'[t] = nesting[t] /\ pc'[t] = pc[t]
          /\ suspended' = suspended
      BY <2>1, <2>2 DEF Held, access
    <3> QED
      BY <1>1, <1>3, <2>1, <2>2, <3>1 DEF AccessInv, PlacesAt
  <2>7. GotInv(t)'
    BY <1>1, <1>3, <2>1, <2>2 DEF GotInv
  <2>8. HandleInv(t)'
    BY <1>1, <1>3, <2>1, <2>2 DEF HandleInv, Found
  <2>9. BuffersInv' /\ DeferInv'
    BY <1>3, <2>1, <2>2, <2>3, SameBuffers
  <2> QED
    BY <2>1, <2>3, <2>4, <2>5, <2>6, <2>7, <2>8, <2>9, StepInv
<1> QED
  BY <1>2, <1>3 DEF Lookup

\* The reference is made and the call asks for its access.
LEMMA MakeReferenceStep ==
    ASSUME IInv, NEW t \in Threads, MakeReference(t)
    PROVE  IInv'
<1>1. TypeInv /\ CallsInv(t) /\ AccessInv(t) /\ GotInv(t) /\ HandleInv(t) /\ AMP!IInv
  BY DEF IInv
<1>2. /\ step[t] = "found" /\ AM!IncRef(t, "exclusive")
      /\ step' = [step EXCEPT ![t] = "acquire"]
      /\ UNCHANGED <<table, userBuffers, got, regions, calls>>
  BY DEF MakeReference, GoTo, body
<1>3. step'[t] = "acquire" /\ Current(t)' = Current(t) /\ Depth(t)' = Depth(t)
      /\ calls'[t] = calls[t]
  BY <1>1, <1>2 DEF TypeInv, Current, Depth
<1>4. OthersStay(t)
  BY <1>1, <1>2 DEF OthersStay, TypeInv, table
<1>5. TypeInv'
  <2>1. "acquire" \in Steps
    BY DEF Steps
  <2> QED
    BY <1>1, <1>2, <2>1 DEF TypeInv, table
<1>6. CallsInv(t)'
  BY <1>1, <1>2, <1>3 DEF CallsInv, CallsAt
<1>7. AccessInv(t)'
  <2>1. /\ pc'[t] \in {"reset", "lock"} /\ want'[t] = "exclusive"
        /\ nesting'[t] = nesting[t] /\ suspended' = suspended /\ t \notin suspended
    BY <1>1, <1>2, IncRefEffect
  <2>2. Held(t)' = Depth(t) - 1 /\ Held(t) = Depth(t) - 1 /\ mapLock' = mapLock
    BY <1>2, <1>3, <2>1 DEF Held, table
  <2> QED
    BY <1>1, <1>2, <1>3, <2>1, <2>2 DEF AccessInv, PlacesAt
<1>8. GotInv(t)'
  BY <1>1, <1>2, <1>3 DEF GotInv
<1>9. HandleInv(t)'
  BY <1>1, <1>2, <1>3 DEF HandleInv, table
<1>10. BuffersInv' /\ DeferInv'
  BY <1>2, <1>3, <1>4, SameBuffers DEF table
<1> QED
  BY <1>2, <1>4, <1>5, <1>6, <1>7, <1>8, <1>9, <1>10, StepInv DEF AccessStep, table

\* A step inside a call that leaves the access, the calls and the buffers alone
LEMMA Moves ==
    ASSUME IInv, NEW t \in Threads, NEW s \in Steps, step' = [step EXCEPT ![t] = s],
           step[t] \in {"acquire", "body", "resumed"}, pc[t] = "out",
           s \in {"body", "register", "cancel", "check"}, Current(t) \in CallsAt(s),
           Depth(t) = 2 => s = "body", UNCHANGED <<access, calls>>,
           s = "body" => step[t] = "acquire",
           OthersStay(t)
    PROVE  CallsInv(t)' /\ AccessInv(t)' /\ (got' = got => GotInv(t)')
<1>1. TypeInv /\ CallsInv(t) /\ AccessInv(t) /\ GotInv(t) /\ AMP!IInv
  BY DEF IInv
<1>2. step'[t] = s /\ Current(t)' = Current(t) /\ Depth(t)' = Depth(t)
      /\ calls'[t] = calls[t]
  BY <1>1 DEF TypeInv, Current, Depth
<1>3. CallsInv(t)'
  BY <1>1, <1>2 DEF CallsInv, CallsAt
<1>4. AccessInv(t)'
  <2>1. Held(t)' = Held(t) /\ nesting'[t] = nesting[t] /\ pc'[t] = "out"
        /\ suspended' = suspended
    BY <1>1, <1>2 DEF Held, access
  <2> QED
    BY <1>1, <1>2, <2>1 DEF AccessInv, PlacesAt
<1>5. got' = got => GotInv(t)'
  BY <1>1, <1>2 DEF GotInv, CallsAt, CallsInv
<1> QED
  BY <1>3, <1>4, <1>5

LEMMA CancelStep ==
    ASSUME IInv, NEW t \in Threads, Cancel(t)
    PROVE  IInv'
<1>1. TypeInv /\ CallsInv(t) /\ AccessInv(t) /\ HandleInv(t)
  BY DEF IInv
<1>2. /\ step[t] = "body" /\ Current(t) \in {"abort", "close"}
      /\ step' = [step EXCEPT ![t] = "cancel"]
      /\ UNCHANGED <<access, table, userBuffers, got, regions, calls>>
  BY DEF Cancel, GoTo
<1>3. step'[t] = "cancel" /\ Current(t)' = Current(t) /\ "cancel" \in Steps /\ pc[t] = "out"
  BY <1>1, <1>2, OutInside DEF TypeInv, Current, Steps
<1>4. OthersStay(t)
  BY <1>1, <1>2 DEF OthersStay, TypeInv, table
<1>5. TypeInv'
  BY <1>1, <1>2, <1>3 DEF TypeInv, table
<1>6. Depth(t) # 2
  BY <1>1, <1>2 DEF CallsInv
<1>7. CallsInv(t)' /\ AccessInv(t)' /\ GotInv(t)'
  BY <1>2, <1>3, <1>4, <1>6, Moves DEF CallsAt
<1>8. HandleInv(t)'
  BY <1>1, <1>2, <1>3 DEF HandleInv, table
<1>9. BuffersInv' /\ DeferInv'
  BY <1>2, <1>3, <1>4, SameBuffers DEF table
<1> QED
  BY <1>2, <1>4, <1>5, <1>7, <1>8, <1>9, StepInv DEF table

\* GetSession has the access.
LEMMA GetSessionStep ==
    ASSUME IInv, NEW t \in Threads, GetSession(t)
    PROVE  IInv'
<1>1. TypeInv /\ CallsInv(t) /\ AccessInv(t) /\ HandleInv(t)
  BY DEF IInv
<1>2. /\ step[t] = "acquire" /\ pc[t] = "out" /\ Current(t) # "close"
      /\ mapLock' = NoThread
      /\ destructionPending' = IF place = "open" THEN destructionPending
                                                 ELSE destructionPending \cup {t}
      /\ step' = [step EXCEPT ![t] = "body"]
      /\ UNCHANGED <<access, place, deferFlag, forgotten, userBuffers, got, regions, calls>>
  BY DEF GetSession, GoTo, body
<1>3. step'[t] = "body" /\ Current(t)' = Current(t) /\ "body" \in Steps
  BY <1>1, <1>2 DEF TypeInv, Current, Steps
<1>4. mapLock = t
  BY <1>1, <1>2 DEF AccessInv
<1>5. OthersStay(t)
  BY <1>1, <1>2, <1>4 DEF OthersStay, TypeInv
<1>6. TypeInv'
  BY <1>1, <1>2, <1>3 DEF TypeInv
<1>7. Current(t) \in CallsAt("body")
  BY <1>1, <1>2 DEF CallsInv, CallsAt
<1>8. CallsInv(t)' /\ AccessInv(t)' /\ GotInv(t)'
  BY <1>2, <1>3, <1>5, <1>7, Moves
<1>9. HandleInv(t)'
  BY <1>1, <1>2, <1>3 DEF HandleInv
<1>10. BuffersInv' /\ DeferInv'
  BY <1>2, <1>3, <1>5, SameBuffers
<1> QED
  BY <1>2, <1>5, <1>6, <1>8, <1>9, <1>10, StepInv

\* A call that is inside its access is the only one.
LEMMA OneInside ==
    ASSUME IInv, NEW t \in Threads,
           \/ step[t] \in {"body", "register", "cancel", "check"}
           \/ step[t] \in {"acquire", "resumed"} /\ pc[t] = "out"
    PROVE  active = {t}
<1>1. CallsInv(t) /\ AccessInv(t) /\ AMP!IInv
  BY DEF IInv
<1>2. pc[t] = "out" /\ t \notin suspended
  BY <1>1, OutInside DEF AccessInv
<1>3. Held(t) = Depth(t) /\ Depth(t) \in 1 .. 2
  BY <1>1, <1>2 DEF Held, CallsInv
<1>4. Len(nesting[t]) > 0
  BY <1>1, <1>3 DEF AccessInv
<1> QED
  BY <1>1, <1>2, <1>4, Alone

\* DestroySession moves the handle: no other call relies on where it is.
LEMMA EraseSessionStep ==
    ASSUME IInv, NEW t \in Threads, NEW defer \in BOOLEAN, EraseSession(t, defer)
    PROVE  IInv'
<1>1. TypeInv /\ CallsInv(t) /\ AccessInv(t) /\ HandleInv(t)
  BY DEF IInv
<1>2. /\ step[t] = "acquire" /\ pc[t] = "out" /\ Current(t) = "close"
      /\ place' = IF defer /\ userBuffers # 0 THEN "deferred" ELSE "closed"
      /\ deferFlag' = (defer /\ \A u \in Threads : step[u] # "blocked")
      /\ forgotten' = (place' = "deferred" /\ ~UserHasBuffers)
      /\ mapLock' = NoThread
      /\ step' = [step EXCEPT ![t] = "body"]
      /\ UNCHANGED <<access, destructionPending, userBuffers, got, regions, calls>>
  BY DEF EraseSession, GoTo, body, CheckDeferredDestructionConditionsMet
<1>3. step'[t] = "body" /\ Current(t)' = Current(t) /\ "body" \in Steps
  BY <1>1, <1>2 DEF TypeInv, Current, Steps
<1>4. mapLock = t /\ place = "open" /\ active = {t}
  BY <1>1, <1>2, OneInside DEF AccessInv, HandleInv
<1>5. OthersStay(t)
  BY <1>1, <1>2, <1>4 DEF OthersStay, TypeInv
<1>6. TypeInv'
  <2>1. /\ deferFlag' \in BOOLEAN /\ forgotten' \in BOOLEAN
        /\ place' \in {"open", "deferred", "closed"}
    BY <1>2
  <2> QED
    BY <1>1, <1>2, <1>3, <2>1 DEF TypeInv
<1>7. Current(t) \in CallsAt("body")
  BY <1>1, <1>2 DEF CallsInv, CallsAt
<1>8. CallsInv(t)' /\ AccessInv(t)' /\ GotInv(t)'
  BY <1>2, <1>3, <1>5, <1>7, Moves
<1>9. HandleInv(t)'
  BY <1>1, <1>2, <1>3, <1>4 DEF HandleInv
<1>10. ASSUME NEW u \in Threads, u # t
       PROVE  CallsInv(u)' /\ AccessInv(u)' /\ GotInv(u)' /\ HandleInv(u)'
  <2>1. CallsInv(u)' /\ AccessInv(u)' /\ GotInv(u)'
    BY <1>2, <1>5, <1>10, OtherThreads
  <2>2. step[u] \notin {"body", "check", "found", "acquire"}
    <3>1. step[u] \notin {"body", "check"}
      BY <1>4, <1>10, OneInside
    <3>2. step[u] \notin {"found", "acquire"}
      BY <1>4, <1>10 DEF IInv, AccessInv
    <3> QED
      BY <3>1, <3>2
  <2>3. step'[u] = step[u] /\ place' # "open"
    BY <1>2, <1>5, <1>10 DEF OthersStay
  <2>4. HandleInv(u)'
    BY <2>2, <2>3 DEF HandleInv
  <2> QED
    BY <2>1, <2>4
<1>11. BuffersInv'
  BY <1>2 DEF IInv, BuffersInv
<1>12. DeferInv'
  <2>1. userBuffers \in Nat /\ userBuffers' = userBuffers
    BY <1>2 DEF IInv, BuffersInv
  <2>2. deferFlag' => \A u \in Threads : step'[u] # "blocked"
    BY <1>1, <1>2 DEF TypeInv
  <2>3. DeferredIsOwed'
    <3> SUFFICES ASSUME UserHasBuffers PROVE UserHasBuffers'
      BY <1>2 DEF DeferredIsOwed
    <3>1. \A u \in got : Current(u)' = Current(u)
      BY <1>2 DEF Current
    <3> QED
      BY <1>2, <3>1 DEF UserHasBuffers
  <2> QED
    BY <1>2, <2>1, <2>2, <2>3 DEF DeferInv
<1>13. AMP!IInv'
  BY <1>2, AccessInvariant DEF IInv
<1> QED
  BY <1>6, <1>8, <1>9, <1>10, <1>11, <1>12, <1>13 DEF IInv

\* A call suspends its access and waits, or may not.
LEMMA WaitStep ==
    ASSUME IInv, NEW t \in Threads, Wait(t)
    PROVE  IInv'
<1>1. TypeInv /\ CallsInv(t) /\ AccessInv(t) /\ GotInv(t) /\ HandleInv(t) /\ AMP!IInv
  BY DEF IInv
<1>2. /\ step[t] = "body" /\ Current(t) \in {"wait", "external", "accept"}
      /\ UNCHANGED <<table, userBuffers, got, regions, calls>>
  BY DEF Wait
<1>3. CASE ReleaseAndExit(t)
  BY <1>2, <1>3, OutInside, PlainExit DEF ReleaseAndExit
<1>4. CASE AM!SuspendAccess(t) /\ GoTo(t, "blocked")
  <2>1. step' = [step EXCEPT ![t] = "blocked"] /\ step'[t] = "blocked"
        /\ Current(t)' = Current(t) /\ Depth(t)' = Depth(t) /\ calls'[t] = calls[t]
    BY <1>1, <1>2, <1>4 DEF TypeInv, GoTo, Current, Depth
  <2>2. OthersStay(t)
    BY <1>1, <1>2, <2>1 DEF OthersStay, TypeInv, table
  <2>3. TypeInv'
    <3>1. "blocked" \in Steps
      BY DEF Steps
    <3> QED
      BY <1>1, <1>2, <2>1, <3>1 DEF TypeInv, table
  <2>4. CallsInv(t)'
    BY <1>1, <1>2, <2>1 DEF CallsInv, CallsAt
  <2>5. AccessInv(t)'
    <3>1. pc'[t] = "out" /\ nesting'[t] = nesting[t] /\ t \in suspended' /\ pc[t] = "out"
      BY <1>1, <1>2, <1>4, SuspendEffect, OutInside
    <3>2. Held(t)' = Held(t)
      BY <1>2, <2>1, <3>1 DEF Held
    <3> QED
      BY <1>1, <2>1, <3>1, <3>2 DEF AccessInv, PlacesAt
  <2>6. GotInv(t)'
    BY <1>1, <1>2, <2>1 DEF GotInv
  <2>7. place = "open" /\ place' = "open" /\ deferFlag' = deferFlag
    BY <1>1, <1>2 DEF HandleInv, table
  <2>8. HandleInv(t)'
    BY <1>1, <1>2, <2>1, <2>7 DEF HandleInv, table
  <2>9. BuffersInv'
    BY <1>2 DEF IInv, BuffersInv
  <2>10. DeferInv'
    BY <2>7 DEF IInv, DeferInv, DeferredIsOwed
  <2> QED
    BY <1>4, <2>2, <2>3, <2>4, <2>5, <2>6, <2>7, <2>8, <2>9, <2>10, StepInv DEF AccessStep
<1> QED
  BY <1>3, <1>4 DEF Wait

\* The wait is over: the call asks for its access again.
LEMMA ResumeStep ==
    ASSUME IInv, NEW t \in Threads, Resume(t)
    PROVE  IInv'
<1>1. TypeInv /\ CallsInv(t) /\ AccessInv(t) /\ GotInv(t) /\ HandleInv(t) /\ AMP!IInv
  BY DEF IInv
<1>2. /\ step[t] = "resume" /\ AM!ResumeAccess(t)
      /\ step' = [step EXCEPT ![t] = "resumed"]
      /\ UNCHANGED <<table, userBuffers, got, regions, calls>>
  BY DEF Resume, GoTo, body
<1>3. step'[t] = "resumed"
      /\ Current(t)' = Current(t) /\ Depth(t)' = Depth(t) /\ calls'[t] = calls[t]
  BY <1>1, <1>2 DEF TypeInv, Current, Depth
<1>4. OthersStay(t)
  BY <1>1, <1>2 DEF OthersStay, TypeInv, table
<1>5. TypeInv'
  <2>1. "resumed" \in Steps
    BY DEF Steps
  <2> QED
    BY <1>1, <1>2, <2>1 DEF TypeInv, table
<1>6. CallsInv(t)'
  BY <1>1, <1>2, <1>3 DEF CallsInv, CallsAt
<1>7. AccessInv(t)'
  <2>1. pc'[t] \in {"out", "waiting"} /\ nesting'[t] = nesting[t] /\ t \notin suspended'
        /\ pc[t] = "out"
    BY <1>1, <1>2, ResumeEffect, OutInside
  <2>2. Held(t)' = Held(t)
    BY <1>2, <1>3, <2>1 DEF Held
  <2> QED
    BY <1>1, <1>3, <2>1, <2>2 DEF AccessInv, PlacesAt
<1>8. GotInv(t)'
  BY <1>1, <1>2, <1>3 DEF GotInv
<1>9. HandleInv(t)'
  BY <1>1, <1>2, <1>3 DEF HandleInv, table
<1>10. BuffersInv' /\ DeferInv'
  BY <1>2, <1>3, <1>4, SameBuffers DEF table
<1> QED
  BY <1>2, <1>4, <1>5, <1>6, <1>7, <1>8, <1>9, <1>10, StepInv DEF AccessStep, table

LEMMA ResumedStep ==
    ASSUME IInv, NEW t \in Threads, Resumed(t)
    PROVE  IInv'
<1>1. TypeInv /\ CallsInv(t) /\ AccessInv(t) /\ HandleInv(t)
  BY DEF IInv
<1>2. /\ step[t] = "resumed" /\ pc[t] = "out"
      /\ UNCHANGED <<table, userBuffers, got, regions, calls>>
  BY DEF Resumed, body
<1>3. CASE ReleaseAndExit(t)
  BY <1>2, <1>3, PlainExit DEF ReleaseAndExit
<1>4. CASE Current(t) = "accept" /\ GoTo(t, "register") /\ UNCHANGED access
  <2>1. step' = [step EXCEPT ![t] = "register"] /\ step'[t] = "register"
        /\ Current(t)' = Current(t) /\ "register" \in Steps
    BY <1>1, <1>2, <1>4 DEF TypeInv, GoTo, Current, Steps
  <2>2. OthersStay(t)
    BY <1>1, <1>2, <2>1 DEF OthersStay, TypeInv, table
  <2>3. TypeInv'
    BY <1>1, <1>2, <2>1 DEF TypeInv, table
  <2>4. Depth(t) # 2
    BY <1>1, <1>2 DEF CallsInv
  <2>5. CallsInv(t)' /\ AccessInv(t)' /\ GotInv(t)'
    BY <1>2, <1>4, <2>1, <2>2, <2>4, Moves DEF CallsAt
  <2>6. HandleInv(t)'
    BY <1>1, <1>2, <2>1 DEF HandleInv, table
  <2>7. BuffersInv' /\ DeferInv'
    BY <1>2, <2>1, <2>2, SameBuffers DEF table
  <2> QED
    BY <1>2, <1>4, <2>2, <2>3, <2>5, <2>6, <2>7, StepInv DEF table
<1> QED
  BY <1>3, <1>4 DEF Resumed

\* A buffer is queued again: the session is open.
LEMMA QueueStep ==
    ASSUME IInv, NEW t \in Threads, Queue(t)
    PROVE  IInv'
<1>1. GotInv(t) /\ HandleInv(t) /\ BuffersInv
  BY DEF IInv
<1>2. /\ step[t] = "body" /\ Current(t) = "queue" /\ AM!Release(t) /\ pc[t] = "out"
      /\ \/ userBuffers' = userBuffers - 1 /\ got' = got \ {t}
         \/ userBuffers' = userBuffers /\ got' = got
      /\ step' = [step EXCEPT ![t] = "exit"] /\ UNCHANGED <<table, regions, calls>>
  BY OutInside DEF Queue, ReleaseAndExit, GoTo
<1>3. /\ OthersStay(t) /\ TypeInv' /\ CallsInv(t)' /\ AccessInv(t)' /\ GotInv(t)'
      /\ HandleInv(t)'
  <2>1. forgotten' \in BOOLEAN
    BY <1>2 DEF table, IInv, TypeInv
  <2> QED
    BY <1>2, <2>1, ReleaseExit DEF table
<1>4. t \in got /\ place = "open" /\ place' = "open" /\ deferFlag' = deferFlag
  BY <1>1, <1>2 DEF GotInv, HandleInv, table
<1>5. BuffersInv'
  <2>1. CASE userBuffers' = userBuffers - 1 /\ got' = got \ {t}
    BY <1>1, <1>2, <1>4, <2>1, RegionGiven
  <2>2. CASE userBuffers' = userBuffers /\ got' = got
    BY <1>1, <1>2, <2>2 DEF BuffersInv
  <2> QED
    BY <1>2, <2>1, <2>2
<1>6. DeferInv'
  BY <1>4 DEF IInv, DeferInv, DeferredIsOwed
<1> QED
  BY <1>2, <1>3, <1>4, <1>5, <1>6, StepInv DEF AccessStep

\* A buffer becomes idle: the call will look whether it was the last one.
LEMMA ReleaseRegionStep ==
    ASSUME IInv, NEW t \in Threads, ReleaseRegion(t)
    PROVE  IInv'
<1>1. TypeInv /\ CallsInv(t) /\ AccessInv(t) /\ GotInv(t) /\ HandleInv(t) /\ BuffersInv
  BY DEF IInv
<1>2. step[t] = "body" /\ pc[t] = "out" /\ UNCHANGED <<table, regions, calls>>
  BY OutInside DEF ReleaseRegion
<1>3. CASE ReleaseAndExit(t) /\ UNCHANGED <<userBuffers, got>>
  BY <1>2, <1>3, PlainExit DEF ReleaseAndExit
<1>4. CASE /\ Current(t) = "release" /\ userBuffers' = userBuffers - 1 /\ got' = got \ {t}
           /\ GoTo(t, "check") /\ UNCHANGED access
  <2>1. step' = [step EXCEPT ![t] = "check"] /\ step'[t] = "check"
        /\ Current(t)' = Current(t) /\ "check" \in Steps
    BY <1>1, <1>2, <1>4 DEF TypeInv, GoTo, Current, Steps
  <2>2. OthersStay(t)
    BY <1>1, <1>2, <1>4, <2>1 DEF OthersStay, TypeInv, table
  <2>3. TypeInv'
    BY <1>1, <1>2, <2>1 DEF TypeInv, table
  <2>4. Depth(t) # 2
    BY <1>1, <1>4 DEF CallsInv
  <2>5. CallsInv(t)' /\ AccessInv(t)'
    BY <1>2, <1>4, <2>1, <2>2, <2>4, Moves DEF CallsAt
  <2>6. GotInv(t)'
    BY <1>4, <2>1 DEF GotInv
  <2>7. HandleInv(t)'
    BY <1>1, <1>2, <1>4, <2>1 DEF HandleInv, table
  <2>8. t \in got
    BY <1>1, <1>2, <1>4 DEF GotInv
  <2>9. BuffersInv' /\ userBuffers > 0
    BY <1>1, <1>2, <1>4, <2>8, RegionGiven
  <2>10. DeferInv'
    <3>1. place' = place /\ deferFlag' = deferFlag /\ ~(deferFlag /\ place = "closed")
      BY <1>2, <2>9 DEF IInv, DeferInv, table
    <3>2. deferFlag => \A u \in Threads : step'[u] # "blocked"
      BY <1>1, <2>1 DEF IInv, DeferInv, TypeInv
    <3> QED
      BY <2>1, <3>1, <3>2 DEF IInv, DeferInv, DeferredIsOwed
  <2> QED
    BY <1>2, <1>4, <2>2, <2>3, <2>5, <2>6, <2>7, <2>9, <2>10, StepInv DEF table
<1> QED
  BY <1>3, <1>4 DEF ReleaseRegion

\* The last release of a deferred session destroys it.
LEMMA CheckStep ==
    ASSUME IInv, NEW t \in Threads, CheckDeferredSessionDestructionReady(t)
    PROVE  IInv'
<1>1. TypeInv /\ CallsInv(t) /\ HandleInv(t) /\ DeferInv /\ BuffersInv
  BY DEF IInv
<1>2. /\ step[t] = "check" /\ pc[t] = "out"
      /\ AM!Release(t) \/ AM!ReleaseAndWait(t)
      /\ step' = [step EXCEPT ![t] = "exit"]
      /\ \/ /\ t \in destructionPending /\ userBuffers = 0 /\ place' = "closed"
            /\ forgotten' = forgotten
         \/ /\ ~(t \in destructionPending /\ userBuffers = 0) /\ place' = place
            /\ forgotten' = (forgotten \/ (t \in destructionPending /\ ~UserHasBuffers))
      /\ UNCHANGED <<mapLock, destructionPending, deferFlag, userBuffers, got, regions, calls>>
  BY OutInside DEF CheckDeferredSessionDestructionReady, ReleaseAndExit, GoTo, body,
     CheckDeferredDestructionConditionsMet
<1>3. /\ OthersStay(t) /\ TypeInv' /\ CallsInv(t)' /\ AccessInv(t)' /\ GotInv(t)'
      /\ HandleInv(t)'
  <2>1. forgotten' \in BOOLEAN
    BY <1>1, <1>2 DEF TypeInv
  <2> QED
    BY <1>2, <2>1, ReleaseExit
<1>4. BuffersInv'
  BY <1>1, <1>2 DEF BuffersInv
<1>5. \A u \in Threads : step'[u] = "blocked" => step[u] = "blocked"
  BY <1>1, <1>2 DEF TypeInv
<1>6. CASE /\ ~(t \in destructionPending /\ userBuffers = 0) /\ place' = place
           /\ forgotten' = (forgotten \/ (t \in destructionPending /\ ~UserHasBuffers))
  <2>1. place = "deferred" => t \in destructionPending
    BY <1>1, <1>2 DEF HandleInv, CallsInv, CallsAt
  <2>2. UserHasBuffers => UserHasBuffers'
    <3>1. \A u \in got : Current(u)' = Current(u)
      BY <1>2 DEF Current
    <3> QED
      BY <1>2, <3>1 DEF UserHasBuffers
  <2>3. DeferredIsOwed'
    BY <1>6, <2>1, <2>2 DEF DeferredIsOwed
  <2>4. DeferInv'
    BY <1>1, <1>2, <1>5, <1>6, <2>3 DEF DeferInv
  <2> QED
    BY <1>2, <1>3, <1>4, <1>6, <2>4, StepInv DEF AccessStep
<1>7. CASE t \in destructionPending /\ userBuffers = 0 /\ place' = "closed"
  <2>1. place # "open"
    BY <1>1, <1>7 DEF HandleInv
  <2>2. DeferInv'
    BY <1>1, <1>2, <1>5, <1>7 DEF DeferInv, DeferredIsOwed
  <2>3. ASSUME NEW u \in Threads, u # t
        PROVE  CallsInv(u)' /\ AccessInv(u)' /\ GotInv(u)' /\ HandleInv(u)'
    <3>1. CallsInv(u)' /\ AccessInv(u)' /\ GotInv(u)'
      BY <1>2, <1>3, <2>3, OtherThreads DEF AccessStep
    <3>2. /\ step'[u] = step[u] /\ Current(u)' = Current(u) /\ place' # "open"
          /\ destructionPending' = destructionPending /\ HandleInv(u)
      BY <1>2, <1>3, <1>7, <2>3 DEF OthersStay, Current, IInv
    <3>3. ~(step[u] = "found" /\ Current(u) = "release")
      <4>1. u \notin got
        BY <1>1, <1>7, NoneGot
      <4> QED
        BY <4>1 DEF IInv, GotInv
    <3>4. ~(step[u] = "found" /\ Current(u) \notin {"release", "rerelease"})
      BY <2>1, <3>2 DEF HandleInv
    <3>5. HandleInv(u)'
      BY <2>1, <3>2, <3>3, <3>4 DEF HandleInv
    <3> QED
      BY <3>1, <3>5
  <2>4. AMP!IInv'
    BY <1>2, AccessInvariant DEF IInv, AccessStep
  <2> QED
    BY <1>3, <1>4, <2>2, <2>3, <2>4 DEF IInv
<1> QED
  BY <1>2, <1>6, <1>7

LEMMA ExitStep ==
    ASSUME IInv, NEW t \in Threads, Exit(t)
    PROVE  IInv'
  BY ReturnStep DEF Exit

\* The access manager at work
LEMMA AccessProceedStep ==
    ASSUME IInv, NEW t \in Threads, Access(t)
    PROVE  IInv'
<1>1. TypeInv /\ CallsInv(t) /\ AccessInv(t) /\ GotInv(t) /\ HandleInv(t) /\ AMP!IInv
      /\ BuffersInv /\ DeferInv
  BY DEF IInv
<1>2. AM!Proceed(t) /\ UNCHANGED <<table, body, regions, calls, step, made>>
  BY DEF Access
<1>3. OthersStay(t)
  BY <1>2 DEF OthersStay, table, body
<1>4. TypeInv'
  BY <1>1, <1>2 DEF TypeInv, table
<1>5. Current(t)' = Current(t) /\ Depth(t)' = Depth(t) /\ step'[t] = step[t] /\ calls'[t] = calls[t]
  BY <1>2 DEF Current, Depth
<1>6. CallsInv(t)'
  BY <1>1, <1>5 DEF CallsInv, CallsAt
<1>7. AccessInv(t)'
  <2>1. /\ suspended' = suspended /\ want' = want
        /\ \/ /\ pc[t] = "reset" /\ pc'[t] = "lock" /\ nesting'[t] = nesting[t]
           \/ /\ pc[t] = "lock" /\ pc'[t] \in {"waiting", "out"}
              /\ nesting'[t] = Append(nesting[t], "exclusive")
           \/ /\ pc[t] \in {"waiting", "woken"} /\ pc'[t] \in {"woken", "out"}
              /\ nesting'[t] = nesting[t]
           \/ /\ pc[t] \in {"decref", "release", "waitrefs"}
              /\ pc'[t] \in {"release", "waitrefs", "out"}
              /\ nesting'[t] = nesting[t]
    BY <1>1, <1>2, ProceedEffect DEF AccessInv
  <2>2. mapLock' = mapLock
    BY <1>2 DEF table
  <2>3. CASE nesting'[t] = nesting[t] /\ pc[t] = "reset" /\ pc'[t] = "lock"
    <3>1. Held(t)' = Held(t)
      BY <1>5, <2>3 DEF Held
    <3> QED
      BY <1>1, <1>5, <2>1, <2>2, <2>3, <3>1 DEF AccessInv, PlacesAt
  <2>4. CASE /\ pc[t] \in {"waiting", "woken"} /\ pc'[t] \in {"woken", "out"}
             /\ nesting'[t] = nesting[t]
    <3>1. Held(t)' = Held(t)
      BY <1>5, <2>4 DEF Held
    <3> QED
      BY <1>1, <1>5, <2>1, <2>2, <2>4, <3>1 DEF AccessInv, PlacesAt
  <2>5. CASE /\ pc[t] \in {"decref", "release", "waitrefs"}
             /\ pc'[t] \in {"release", "waitrefs", "out"}
             /\ nesting'[t] = nesting[t]
    <3>1. Held(t)' = Held(t)
      BY <1>5, <2>5 DEF Held
    <3> QED
      BY <1>1, <1>5, <2>1, <2>2, <2>5, <3>1 DEF AccessInv, PlacesAt
  <2>6. CASE /\ pc[t] = "lock" /\ pc'[t] \in {"waiting", "out"}
             /\ nesting'[t] = Append(nesting[t], "exclusive")
    <3>1. step[t] = "acquire"
      BY <1>1, <2>6 DEF AccessInv, PlacesAt
    <3>2. Held(t) = Depth(t) - 1 /\ Held(t)' = Depth(t) /\ Depth(t) \in 0 .. 2
      BY <1>1, <1>5, <2>6, <3>1 DEF Held, CallsInv
    <3>3. nesting[t] \in Seq(AMP!Kinds) /\ "exclusive" \in AMP!Kinds
      BY <1>1 DEF AMP!IInv, AMP!TypeOK, AMP!Kinds
    <3>4. /\ nesting'[t] \in Seq(AMP!Kinds) /\ Len(nesting'[t]) = Len(nesting[t]) + 1
          /\ nesting'[t][Len(nesting[t]) + 1] = "exclusive"
      BY <2>6, <3>3, AppendProperties
    <3>5. \A i \in 1 .. Len(nesting[t]) : nesting'[t][i] = nesting[t][i]
      BY <2>6, <3>3, AppendProperties
    <3>6. \A i \in DOMAIN nesting'[t] : nesting'[t][i] = "exclusive"
      <4>1. DOMAIN nesting'[t] = 1 .. Len(nesting[t]) + 1
            /\ DOMAIN nesting[t] = 1 .. Len(nesting[t]) /\ Len(nesting[t]) \in Nat
        BY <3>3, <3>4
      <4>2. \A i \in 1 .. Len(nesting[t]) : nesting[t][i] = "exclusive"
        BY <1>1, <4>1 DEF AccessInv
      <4> QED
        BY <3>4, <3>5, <4>1, <4>2
    <3>7. Len(nesting'[t]) = Held(t)'
      BY <1>1, <3>2, <3>4 DEF AccessInv
    <3> QED
      BY <1>1, <1>5, <2>1, <2>2, <2>6, <3>1, <3>6, <3>7 DEF AccessInv, PlacesAt
  <2> QED
    BY <2>1, <2>3, <2>4, <2>5, <2>6
<1>8. GotInv(t)'
  BY <1>1, <1>2, <1>5 DEF GotInv, body
<1>9. HandleInv(t)'
  BY <1>1, <1>2, <1>5 DEF HandleInv, table
<1>10. BuffersInv'
  BY <1>1, <1>2 DEF BuffersInv, body
<1>11. DeferInv'
  BY <1>1, <1>2 DEF DeferInv, DeferredIsOwed, UserHasBuffers, Current, body, table
<1> QED
  BY <1>2, <1>3, <1>4, <1>6, <1>7, <1>8, <1>9, <1>10, <1>11, StepInv DEF AccessStep, table

-----------------------------------------------------------------------------
(* The inductive invariant                                                 *)

LEMMA InitIInv == Init => IInv
<1> SUFFICES ASSUME Init PROVE IInv
  OBVIOUS
<1>1. AM!Init /\ AMP!Init
  BY DEF Init, AM!Init, AMP!Init
<1>2. AMP!IInv
  BY <1>1, AMP!InitIInv, SessionAssumption
<1>3. TypeInv
  <2>1. <<>> \in Seq(Calls) /\ "idle" \in Steps
    BY DEF Steps
  <2> QED
    BY <2>1 DEF Init, TypeInv
<1>4. ASSUME NEW t \in Threads
      PROVE  CallsInv(t) /\ AccessInv(t) /\ GotInv(t) /\ HandleInv(t)
  <2>1. /\ step[t] = "idle" /\ calls[t] = <<>> /\ pc[t] = "out" /\ nesting[t] = <<>>
        /\ suspended = {} /\ got = {} /\ destructionPending = {}
    BY <1>1 DEF Init, AM!Init
  <2>2. Depth(t) = 0 /\ Held(t) = 0 /\ Len(nesting[t]) = 0 /\ DOMAIN nesting[t] = {}
    BY <2>1 DEF Depth, Held
  <2> QED
    BY <2>1, <2>2 DEF CallsInv, AccessInv, GotInv, HandleInv, PlacesAt
<1>5. BuffersInv
  BY FS_EmptySet DEF Init, BuffersInv
<1>6. DeferInv
  BY DEF Init, DeferInv, DeferredIsOwed
<1> QED
  BY <1>2, <1>3, <1>4, <1>5, <1>6 DEF IInv

LEMMA NextIInv == IInv /\ [Next]_vars => IInv'
<1> SUFFICES ASSUME IInv, [Next]_vars PROVE IInv'
  OBVIOUS
<1>1. CASE Next
  <2>1. PICK t \in Threads : \/ \E op \in Ops : Begin(t, op)
                             \/ CallBack(t) \/ WaitEnds(t) \/ Proceed(t)
    BY <1>1 DEF Next
  <2>2. CASE \/ \E op \in Ops : Begin(t, op)
             \/ CallBack(t) \/ WaitEnds(t)
    BY <2>2, BeginStep, CallBackStep, WaitEndsStep
  <2>3. CASE Proceed(t)
    BY <2>3, LookupStep, MakeReferenceStep, GetSessionStep, EraseSessionStep, UseStep,
       WaitStep, QueueExternalStep, ResumeStep, ResumedStep, RegisterSessionStep, CancelStep, CancelledStep, QueueStep,
       ReleaseRegionStep, CheckStep, ExitStep, AccessProceedStep DEF Proceed
  <2> QED
    BY <2>1, <2>2, <2>3
<1>2. CASE UNCHANGED vars
  <2>1. /\ UNCHANGED <<access, table, body, regions, calls, step, made>>
    BY <1>2 DEF vars
  <2>2. AMP!IInv'
    BY <2>1, AccessInvariant DEF IInv
  <2>3. TypeInv' /\ BuffersInv' /\ DeferInv'
    BY <2>1 DEF IInv, TypeInv, BuffersInv, DeferInv, DeferredIsOwed, UserHasBuffers, Current,
       table, body
  <2>4. ASSUME NEW u \in Threads
        PROVE  CallsInv(u)' /\ AccessInv(u)' /\ GotInv(u)' /\ HandleInv(u)'
    <3>1. /\ pc' = pc /\ nesting' = nesting /\ want' = want /\ suspended' = suspended
          /\ step' = step /\ calls' = calls /\ mapLock' = mapLock /\ got' = got
          /\ destructionPending' = destructionPending /\ place' = place
      BY <2>1 DEF access, table, body
    <3>2. CallsInv(u) /\ AccessInv(u) /\ GotInv(u) /\ HandleInv(u)
      BY DEF IInv
    <3>3. Current(u)' = Current(u) /\ Depth(u)' = Depth(u) /\ Held(u)' = Held(u)
      BY <3>1 DEF Current, Depth, Held
    <3>4. CallsInv(u)' /\ GotInv(u)' /\ HandleInv(u)'
      BY <3>1, <3>2, <3>3 DEF CallsInv, CallsAt, GotInv, HandleInv
    <3>5. AccessInv(u)'
      BY <3>1, <3>2, <3>3 DEF AccessInv, PlacesAt
    <3> QED
      BY <3>4, <3>5
  <2> QED
    BY <2>2, <2>3, <2>4 DEF IInv
<1> QED
  BY <1>1, <1>2

-----------------------------------------------------------------------------
(* Theorems                                                                *)

\* The inductive invariant holds in every reachable state.
THEOREM Invariance == Spec => []IInv
  BY InitIInv, NextIInv, PTL DEF Spec

\* The code of a session runs for one call at a time: a call is inside from the return
\* of GetSession or DestroySession (rdma_api_common.h) to the end of its reference,
\* except while it waits with its access suspended.
OneCallInside ==
    \A t, u \in Threads :
        /\ step[t] \in {"body", "register", "cancel", "check"}
        /\ step[u] \in {"body", "register", "cancel", "check"}
        => t = u

\* Whatever the calls do, at most one is inside the session: it has its access, has not
\* suspended it and does not wait for it.  GetSession and DestroySession of
\* rdma_api_common.h.
THEOREM Exclusion == Spec => []OneCallInside
<1>1. IInv => OneCallInside
  BY OneInside DEF OneCallInside
<1> QED
  BY <1>1, Invariance, PTL

\* A deferred session is not forgotten: the tests at close and at release cannot both miss
\* the last region of the user, unless all that one of them found were buffers that
\* QueueExternalBufferRegion had in userBuffers.
THEOREM Deferral == Spec => []DeferredIsOwed
<1>1. IInv => DeferredIsOwed
  BY DEF IInv, DeferInv
<1> QED
  BY <1>1, Invariance, PTL

\* A session closed with DeferWhileUserBuffersOutstanding, while no thread waits for a
\* buffer, is not destroyed while the user has one.
THEOREM DeferralLasts == Spec => []DeferWhileUserBuffersOutstanding
<1>1. IInv => DeferWhileUserBuffersOutstanding
  BY DEF IInv, DeferInv, DeferWhileUserBuffersOutstanding
<1> QED
  BY <1>1, Invariance, PTL

\* What the calls do to the reference count
LEMMA References ==
    ASSUME IInv, NEW t \in Threads, place = "closed",
           \/ CallBack(t) \/ WaitEnds(t) \/ Proceed(t)
           \/ \E op \in Ops : Begin(t, op)
    PROVE  \/ refcount' <= refcount
           \/ step[t] = "found" /\ Current(t) = "rerelease" /\ MakeReference(t)
<1>1. refcount \in Int
  BY DEF IInv, AMP!IInv, AMP!TypeOK
<1>2. CASE refcount' = refcount
  BY <1>1, <1>2
<1>3. CASE UNCHANGED access
  BY <1>1, <1>3 DEF access
<1>4. CASE MakeReference(t)
  BY <1>4 DEF IInv, HandleInv, MakeReference
<1>5. CASE Access(t)
  <2>1. refcount' = refcount \/ refcount' = refcount - 1
    BY <1>5 DEF Access, AM!Proceed, AM!ResetAllRefsReleased, AM!GetSharedAccess,
       AM!GetExclusiveAccess, AM!WaitForSignal, AM!SatisfyNext, AM!DecRef,
       AM!ReleaseAllRefsReleased, AM!WaitForAllReferences, AM!refs
  <2> QED
    BY <1>1, <2>1
<1>6. AM!Release(t) \/ AM!ReleaseAndWait(t) \/ AM!SuspendAccess(t) \/ AM!ResumeAccess(t)
        => refcount' = refcount
  BY DEF AM!Release, AM!ReleaseAndWait, AM!ReleaseAccess, AM!SuspendAccess, AM!ResumeAccess,
     AM!refs
<1>7. CASE Use(t) \/ Wait(t) \/ Resume(t) \/ Resumed(t) \/ RegisterSession(t) \/ Cancelled(t)
  BY <1>2, <1>3, <1>6, <1>7 DEF Use, Wait, Resume, Resumed, RegisterSession, Cancelled,
     ReleaseAndExit
<1>8. CASE Queue(t) \/ ReleaseRegion(t) \/ CheckDeferredSessionDestructionReady(t)
  BY <1>2, <1>3, <1>6, <1>8 DEF Queue, ReleaseRegion, CheckDeferredSessionDestructionReady,
     ReleaseAndExit
<1>9. CASE \/ GetSession(t) \/ (\E defer \in BOOLEAN : EraseSession(t, defer))
           \/ Cancel(t) \/ Exit(t) \/ CallBack(t) \/ WaitEnds(t) \/ QueueExternal(t)
           \/ Lookup(t) \/ \E op \in Ops : Begin(t, op)
  BY <1>3, <1>9 DEF Lookup, QueueExternal, GetSession, EraseSession, Cancel, Exit, CallBack, WaitEnds, Begin
<1> QED
  BY <1>4, <1>5, <1>7, <1>8, <1>9 DEF Proceed

\* Once the handle is in neither table only a second release of a region, under way when
\* CheckDeferredSessionDestructionReady erased the handle, makes a reference: no call that
\* gives back a region that the user has, and no other call.
THEOREM ReferencesOnlyFall == Spec => NoNewReferences
<1>1. IInv /\ [Next]_vars
        => [place = "closed" =>
              \/ refcount' <= refcount
              \/ \E t \in Threads : /\ step[t] = "found" /\ Current(t) = "rerelease"
                                    /\ MakeReference(t)]_vars
  BY References DEF Next
<1> QED
  BY <1>1, Invariance, PTL DEF Spec, NoNewReferences

\* The access manager is used as its specification allows: every step of the API calls
\* is one of its steps or leaves it alone.  So what is proved of it holds in the session.
THEOREM AccessRefinement == Spec => AM!Spec
<1>1. Init => AM!Init
  BY DEF Init
<1>2. ASSUME NEW t \in Threads
      PROVE  AccessStep(t) => AM!Next
  BY DEF AccessStep, AM!Next, AM!Call, AM!Kinds
<1>3. [Next]_vars => [AM!Next]_(AM!vars)
  <2>1. \A t \in Threads : Access(t) => AM!Next
    BY <1>2 DEF Access, AccessStep
  <2>2. \A t \in Threads : MakeReference(t) => AM!Next
    BY <1>2 DEF MakeReference, AccessStep
  <2>3. \A t \in Threads :
          Use(t) \/ Wait(t) \/ Resume(t) \/ Resumed(t) \/ RegisterSession(t) \/ Cancelled(t)
            => AM!Next \/ UNCHANGED access
    BY <1>2 DEF AccessStep, Use, Wait, Resume, Resumed, RegisterSession, Cancelled,
       ReleaseAndExit
  <2>4. \A t \in Threads :
          Queue(t) \/ ReleaseRegion(t) \/ CheckDeferredSessionDestructionReady(t)
            => AM!Next \/ UNCHANGED access
    BY <1>2 DEF AccessStep, Queue, ReleaseRegion, CheckDeferredSessionDestructionReady,
       ReleaseAndExit
  <2>5. \A t \in Threads :
          Lookup(t) \/ GetSession(t) \/ Cancel(t) \/ Exit(t) \/ CallBack(t) \/ WaitEnds(t)
            \/ QueueExternal(t) \/ (\E defer \in BOOLEAN : EraseSession(t, defer))
            \/ (\E op \in Ops : Begin(t, op))
          => UNCHANGED access
    BY DEF Lookup, QueueExternal, GetSession, EraseSession, Cancel, Exit, CallBack, WaitEnds,
       Begin
  <2>6. UNCHANGED vars => UNCHANGED access
    BY DEF vars
  <2>7. UNCHANGED access => UNCHANGED AM!vars
    BY DEF access, AM!vars
  <2> QED
    BY <2>1, <2>2, <2>3, <2>4, <2>5, <2>6, <2>7 DEF Next, Proceed
<1> QED
  BY <1>1, <1>3, PTL DEF Spec, AM!Spec

=============================================================================
