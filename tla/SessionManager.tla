--------------------------- MODULE SessionManager ---------------------------
(***************************************************************************)
(* SessionManager (core/api/rdma_api_common.h) and the calls of the C API  *)
(* (core/api/rdma_api_c.cpp) that several threads make on the handle of    *)
(* one session: how mapLock, the session's access manager, the wait for    *)
(* all references and the deferred close work together.                    *)
(*                                                                         *)
(* The access manager is the one of module AccessManager: every step of a  *)
(* call that touches it is a step of that module.  Other sessions appear   *)
(* only where they meet this one, in mapLock.  What a call does inside its *)
(* access is kept where it matters here: whether it waits with its access  *)
(* suspended, cancels, or changes the number of buffers in userBuffers.    *)
(***************************************************************************)
EXTENDS Integers, Sequences, FiniteSets

CONSTANTS
    Threads,
    MaxNest,
    NoThread,       \* mapLock is free
    Ops,            \* the calls that threads make, a subset of Calls
    Callbacks,      \* TRUE: a completion callback calls back into the API
    MaxCalls,       \* bound: calls that each thread makes, not counting one from a callback
    MaxUserBuffers  \* the buffers of the session

\* "queue" is QueueBufferRegion and ReleaseReceivedBufferRegion; "external" is
\* QueueExternalBufferRegion; "release" gives back a region the user has, "rerelease"
\* one it gave back before
Calls == {"use", "wait", "queue", "external", "accept", "abort", "close", "release",
          "rerelease"}

\* The calls that do something on a session of each kind.  (On another kind they
\* fail with InvalidOperation, like a "use".)  A connected session has its own buffers
\* or, if it is "external", the user's.
CallsOn == [connected |-> Calls \ {"accept"},
            external  |-> {"use", "wait", "external", "abort", "close"},
            listener  |-> {"use", "accept", "abort", "close"}]

ASSUME SessionAssumption ==
    /\ NoThread \notin Threads
    /\ MaxNest \in Nat \ {0}
    /\ Ops \subseteq Calls
    /\ Callbacks \in BOOLEAN
    /\ MaxCalls \in Nat
    /\ MaxUserBuffers \in Nat

VARIABLES
    \* the access manager of the session
    active, pending, suspended, nesting, signal, refcount, allRefsReleased, pc,
    want, closing, zeroSeen,
    kind,           \* the kind of session: "connected", "external" or "listener"
    mapLock,        \* the thread that has mapLock, or NoThread
    place,          \* where the handle is: "open" (sessionMap), "deferred", "closed"
    userBuffers,    \* size of the queue's userBuffers list
    regions,        \* number of regions that the user has, outside calls
    got,            \* threads whose call has a region that it leaves to the user, or a
                    \* buffer that it queues for the user
    cancelled,      \* Cancel has aborted the session's waits
    inProgress,     \* bufferWaitInProgress or acceptInProgress
    calls,          \* calls[t]: the calls t is in, the innermost last
    step,           \* step[t]: where t is in its innermost call
    destructionPending,  \* threads whose reference came from the deferred table
    deferFlag,      \* history: it was closed with DeferWhileUserBuffersOutstanding while no
                    \* thread was waiting for a buffer
    forgotten,      \* history: a test of a deferred close found only buffers that
                    \* QueueExternalBufferRegion had taken
    made            \* made[t]: number of calls t has made

AM == INSTANCE AccessManager

access == <<active, pending, suspended, nesting, signal, refcount,
            allRefsReleased, pc, want, closing, zeroSeen>>
table  == <<kind, mapLock, place, destructionPending, deferFlag, forgotten>>
body   == <<userBuffers, got, cancelled, inProgress>>
vars   == <<access, table, body, regions, calls, step, made>>

\* The call t is in
Current(t) == calls[t][Len(calls[t])]

GoTo(t, s) == step' = [step EXCEPT ![t] = s]

-----------------------------------------------------------------------------
Init ==
    /\ AM!Init
    /\ kind \in DOMAIN CallsOn
    /\ mapLock = NoThread
    /\ place = "open"
    /\ userBuffers = 0 /\ regions = 0 /\ got = {}
    /\ cancelled = FALSE
    /\ inProgress = FALSE
    /\ calls = [t \in Threads |-> <<>>]
    /\ step = [t \in Threads |-> "idle"]
    /\ destructionPending = {}
    /\ deferFlag = FALSE
    /\ forgotten = FALSE
    /\ made = [t \in Threads |-> 0]

\* A thread makes a call
Begin(t, op) ==
    /\ step[t] = "idle"
    /\ op \in CallsOn[kind]
    /\ \/ /\ op \in {"queue", "release"}
          /\ regions > 0
          /\ regions' = regions - 1
          /\ got' = got \cup {t}
       \/ op \notin {"queue", "release"} /\ UNCHANGED <<regions, got>>
    /\ made[t] < MaxCalls
    /\ made' = [made EXCEPT ![t] = @ + 1]
    /\ calls' = [calls EXCEPT ![t] = <<op>>]
    /\ GoTo(t, "lookup")
    /\ UNCHANGED <<access, table, userBuffers, cancelled, inProgress>>

\* A call returns, to the user or to the Cancel whose callback made it.  A region
\* that it has received, or could not queue, is the user's.
Return(t) ==
    /\ regions' = IF t \in got THEN regions + 1 ELSE regions
    /\ got' = got \ {t}
    /\ calls' = [calls EXCEPT ![t] = SubSeq(@, 1, Len(@) - 1)]
    /\ GoTo(t, IF Len(calls[t]) = 1 THEN "idle" ELSE "cancel")
    /\ destructionPending' = destructionPending \ {t}

-----------------------------------------------------------------------------
(* GetSession and DestroySession, under mapLock                            *)

\* Mutant: the handle of a closed session is still known
FoundAlways(op) == TRUE

\* Only ReleaseUserBufferRegionToIdle looks in the deferred table
Found(op) ==
    place = "open" \/ (place = "deferred" /\ op \in {"release", "rerelease"})

\* mapLock is taken and the handle looked up; InvalidSession if it is not known
Lookup(t) ==
    /\ step[t] = "lookup"
    /\ mapLock = NoThread
    /\ \/ /\ Found(Current(t))
          /\ mapLock' = t
          /\ GoTo(t, "found")
          /\ UNCHANGED <<destructionPending, got, regions, calls>>
       \/ /\ ~Found(Current(t))
          /\ Return(t)
          /\ UNCHANGED mapLock
    /\ UNCHANGED <<access, kind, place, deferFlag, forgotten, userBuffers, cancelled,
                   inProgress, made>>

\* The reference to the session found is made and its Acquire begins, with mapLock held.
\* (If CheckDeferredSessionDestructionReady has erased the entry in the meantime, the
\* code reads a node of the table that is gone; here it still names the session.)
MakeReference(t) ==
    /\ step[t] = "found"
    /\ AM!IncRef(t, "exclusive")
    /\ GoTo(t, "acquire")
    /\ UNCHANGED <<table, body, regions, calls, made>>

\* Mutant: the buffers that the user has are not looked at
ConditionsAlwaysMet == TRUE

\* CheckDeferredDestructionConditionsMet
CheckDeferredDestructionConditionsMet == userBuffers = 0

\* The user has a region, or will have the one that a call has
UserHasBuffers == regions > 0 \/ \E u \in got : Current(u) # "external"

\* GetSession has its access: it leaves mapLock and returns the reference
GetSession(t) ==
    /\ step[t] = "acquire" /\ pc[t] = "out"
    /\ Current(t) # "close"
    /\ mapLock' = NoThread
    /\ destructionPending' = IF place = "open" THEN destructionPending
                                               ELSE destructionPending \cup {t}
    /\ GoTo(t, "body")
    /\ UNCHANGED <<access, kind, place, deferFlag, forgotten, body, regions, calls, made>>

\* DestroySession has its access: it moves the handle and leaves mapLock.  (The
\* second access that the assignment to erasedSession takes, and the one that its
\* temporary gives back, cancel out.)
EraseSession(t, defer) ==
    /\ step[t] = "acquire" /\ pc[t] = "out"
    /\ Current(t) = "close"
    /\ place' = IF defer /\ ~CheckDeferredDestructionConditionsMet
                THEN "deferred" ELSE "closed"
    /\ deferFlag' = (defer /\ \A u \in Threads : step[u] # "blocked")
    /\ forgotten' = (place' = "deferred" /\ ~UserHasBuffers)
    /\ mapLock' = NoThread
    /\ GoTo(t, "body")
    /\ UNCHANGED <<access, kind, destructionPending, body, regions, calls, made>>

-----------------------------------------------------------------------------
(* Inside the access                                                       *)

\* The reference is destroyed and gives the access back
ReleaseAndExit(t) == AM!Release(t) /\ GoTo(t, "exit")

\* Properties, configuration: nothing that matters here
Use(t) ==
    /\ step[t] = "body" /\ Current(t) = "use"
    /\ ReleaseAndExit(t)
    /\ UNCHANGED <<table, body, regions, calls, made>>

\* AcquireSendRegion, AcquireReceivedRegion, QueueExternalBufferRegion and Accept suspend
\* their access, one thread at a time, and block.
Wait(t) ==
    /\ step[t] = "body" /\ Current(t) \in {"wait", "external", "accept"}
    /\ \/ inProgress /\ ReleaseAndExit(t) /\ UNCHANGED inProgress
       \/ /\ ~inProgress
          /\ inProgress' = TRUE
          /\ AM!SuspendAccess(t)
          /\ GoTo(t, "blocked")
    /\ UNCHANGED <<table, userBuffers, got, cancelled, regions, calls, made>>

\* A buffer goes to userBuffers, for the call of t
TakeBuffer(t) ==
    /\ userBuffers < MaxUserBuffers
    /\ userBuffers' = userBuffers + 1
    /\ got' = got \cup {t}

\* The wait ends, with a buffer for the user (a completed one is handed out even
\* after an abort), with an idle one to queue, or with an error or nothing; the flag is
\* cleared at the end of the suspension.
WaitEnds(t) ==
    /\ step[t] = "blocked"
    /\ \/ /\ Current(t) = "wait" /\ kind = "connected"
          /\ TakeBuffer(t)
          /\ inProgress' = FALSE
          /\ GoTo(t, "resume")
       \/ /\ Current(t) = "external" /\ ~cancelled
          /\ TakeBuffer(t)
          /\ GoTo(t, "have")
          /\ UNCHANGED inProgress
       \/ /\ inProgress' = FALSE
          /\ GoTo(t, "resume")
          /\ UNCHANGED <<userBuffers, got>>
    /\ UNCHANGED <<access, table, cancelled, regions, calls, made>>

\* QueueExternalBufferRegion, still suspended, queues the buffer.  On an error (a session
\* with its own buffers, a lost connection, an aborted queue) it stays in userBuffers and
\* nobody has it.
QueueExternal(t) ==
    /\ step[t] = "have"
    /\ got' = got \ {t}
    /\ \/ kind = "external" /\ ~cancelled /\ userBuffers' = userBuffers - 1
       \/ UNCHANGED userBuffers
    /\ inProgress' = FALSE
    /\ GoTo(t, "resume")
    /\ UNCHANGED <<access, table, cancelled, regions, calls, made>>

\* ~tAccessSuspender
Resume(t) ==
    /\ step[t] = "resume"
    /\ AM!ResumeAccess(t)
    /\ GoTo(t, "resumed")
    /\ UNCHANGED <<table, body, regions, calls, made>>

\* The access is back: the call ends, or Accept registers the new session
Resumed(t) ==
    /\ step[t] = "resumed" /\ pc[t] = "out"
    /\ \/ ReleaseAndExit(t)
       \/ Current(t) = "accept" /\ GoTo(t, "register") /\ UNCHANGED access
    /\ UNCHANGED <<table, body, regions, calls, made>>

\* RegisterSession, which takes mapLock while the listener's access is held
RegisterSession(t) ==
    /\ step[t] = "register"
    /\ mapLock = NoThread
    /\ ReleaseAndExit(t)
    /\ UNCHANGED <<table, body, regions, calls, made>>

\* Mutant: the waits are not aborted
CancelNothing(t) ==
    /\ step[t] = "body" /\ Current(t) \in {"abort", "close"}
    /\ GoTo(t, "cancel")
    /\ UNCHANGED <<access, table, body, regions, calls, made>>

\* Cancel, from AbortSession and from DestroySession
Cancel(t) ==
    /\ step[t] = "body" /\ Current(t) \in {"abort", "close"}
    /\ cancelled' = TRUE
    /\ GoTo(t, "cancel")
    /\ UNCHANGED <<access, table, userBuffers, got, inProgress, regions, calls, made>>

\* A callback that Cancel calls makes a call of its own
CallBack(t) ==
    /\ Callbacks /\ kind # "listener"
    /\ step[t] = "cancel" /\ Len(calls[t]) = 1
    /\ made[t] <= MaxCalls
    /\ made' = [made EXCEPT ![t] = @ + 1]
    /\ calls' = [calls EXCEPT ![t] = Append(@, "use")]
    /\ GoTo(t, "lookup")
    /\ UNCHANGED <<access, table, body, regions>>

\* After Cancel: AbortSession and a deferred close return, a close that is not
\* deferred waits for all references.
Cancelled(t) ==
    /\ step[t] = "cancel"
    /\ \/ /\ Current(t) = "abort" \/ place = "deferred"
          /\ ReleaseAndExit(t)
       \/ /\ Current(t) = "close" /\ place # "deferred"
          /\ AM!ReleaseAndWait(t)
          /\ GoTo(t, "exit")
    /\ UNCHANGED <<table, body, regions, calls, made>>

\* The buffer is queued (or, when the connection is gone, released to idle by
\* ReleaseReceivedBufferRegion), or an error leaves it with the user.
Queue(t) ==
    /\ step[t] = "body" /\ Current(t) = "queue"
    /\ \/ userBuffers' = userBuffers - 1 /\ got' = got \ {t}
       \/ UNCHANGED <<userBuffers, got>>
    /\ ReleaseAndExit(t)
    /\ UNCHANGED <<table, cancelled, inProgress, regions, calls, made>>

\* ReleaseUserBufferRegionToIdle: InvalidOperation if the buffer is not the user's
ReleaseRegion(t) ==
    /\ step[t] = "body"
    /\ \/ /\ Current(t) = "release"
          /\ userBuffers' = userBuffers - 1
          /\ got' = got \ {t}
          /\ GoTo(t, "check")
          /\ UNCHANGED access
       \/ Current(t) = "rerelease" /\ ReleaseAndExit(t) /\ UNCHANGED <<userBuffers, got>>
    /\ UNCHANGED <<table, cancelled, inProgress, regions, calls, made>>

\* Mutant: nobody looks whether the last buffer came back
CheckNothing(t) ==
    /\ step[t] = "check"
    /\ ReleaseAndExit(t)
    /\ UNCHANGED <<table, body, regions, calls, made>>

\* CheckDeferredSessionDestructionReady, without mapLock
CheckDeferredSessionDestructionReady(t) ==
    /\ step[t] = "check"
    /\ \/ /\ t \in destructionPending /\ CheckDeferredDestructionConditionsMet
          /\ place' = "closed"
          /\ AM!ReleaseAndWait(t)
          /\ GoTo(t, "exit")
          /\ UNCHANGED forgotten
       \/ /\ ~(t \in destructionPending /\ CheckDeferredDestructionConditionsMet)
          /\ forgotten' = (forgotten \/ (t \in destructionPending /\ ~UserHasBuffers))
          /\ ReleaseAndExit(t)
          /\ UNCHANGED place
    /\ UNCHANGED <<kind, mapLock, destructionPending, deferFlag, body, regions, calls, made>>

\* The end of the call, after the release and the wait for all references
Exit(t) ==
    /\ step[t] = "exit" /\ pc[t] = "out"
    /\ Return(t)
    /\ UNCHANGED <<access, kind, mapLock, place, deferFlag, forgotten, userBuffers,
                   cancelled, inProgress, made>>

\* The access manager at work for a call of t
Access(t) ==
    /\ AM!Proceed(t)
    /\ UNCHANGED <<table, body, regions, calls, step, made>>

-----------------------------------------------------------------------------
\* What t does inside its call
Proceed(t) ==
    \/ Lookup(t) \/ MakeReference(t) \/ GetSession(t)
    \/ \E defer \in BOOLEAN : EraseSession(t, defer)
    \/ Use(t) \/ Wait(t) \/ QueueExternal(t) \/ Resume(t) \/ Resumed(t) \/ RegisterSession(t)
    \/ Cancel(t) \/ Cancelled(t)
    \/ Queue(t) \/ ReleaseRegion(t) \/ CheckDeferredSessionDestructionReady(t)
    \/ Exit(t)
    \/ Access(t)

Next ==
    \E t \in Threads :
        \/ \E op \in Ops : Begin(t, op)
        \/ CallBack(t)
        \/ WaitEnds(t)
        \/ Proceed(t)

Spec == Init /\ [][Next]_vars

\* The operating system schedules every thread, and a wait that was cancelled
\* ends.  A wait that was not may last for ever.
Fairness ==
    \A t \in Threads : WF_vars(Proceed(t)) /\ WF_vars(cancelled /\ WaitEnds(t))

FairSpec == Spec /\ Fairness

-----------------------------------------------------------------------------
(* Properties                                                              *)

\* A deferred session is not forgotten: while its handle is in the deferred table the
\* user has a region to give back, or a call that it will have one from, or a thread that
\* gave one back is about to look.  The two tests of the number of buffers, at close and
\* at release, cannot both miss the last one.  The exception is a test that found only
\* buffers that QueueExternalBufferRegion had in userBuffers (rdma_api_common.h:60, :81;
\* RdmaConnectedSessionBase.cpp:283-294): it queues them, or leaves them there for ever,
\* and nobody looks again.
DeferredIsOwed ==
    place = "deferred" =>
        UserHasBuffers \/ (\E t \in Threads : step[t] = "check") \/ forgotten

\* No new references after the close ("the caller must manage that",
\* tAccessManager.h:411-412): once the handle is in neither table their number only falls.
\* The exception is a region given back a second time, whose call found the handle in the
\* deferred table just before CheckDeferredSessionDestructionReady erased it without
\* mapLock (rdma_api_common.h:78-85).  The region of any other release keeps the handle
\* there.
NoNewReferences ==
    [][place = "closed" =>
        \/ refcount' <= refcount
        \/ \E t \in Threads : /\ step[t] = "found" /\ Current(t) = "rerelease"
                              /\ MakeReference(t)]_vars

\* No thread holds mapLock and waits for an access whose owner waits for mapLock
\* ("we generally don't want to hold the table lock while waiting to acquire
\* access to our object (which could cause deadlock)", tAccessManager.h; "so that
\* the caller can potentially call back into our API from within the callback
\* without deadlocking", RdmaBufferQueue.cpp).
NoCircularWait ==
    ~ \E t, u \in Threads :
         /\ mapLock = t /\ pc[t] = "waiting" /\ ~signal[t]
         /\ u \in active /\ step[u] \in {"lookup", "register"}

\* A close or a last release returns only if the number of references has been 0
\* since it gave up its own ("Waits until all references have been released",
\* tAccessManager.h).
WaitsForAllReferences == AM!WaitsForAllReferences

\* Closing gets everybody out: once a session has been closed, deferred or not, every
\* call on it returns, the close included, unless threads are in the circular wait of
\* NoCircularWait.  SessionManager::DestroySession, rdma_api_common.h:48-76.
CloseReturns ==
    (place # "open") ~> ((\A t \in Threads : step[t] = "idle") \/ ~NoCircularWait)

\* A session closed with easyrdma_CloseFlags_DeferWhileUserBuffersOutstanding is not
\* destroyed (all its references are gone and it is in no table) while the user has a
\* buffer.  The exception is a close during a wait for a buffer: DestroySession tests
\* for user buffers before it cancels the wait, which may still end with one
\* (rdma_api_common.h:60).
DeferWhileUserBuffersOutstanding ==
    deferFlag /\ place = "closed" /\ refcount = 0 => userBuffers = 0

=============================================================================
