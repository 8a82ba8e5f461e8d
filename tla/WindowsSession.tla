--------------------------- MODULE WindowsSession ---------------------------
(***************************************************************************)
(* The Windows backend (core/windows): a session over the NetworkDirect    *)
(* objects connector, queue pair and completion queue, from its Connect or *)
(* the listener's Accept to its destruction, with its two threads.         *)
(*                                                                         *)
(* A NetworkDirect request is overlapped: the call returns, the request    *)
(* stays pending with a pointer to the caller's OVERLAPPED, and completes  *)
(* later.  Calls of the client hold exclusive access to their session, and *)
(* give it up while they wait (tAccessSuspender): what a thread does with  *)
(* access is one step, unless one of the session's own threads, which need *)
(* no access, can come between.  Credits and buffers are in FlowControl    *)
(* and BufferQueue, which both backends share.                             *)
(***************************************************************************)
EXTENDS Integers, FiniteSets

CONSTANTS
    Threads,    \* threads of the client
    MaxCalls    \* bound: calls of the client in a behaviour

\* Requests that somebody waits for.  Disconnect completes at once here.
Requests == {"GetConnectionRequest", "Connect", "CompleteConnect", "Accept",
             "NotifyDisconnect", "Notify"}

OfConnector == {"Connect", "CompleteConnect", "Accept", "NotifyDisconnect"}

NoOne == "nobody"

ASSUME WindowsSessionAssumption == MaxCalls \in Nat /\ NoOne \notin Threads

VARIABLES
    role,               \* "connector": RdmaConnector; "accepted": made by RdmaListener
    access,             \* who has exclusive access: to the session, or to the listener
    pc,                 \* pc[t]: where thread t is in its call
    connectInProgress, everConnected,
    acceptInProgress,
    alive,              \* the session object exists
    connected, closing, \* members connected and _closing
    connector, qp, cq,  \* the AutoRefs: TRUE when they refer to an object
    connectionHandler, eventHandler,    \* where the session's threads are
    request,            \* external: request[r] is none, pending, ok or failed
    overlapped,         \* overlapped[r]: whose OVERLAPPED, which exists, was passed for r
    link,               \* external: none, up or down
    crashed,            \* a thread used a null completion queue
    \* history
    calls,
    timedOut,           \* requests whose wait ended by the client's timeout
    createFailed,       \* CreateConnector failed in an Accept
    startFailed,        \* PostConnect failed after it had started a thread
    setupTwice,         \* SetupQueuePair found a queue (its assertion failed)
    notifiedLate        \* Notify was issued between Destroy's cancel and its cq.reset

flags   == <<connectInProgress, everConnected, acceptInProgress>>
objects == <<connector, qp, cq>>
threads == <<connectionHandler, eventHandler>>
nd      == <<request, overlapped, link>>
history == <<timedOut, createFailed, startFailed, setupTwice, notifiedLate>>
vars    == <<role, access, pc, flags, alive, connected, closing, objects, threads, nd,
             crashed, calls, history>>

\* RdmaConnector::RdmaConnector has opened the adapter and bound its connector.
Init ==
    /\ role \in {"connector", "accepted"}
    /\ access = NoOne
    /\ pc = [t \in Threads |-> "idle"]
    /\ connectInProgress = FALSE /\ everConnected = FALSE /\ acceptInProgress = FALSE
    /\ alive = (role = "connector")
    /\ connected = FALSE /\ closing = FALSE
    /\ connector = (role = "connector") /\ qp = FALSE /\ cq = FALSE
    /\ connectionHandler = "none" /\ eventHandler = "none"
    /\ request = [r \in Requests |-> "none"]
    /\ overlapped = [r \in Requests |-> NoOne]
    /\ link = "none" /\ crashed = FALSE
    /\ calls = 0 /\ timedOut = {} /\ createFailed = FALSE /\ startFailed = FALSE
    /\ setupTwice = FALSE /\ notifiedLate = FALSE

GoTo(t, place) == pc' = [pc EXCEPT ![t] = place]

Return(t) == GoTo(t, "idle") /\ access' = NoOne

-----------------------------------------------------------------------------
(* Overlapped requests                                                     *)

\* Only the last request of a kind is followed: an earlier one had timed out.
Issue(r, who) ==
    /\ request' = [request EXCEPT ![r] = "pending"]
    /\ overlapped' = [overlapped EXCEPT ![r] = who]

\* The OverlappedWrapper that who passed for r goes out of scope.
OutOfScope(r, who) == overlapped' = [overlapped EXCEPT ![r] = IF @ = who THEN NoOne ELSE @]

\* external: requests of an object that are pending complete with ND_CANCELED, now or later.
CancelOverlappedRequests(S, req) ==
    {[r \in Requests |-> IF r \in C THEN "failed" ELSE req[r]] :
        C \in SUBSET {r \in S : req[r] = "pending"}}

\* external: a pending request completes.  NotifyDisconnect completes when the connection
\* ends, CompleteConnect and Accept bring it up, Connect waits for the peer.
Complete(r) ==
    /\ request[r] = "pending"
    /\ \/ /\ r = "NotifyDisconnect" /\ link = "down"
          /\ request' = [request EXCEPT ![r] = "ok"] /\ UNCHANGED link
       \/ /\ r # "NotifyDisconnect"
          /\ request' = [request EXCEPT ![r] = "ok"]
          /\ link' = IF r \in {"CompleteConnect", "Accept"} THEN "up" ELSE link
       \/ /\ r \notin {"NotifyDisconnect", "Notify"}
          /\ request' = [request EXCEPT ![r] = "failed"] /\ UNCHANGED link
    /\ UNCHANGED <<role, access, pc, flags, alive, connected, closing, objects, threads,
                   overlapped, crashed, calls, history>>

\* external: the peer disconnects.
LinkBreaks ==
    /\ link = "up" /\ link' = "down"
    /\ UNCHANGED <<role, access, pc, flags, alive, connected, closing, objects, threads,
                   request, overlapped, crashed, calls, history>>

\* HandleHROverlappedWithTimeout: t waits for r, then its OverlappedWrapper is destroyed
\* on the way out, also when the wait timed out and the request is still pending.
WaitSucceeds(r) == request[r] = "ok"
WaitFails(r)    == request[r] = "failed"
WaitTimesOut(r) == request[r] = "pending"

Waited(r, timeout) ==
    /\ request' = [request EXCEPT ![r] = IF @ = "pending" THEN @ ELSE "none"]
    /\ timedOut' = IF timeout THEN timedOut \cup {r} ELSE timedOut

-----------------------------------------------------------------------------
(* RdmaConnector::Connect                                                  *)

\* Mutant: the two tests of Connect are inside its try block
ConnectTestsInTry(t) ==
    /\ role = "connector" /\ alive /\ pc[t] = "idle" /\ access = NoOne /\ calls < MaxCalls
    /\ calls' = calls + 1
    /\ access' = t
    /\ GoTo(t, IF everConnected \/ connectInProgress THEN "catch" ELSE "preconnect")
    /\ connectInProgress' = TRUE
    /\ UNCHANGED <<role, everConnected, acceptInProgress, alive, connected, closing, objects,
                   threads, nd, crashed, history>>

\* AlreadyConnected, InvalidOperation, or the connection begins.
Connect(t) ==
    /\ role = "connector" /\ alive /\ pc[t] = "idle" /\ access = NoOne /\ calls < MaxCalls
    /\ calls' = calls + 1
    /\ IF everConnected \/ connectInProgress
       THEN UNCHANGED <<pc, access, connectInProgress>>
       ELSE GoTo(t, "preconnect") /\ access' = t /\ connectInProgress' = TRUE
    /\ UNCHANGED <<role, everConnected, acceptInProgress, alive, connected, closing, objects,
                   threads, nd, crashed, history>>

\* PreConnect: the completion queue, then the queue pair are made; any part may fail.
SetupQueuePair(t, then) ==
    /\ setupTwice' = (setupTwice \/ qp \/ cq)
    /\ \/ cq' = TRUE /\ qp' = TRUE /\ GoTo(t, then)
       \/ cq' \in BOOLEAN /\ qp' \in {FALSE, cq'} /\ GoTo(t, "catch")

PreConnect(t) ==
    /\ pc[t] = "preconnect"
    /\ SetupQueuePair(t, IF role = "connector" THEN "suspended" ELSE "accepting")
    /\ access' = IF role = "connector" /\ pc'[t] = "suspended" THEN NoOne ELSE access
    /\ UNCHANGED <<role, flags, alive, connected, closing, connector, threads, nd, crashed,
                   calls, timedOut, createFailed, startFailed, notifiedLate>>

\* Access is suspended: a call of AbortSession may come before the request does.
IssueConnect(t) ==
    /\ pc[t] = "suspended" /\ role = "connector"
    /\ Issue("Connect", t) /\ GoTo(t, "connecting")
    /\ UNCHANGED <<role, access, flags, alive, connected, closing, objects, threads, link,
                   crashed, calls, history>>

\* The connection data of the peer is fetched and validated before CompleteConnect.
ConnectWaited(t) ==
    /\ pc[t] = "connecting"
    /\ \/ WaitSucceeds("Connect") /\ Waited("Connect", FALSE) /\ GoTo(t, "validate")
          /\ UNCHANGED overlapped
       \/ WaitFails("Connect") /\ Waited("Connect", FALSE) /\ GoTo(t, "resumeFailed")
          /\ OutOfScope("Connect", t)
       \/ WaitTimesOut("Connect") /\ Waited("Connect", TRUE) /\ GoTo(t, "resumeFailed")
          /\ OutOfScope("Connect", t)
    /\ UNCHANGED <<role, access, flags, alive, connected, closing, objects, threads, link,
                   crashed, calls, createFailed, startFailed, setupTwice, notifiedLate>>

Validate(t) ==
    /\ pc[t] = "validate"
    /\ \/ /\ request' = [request EXCEPT !["CompleteConnect"] = "pending"]
          /\ overlapped' = [overlapped EXCEPT !["Connect"] = NoOne,
                                              !["CompleteConnect"] = t]
          /\ GoTo(t, "completing")
       \/ GoTo(t, "resumeFailed") /\ OutOfScope("Connect", t) /\ UNCHANGED request
    /\ UNCHANGED <<role, access, flags, alive, connected, closing, objects, threads, link,
                   crashed, calls, history>>

\* Mutant: the wait for CompleteConnect does not wait
CompleteNotWaited(t) ==
    /\ pc[t] = "completing"
    /\ \/ ~WaitFails("CompleteConnect") /\ GoTo(t, "resume")
       \/ WaitFails("CompleteConnect") /\ GoTo(t, "resumeFailed")
    /\ Waited("CompleteConnect", FALSE) /\ OutOfScope("CompleteConnect", t)
    /\ UNCHANGED <<role, access, flags, alive, connected, closing, objects, threads, link,
                   crashed, calls, createFailed, startFailed, setupTwice, notifiedLate>>

\* HandleHROverlapped waits without a timeout.
CompleteWaited(t) ==
    /\ pc[t] = "completing"
    /\ \/ WaitSucceeds("CompleteConnect") /\ GoTo(t, "resume")
       \/ WaitFails("CompleteConnect") /\ GoTo(t, "resumeFailed")
    /\ Waited("CompleteConnect", FALSE) /\ OutOfScope("CompleteConnect", t)
    /\ UNCHANGED <<role, access, flags, alive, connected, closing, objects, threads, link,
                   crashed, calls, createFailed, startFailed, setupTwice, notifiedLate>>

\* ~tAccessSuspender
Resume(t) ==
    /\ pc[t] \in {"resume", "resumeFailed"} /\ access = NoOne
    /\ access' = t
    /\ GoTo(t, IF pc[t] = "resume" THEN "postconnect" ELSE "catch")
    /\ UNCHANGED <<role, flags, alive, connected, closing, objects, threads, nd, crashed,
                   calls, history>>

\* PostConnect asks for the peer's address, starts EventHandlerThread, sets connected and
\* starts ConnectionHandlerThread; then Connect sets its flags.
PostConnect(t) ==
    /\ pc[t] = "postconnect"
    /\ \/ /\ eventHandler' = "top" /\ connected' = TRUE /\ connectionHandler' = "start"
          /\ IF role = "connector"
             THEN /\ everConnected' = TRUE /\ connectInProgress' = FALSE
                  /\ Return(t) /\ UNCHANGED acceptInProgress
             ELSE /\ GoTo(t, "resumeListener") /\ acceptInProgress' = FALSE
                  /\ UNCHANGED <<access, everConnected, connectInProgress>>
          /\ UNCHANGED startFailed
       \/ /\ GoTo(t, "catch")                              \* GetPeerAddress fails
          /\ UNCHANGED <<access, flags, threads, connected, startFailed>>
       \/ /\ eventHandler' = "top" /\ connected' = TRUE    \* the second thread fails
          /\ GoTo(t, "catch") /\ startFailed' = TRUE
          /\ UNCHANGED <<access, flags, connectionHandler>>
    /\ UNCHANGED <<role, alive, closing, objects, nd, crashed, calls, timedOut,
                   createFailed, setupTwice, notifiedLate>>

-----------------------------------------------------------------------------
(* Cancel                                                                  *)

\* external: Disconnect of the connector, which ends the connection.
Disconnected == IF link = "up" THEN "down" ELSE link

\* RdmaConnector::Cancel does nothing to the connector of a session that was connected;
\* the cancelled queues of the base class are in Connection.
CancelConnector ==
    IF everConnected \/ ~connector THEN UNCHANGED <<request, link>>
    ELSE request' \in CancelOverlappedRequests(OfConnector, request) /\ link' = Disconnected

\* Mutant: the handler leaves connectInProgress set
CatchKeepsFlag(t) ==
    /\ pc[t] = "catch" /\ role = "connector"
    /\ UNCHANGED connectInProgress
    /\ CancelConnector
    /\ GoTo(t, "destroyQp")
    /\ UNCHANGED <<role, access, everConnected, acceptInProgress, alive, connected, closing,
                   objects, threads, overlapped, crashed, calls, history>>

\* The catch block of Connect.
CatchConnect(t) ==
    /\ pc[t] = "catch" /\ role = "connector"
    /\ connectInProgress' = FALSE
    /\ CancelConnector
    /\ GoTo(t, "destroyQp")
    /\ UNCHANGED <<role, access, everConnected, acceptInProgress, alive, connected, closing,
                   objects, threads, overlapped, crashed, calls, history>>

\* Mutant: the failed Connect keeps its queue pair
DestroyNothing(t) ==
    /\ pc[t] = "destroyQp"
    /\ Return(t)
    /\ UNCHANGED <<role, flags, alive, connected, closing, objects, threads, nd,
                   crashed, calls, history>>

DestroyQP(t) ==
    /\ pc[t] = "destroyQp"
    /\ qp' = FALSE /\ cq' = FALSE
    /\ Return(t)
    /\ UNCHANGED <<role, flags, alive, connected, closing, connector, threads, nd,
                   crashed, calls, history>>

\* AbortSession on the session, or on the listener.
Cancel(t) ==
    /\ pc[t] = "idle" /\ access = NoOne /\ calls < MaxCalls
    /\ calls' = calls + 1
    /\ IF role = "connector" THEN alive /\ CancelConnector
       ELSE /\ request' \in CancelOverlappedRequests({"GetConnectionRequest"}, request)
            /\ UNCHANGED link
    /\ UNCHANGED <<role, access, pc, flags, alive, connected, closing, objects, threads,
                   overlapped, crashed, history>>

-----------------------------------------------------------------------------
(* RdmaListener::Accept                                                    *)

\* CreateConnector is outside the try block: when it throws, acceptInProgress stays set.
Accept(t) ==
    /\ role = "accepted" /\ pc[t] = "idle" /\ access = NoOne /\ ~alive /\ calls < MaxCalls
    /\ calls' = calls + 1
    /\ \/ acceptInProgress
          /\ UNCHANGED <<pc, acceptInProgress, createFailed>>
       \/ ~acceptInProgress /\ acceptInProgress' = TRUE
          /\ GoTo(t, "suspended") /\ UNCHANGED createFailed
       \/ ~acceptInProgress /\ acceptInProgress' = TRUE
          /\ createFailed' = TRUE /\ UNCHANGED pc
    /\ UNCHANGED <<role, access, connectInProgress, everConnected, alive, connected, closing,
                   objects, threads, nd, crashed, timedOut, startFailed, setupTwice,
                   notifiedLate>>

IssueGetConnectionRequest(t) ==
    /\ pc[t] = "suspended" /\ role = "accepted"
    /\ Issue("GetConnectionRequest", t) /\ GoTo(t, "listening")
    /\ UNCHANGED <<role, access, flags, alive, connected, closing, objects, threads, link,
                   crashed, calls, history>>

\* A request was accepted: the constructor of RdmaConnectedSession runs, with the access
\* of the listener still suspended.
GetConnectionRequestWaited(t) ==
    /\ pc[t] = "listening"
    /\ \/ /\ WaitSucceeds("GetConnectionRequest") /\ Waited("GetConnectionRequest", FALSE)
          /\ alive' = TRUE /\ connector' = TRUE /\ GoTo(t, "preconnect")
       \/ /\ WaitFails("GetConnectionRequest") /\ Waited("GetConnectionRequest", FALSE)
          /\ GoTo(t, "catchAccept") /\ UNCHANGED <<alive, connector>>
       \/ /\ WaitTimesOut("GetConnectionRequest") /\ Waited("GetConnectionRequest", TRUE)
          /\ GoTo(t, "catchAccept") /\ UNCHANGED <<alive, connector>>
    /\ UNCHANGED <<role, access, flags, connected, closing, qp, cq, threads, overlapped, link,
                   crashed, calls, createFailed, startFailed, setupTwice, notifiedLate>>

IssueAccept(t) ==
    /\ pc[t] = "accepting"
    /\ \/ Issue("Accept", t) /\ GoTo(t, "answering")
       \/ GoTo(t, "catch") /\ UNCHANGED <<request, overlapped>>  \* connection data
    /\ UNCHANGED <<role, access, flags, alive, connected, closing, objects, threads, link,
                   crashed, calls, history>>

AcceptWaited(t) ==
    /\ pc[t] = "answering"
    /\ OutOfScope("Accept", t)
    /\ \/ WaitSucceeds("Accept") /\ Waited("Accept", FALSE) /\ GoTo(t, "postconnect")
       \/ WaitFails("Accept") /\ Waited("Accept", FALSE) /\ GoTo(t, "catch")
       \/ WaitTimesOut("Accept") /\ Waited("Accept", TRUE) /\ GoTo(t, "catch")
    /\ UNCHANGED <<role, access, flags, alive, connected, closing, objects, threads, link,
                   crashed, calls, createFailed, startFailed, setupTwice, notifiedLate>>

\* The constructor failed: Destroy, then the catch block of Accept.
CatchConstructor(t) ==
    /\ pc[t] = "catch" /\ role = "accepted"
    /\ GoTo(t, "destroy")
    /\ UNCHANGED <<role, access, flags, alive, connected, closing, objects, threads, nd,
                   crashed, calls, history>>

CatchAccept(t) ==
    /\ pc[t] = "catchAccept"
    /\ request' \in CancelOverlappedRequests({"GetConnectionRequest"}, request)
    /\ acceptInProgress' = FALSE
    /\ GoTo(t, "resumeListener")
    /\ UNCHANGED <<role, access, connectInProgress, everConnected, alive, connected, closing,
                   objects, threads, overlapped, link, crashed, calls, history>>

\* The access of the listener is resumed, then the OverlappedWrapper destroyed.
ResumeListener(t) ==
    /\ pc[t] = "resumeListener" /\ access = NoOne
    /\ GoTo(t, "idle")
    /\ OutOfScope("GetConnectionRequest", t)
    /\ UNCHANGED <<role, access, flags, alive, connected, closing, objects, threads, request,
                   link, crashed, calls, history>>

-----------------------------------------------------------------------------
(* RdmaConnectedSession::Destroy                                           *)

\* CloseSession: no other thread has a reference to the session, so none is in a call.
Close(t) ==
    /\ alive /\ pc[t] = "idle" /\ access = NoOne /\ calls < MaxCalls
    /\ \A u \in Threads : pc[u] \in {"idle", "resumeListener"}
    /\ calls' = calls + 1
    /\ access' = t /\ GoTo(t, "cancelAndDestroy")
    /\ UNCHANGED <<role, flags, alive, connected, closing, objects, threads, nd, crashed,
                   history>>

\* DestroySession calls Cancel first.
CloseCancels(t) ==
    /\ pc[t] = "cancelAndDestroy"
    /\ IF role = "connector" THEN CancelConnector ELSE UNCHANGED <<request, link>>
    /\ GoTo(t, "destroy")
    /\ UNCHANGED <<role, access, flags, alive, connected, closing, objects, threads,
                   overlapped, crashed, calls, history>>

Destroy(t) ==
    /\ pc[t] = "destroy"
    /\ closing' = TRUE
    /\ link' = IF connector THEN Disconnected ELSE link
    /\ GoTo(t, "joinConnectionHandler")
    /\ UNCHANGED <<role, access, flags, alive, connected, objects, threads, request,
                   overlapped, crashed, calls, history>>

JoinConnectionHandler(t) ==
    /\ pc[t] = "joinConnectionHandler"
    /\ connectionHandler \in {"none", "done"}
    /\ connector' = FALSE /\ qp' = FALSE
    /\ GoTo(t, "cancelCq")
    /\ UNCHANGED <<role, access, flags, alive, connected, closing, cq, threads, nd, crashed,
                   calls, history>>

\* Mutant: the request of the event handler is not cancelled
LeaveNotify(t) ==
    /\ pc[t] = "cancelCq"
    /\ UNCHANGED request
    /\ GoTo(t, "resetCq")
    /\ UNCHANGED <<role, access, flags, alive, connected, closing, objects, threads,
                   overlapped, link, crashed, calls, history>>

CancelCq(t) ==
    /\ pc[t] = "cancelCq"
    /\ request' = IF cq /\ request["Notify"] = "pending"
                  THEN [request EXCEPT !["Notify"] = "failed"] ELSE request
    /\ GoTo(t, "resetCq")
    /\ UNCHANGED <<role, access, flags, alive, connected, closing, objects, threads,
                   overlapped, link, crashed, calls, history>>

\* The handler may be between its test of cq and its use.
ResetCq(t) ==
    /\ pc[t] = "resetCq"
    /\ cq' = FALSE
    /\ GoTo(t, "joinEventHandler")
    /\ UNCHANGED <<role, access, flags, alive, connected, closing, connector, qp, threads, nd,
                   crashed, calls, history>>

\* The object is gone: for a failed Accept, the catch block follows.
JoinEventHandler(t) ==
    /\ pc[t] = "joinEventHandler"
    /\ eventHandler \in {"none", "done"}
    /\ alive' = FALSE /\ connected' = FALSE /\ closing' = FALSE
    /\ connectionHandler' = "none" /\ eventHandler' = "none"
    /\ link' = "none"
    /\ IF access = t THEN Return(t) ELSE GoTo(t, "catchAccept") /\ UNCHANGED access
    /\ UNCHANGED <<role, flags, objects, request, overlapped, crashed, calls, history>>

-----------------------------------------------------------------------------
(* The session's threads                                                   *)

\* ConnectionHandlerThread: NotifyDisconnect, HandleDisconnect, Disconnect.
ConnectionHandlerThread ==
    /\ \/ /\ connectionHandler = "start" /\ Issue("NotifyDisconnect", "handler")
          /\ connectionHandler' = "waiting" /\ UNCHANGED <<connected, link>>
       \/ /\ connectionHandler = "waiting" /\ WaitSucceeds("NotifyDisconnect")
          /\ connectionHandler' = "disconnecting" /\ connected' = FALSE
          /\ request' = [request EXCEPT !["NotifyDisconnect"] = "none"]
          /\ UNCHANGED <<overlapped, link>>
       \/ /\ connectionHandler = "waiting" /\ WaitFails("NotifyDisconnect")
          /\ connectionHandler' = "done"
          /\ request' = [request EXCEPT !["NotifyDisconnect"] = "none"]
          /\ OutOfScope("NotifyDisconnect", "handler") /\ UNCHANGED <<connected, link>>
       \/ /\ connectionHandler = "disconnecting"
          /\ connectionHandler' = "done" /\ link' = Disconnected
          /\ OutOfScope("NotifyDisconnect", "handler") /\ UNCHANGED <<connected, request>>
    /\ UNCHANGED <<role, access, pc, flags, alive, closing, objects, eventHandler, crashed,
                   calls, history>>

\* EventHandlerThread tests _closing and cq before it uses cq, not while it does, and
\* reads cq once more to wait for what it has issued.
MayUse == ~closing /\ cq

EventHandlerThread ==
    /\ ~crashed
    /\ \/ /\ eventHandler = "top"
          /\ eventHandler' = IF MayUse THEN "test" ELSE "done"
          /\ UNCHANGED <<request, overlapped, crashed, notifiedLate>>
       \/ /\ eventHandler = "test"
          /\ eventHandler' = IF MayUse THEN "results" ELSE "notify"
          /\ UNCHANGED <<request, overlapped, crashed, notifiedLate>>
       \/ /\ eventHandler = "results" /\ cq           \* GetResults; HandleCompletion
          /\ eventHandler' \in {"test", "notify", "done"}
          /\ UNCHANGED <<request, overlapped, crashed, notifiedLate>>
       \/ /\ eventHandler = "notify" /\ cq
          /\ Issue("Notify", "handler") /\ eventHandler' = "notified" /\ UNCHANGED crashed
          /\ notifiedLate' = (notifiedLate \/ \E t \in Threads : pc[t] = "resetCq")
       \/ /\ eventHandler = "notified" /\ cq          \* GetOverlappedResult
          /\ eventHandler' = "waiting"
          /\ UNCHANGED <<request, overlapped, crashed, notifiedLate>>
       \/ /\ eventHandler \in {"results", "notify", "notified"} /\ ~cq
          /\ crashed' = TRUE /\ UNCHANGED <<eventHandler, request, overlapped, notifiedLate>>
       \/ /\ eventHandler = "waiting" /\ request["Notify"] \in {"ok", "failed"}
          /\ eventHandler' = IF WaitSucceeds("Notify") THEN "top" ELSE "done"
          /\ request' = [request EXCEPT !["Notify"] = "none"]
          /\ OutOfScope("Notify", "handler") /\ UNCHANGED <<crashed, notifiedLate>>
    /\ UNCHANGED <<role, access, pc, flags, alive, connected, closing, objects,
                   connectionHandler, link, calls, timedOut, createFailed, startFailed,
                   setupTwice>>

-----------------------------------------------------------------------------
Destroying(t) ==
    \/ CloseCancels(t) \/ Destroy(t) \/ JoinConnectionHandler(t) \/ CancelCq(t) \/ ResetCq(t)
    \/ JoinEventHandler(t)

Call(t) ==
    \/ Connect(t) \/ PreConnect(t) \/ IssueConnect(t) \/ ConnectWaited(t) \/ Validate(t)
    \/ CompleteWaited(t) \/ Resume(t) \/ PostConnect(t) \/ CatchConnect(t) \/ DestroyQP(t)
    \/ Accept(t) \/ IssueGetConnectionRequest(t) \/ GetConnectionRequestWaited(t)
    \/ IssueAccept(t) \/ AcceptWaited(t) \/ CatchConstructor(t) \/ CatchAccept(t)
    \/ ResumeListener(t) \/ Cancel(t) \/ Close(t)

Next ==
    /\ ~crashed
    /\ \/ \E t \in Threads : Call(t) \/ Destroying(t)
       \/ ConnectionHandlerThread \/ EventHandlerThread
       \/ (\E r \in Requests : Complete(r)) \/ LinkBreaks

Spec == Init /\ [][Next]_vars

\* Threads run, and NotifyDisconnect completes once the connection has ended; nothing makes
\* the peer answer or a completion arrive.
Fairness ==
    /\ \A t \in Threads : WF_vars(~crashed /\ Destroying(t))
    /\ WF_vars(~crashed /\ ConnectionHandlerThread) /\ WF_vars(~crashed /\ EventHandlerThread)
    /\ WF_vars(~crashed /\ Complete("NotifyDisconnect"))

FairSpec == Spec /\ Fairness

-----------------------------------------------------------------------------
(* Properties                                                              *)

Connecting == {"preconnect", "suspended", "connecting", "validate", "completing", "resume",
               "resumeFailed", "postconnect", "catch"}
Accepting  == {"suspended", "listening", "preconnect", "accepting", "answering",
               "postconnect", "catch", "destroy", "joinConnectionHandler", "cancelCq",
               "resetCq", "joinEventHandler", "catchAccept"}

\* connectInProgress and acceptInProgress are set exactly while a call is in progress, on
\* every way out of it: a flag that stays set would refuse all later calls.  It does once:
\* when CreateConnector fails in Accept, which has no handler for it.
\* windows/RdmaConnector.cpp:47, windows/RdmaListener.cpp:43.
FlagsMatchCalls ==
    IF role = "connector"
    THEN connectInProgress <=> \E t \in Threads : pc[t] \in Connecting
    ELSE \/ acceptInProgress <=> \E t \in Threads : access # t /\ pc[t] \in Accepting
         \/ createFailed

\* The queues of a connection that is being made or used are not released by another call,
\* a new attempt finds none left ("assert(!cq.get() && !qp.get())"), and the event handler
\* meets a null cq only when the session is destroyed, or its start failed half way.
\* windows/RdmaConnectedSession.cpp:87, :122, :158.
QueuesInUse ==
    /\ ~setupTwice
    /\ \A t \in Threads : pc[t] \in {"suspended", "connecting", "validate", "completing",
                                     "resume", "accepting", "answering", "postconnect"}
                          /\ ~(role = "accepted" /\ pc[t] = "suspended") => qp /\ cq
    /\ connected /\ ~closing /\ ~startFailed => qp /\ cq
    /\ crashed => closing \/ startFailed

\* A request never outlives the OVERLAPPED that it writes to, unless the wait for it ended
\* by the client's timeout: then nothing waits for the request that was cancelled.
\* HandleHROverlappedWithTimeoutInternal, windows/RdmaCommon.h:55.
OverlappedOutlivesRequest ==
    \A r \in Requests : request[r] = "pending" => overlapped[r] # NoOne \/ r \in timedOut

\* A session whose destruction has begun is destroyed: Destroy unblocks both threads before
\* it joins them, whatever they are doing, or the event handler fails on the null cq.  Two
\* cases are excepted: a start that failed half way, where DestroyQP has dropped the cq
\* whose Notify the event handler waits for; and a Notify issued after Destroy cancelled
\* the requests of cq and before it drops cq, which nothing cancels any more.
\* RdmaConnectedSession::Destroy, windows/RdmaConnectedSession.cpp:49-72.
DestroyReturns == closing ~> (~closing \/ crashed \/ startFailed \/ notifiedLate)

=============================================================================
