------------------------ MODULE WindowsSessionProofs ------------------------
(***************************************************************************)
(* Proofs about WindowsSession, for every set of threads and every number  *)
(* of calls: the flags of Connect and Accept, the queues that are in use,  *)
(* and the OVERLAPPED of each pending request.                             *)
(***************************************************************************)
EXTENDS WindowsSession, TLAPS

\* Where a thread is that destroys the session, and where it has set _closing
Closing == {"cancelAndDestroy", "destroy", "joinConnectionHandler", "cancelCq",
            "resetCq", "joinEventHandler"}
Joining == {"joinConnectionHandler", "cancelCq", "resetCq", "joinEventHandler"}

\* Where a call of Connect has access to its session
HasAccess == {"preconnect", "postconnect", "catch", "destroyQp"} \cup Closing

TypeInv ==
    /\ role \in {"connector", "accepted"}
    /\ access \in Threads \cup {NoOne}
    /\ pc \in [Threads -> Connecting \cup Accepting \cup Closing
                            \cup {"idle", "destroyQp", "resumeListener"}]
    /\ request \in [Requests -> {"none", "pending", "ok", "failed"}]
    /\ overlapped \in [Requests -> Threads \cup {NoOne, "handler"}]

\* At most one Connect is under way, and it alone has the flag.  It starts without queues:
\* those of an attempt that failed are gone before access is given up.
ConnectorInv ==
    role = "connector" =>
        /\ \A t \in Threads : pc[t] \in {"idle", "destroyQp"} \cup Connecting \cup Closing
        /\ \A t \in Threads : access = t <=> pc[t] \in HasAccess
        /\ \A t, u \in Threads : pc[t] \in Closing /\ t # u => pc[u] = "idle"
        /\ \A t, u \in Threads : pc[t] \in Connecting /\ pc[u] \in Connecting => t = u
        /\ connectInProgress <=> \E t \in Threads : pc[t] \in Connecting
        /\ \A t \in Threads : pc[t] \in Connecting \cup {"destroyQp"} => ~everConnected
        /\ \A t \in Threads : pc[t] = "destroyQp" => ~connectInProgress
        /\ \A t \in Threads : pc[t] = "preconnect" => ~qp /\ ~cq
        /\ alive /\ access = NoOne /\ ~connectInProgress /\ ~everConnected => ~qp /\ ~cq
        /\ (connected \/ eventHandler # "none") /\ ~startFailed => everConnected

\* Thread t is in a call of Accept, not in one that closes the session.
InAccept(t) == access # t /\ pc[t] \in Accepting

\* At most one Accept is under way, and a session is closed only when none is.
AcceptedInv ==
    role = "accepted" =>
        /\ \A t \in Threads : pc[t] \in {"idle", "resumeListener"} \cup Accepting \cup Closing
        /\ \A t, u \in Threads :
              access = t => pc[t] \in Closing /\ (t # u => pc[u] \in {"idle", "resumeListener"})
        /\ \A t \in Threads : pc[t] = "cancelAndDestroy" => access = t
        /\ \A t, u \in Threads : InAccept(t) /\ InAccept(u) => t = u
        /\ \A t \in Threads : InAccept(t) => acceptInProgress
        /\ acceptInProgress /\ ~createFailed => \E t \in Threads : InAccept(t)
        /\ \A t \in Threads : pc[t] \in {"suspended", "listening", "catchAccept"} => ~alive
        /\ ~alive => ~qp /\ ~cq /\ ~connected /\ ~closing /\ eventHandler = "none"
        /\ \A t \in Threads : pc[t] = "preconnect" => ~qp /\ ~cq
        /\ \A t \in Threads : pc[t] \in {"preconnect", "accepting", "answering", "postconnect"}
              => alive /\ ~connected /\ eventHandler = "none"

QueueInv ==
    /\ QueuesInUse
    /\ \A t \in Threads : pc[t] \in Joining => closing
    /\ \A t \in Threads : pc[t] \in {"cancelCq", "resetCq", "joinEventHandler"} => ~qp
    /\ \A t \in Threads : pc[t] = "joinEventHandler" => ~cq
    /\ \A t \in Threads : pc[t] \in Closing => alive
    /\ \A t \in Threads : pc[t] = "catch" /\ role = "accepted" => alive
    /\ eventHandler \notin {"none", "done"} /\ ~closing /\ ~startFailed => cq

\* A request whose OVERLAPPED is about to go out of scope is not pending
OverlappedInv ==
    /\ OverlappedOutlivesRequest
    /\ \A t \in Threads : pc[t] = "validate" =>
          request["Connect"] # "pending" \/ "Connect" \in timedOut
    /\ \A t \in Threads :
          overlapped["GetConnectionRequest"] = t /\ pc[t] # "listening" =>
              \/ request["GetConnectionRequest"] # "pending"
              \/ "GetConnectionRequest" \in timedOut
    /\ connectionHandler = "disconnecting" => request["NotifyDisconnect"] # "pending"

IInv == TypeInv /\ ConnectorInv /\ AcceptedInv /\ QueueInv /\ OverlappedInv

-----------------------------------------------------------------------------
(* Types                                                                   *)

\* Cancelling turns pending requests into failed ones.
LEMMA Cancelled ==
    ASSUME NEW S, TypeInv, NEW req \in CancelOverlappedRequests(S, request)
    PROVE  /\ req \in [Requests -> {"none", "pending", "ok", "failed"}]
           /\ \A r \in Requests : req[r] = "pending" => request[r] = "pending"
  BY DEF CancelOverlappedRequests, TypeInv

LEMMA CancelConnectorRequests ==
    ASSUME TypeInv, CancelConnector
    PROVE  /\ request' \in [Requests -> {"none", "pending", "ok", "failed"}]
           /\ \A r \in Requests : request'[r] = "pending" => request[r] = "pending"
<1>1. CASE UNCHANGED request
  BY <1>1 DEF TypeInv
<1>2. CASE request' \in CancelOverlappedRequests(OfConnector, request)
  BY <1>2, Cancelled
<1> QED
  BY <1>1, <1>2 DEF CancelConnector

Places == Connecting \cup Accepting \cup Closing \cup {"idle", "destroyQp", "resumeListener"}

LEMMA NextTypes ==
    ASSUME TypeInv, Next
    PROVE  TypeInv' /\ role' = role
<1>0. /\ role \in {"connector", "accepted"} /\ access \in Threads \cup {NoOne}
      /\ pc \in [Threads -> Places]
      /\ request \in [Requests -> {"none", "pending", "ok", "failed"}]
      /\ overlapped \in [Requests -> Threads \cup {NoOne, "handler"}]
  BY DEF TypeInv, Places
<1>1. role' = role
  <2>1. ASSUME NEW t \in Threads, Call(t)
        PROVE  role' = role
    BY <2>1 DEF Call, Connect, PreConnect, IssueConnect, ConnectWaited, Validate,
       CompleteWaited, Resume, PostConnect, CatchConnect, DestroyQP, Accept,
       IssueGetConnectionRequest, GetConnectionRequestWaited, IssueAccept, AcceptWaited,
       CatchConstructor, CatchAccept, ResumeListener, Cancel, Close
  <2> QED
    BY <2>1 DEF Next, Destroying, CloseCancels, Destroy, JoinConnectionHandler, CancelCq,
       ResetCq, JoinEventHandler, ConnectionHandlerThread, EventHandlerThread, Complete,
       LinkBreaks
<1>2. access' \in Threads \cup {NoOne}
  <2>1. ASSUME NEW t \in Threads,
               \/ Connect(t) \/ PreConnect(t) \/ IssueConnect(t) \/ ConnectWaited(t)
               \/ Validate(t) \/ CompleteWaited(t) \/ Resume(t) \/ PostConnect(t)
               \/ CatchConnect(t) \/ DestroyQP(t)
        PROVE  access' \in Threads \cup {NoOne}
    BY <1>0, <2>1 DEF Connect, PreConnect, IssueConnect, ConnectWaited, Validate, CompleteWaited,
       Resume, PostConnect, CatchConnect, DestroyQP, Return
  <2>2. ASSUME NEW t \in Threads,
               \/ Accept(t) \/ IssueGetConnectionRequest(t) \/ GetConnectionRequestWaited(t)
               \/ IssueAccept(t) \/ AcceptWaited(t) \/ CatchConstructor(t) \/ CatchAccept(t)
               \/ ResumeListener(t) \/ Cancel(t) \/ Close(t)
        PROVE  access' \in Threads \cup {NoOne}
    BY <1>0, <2>2 DEF Accept, IssueGetConnectionRequest, GetConnectionRequestWaited, IssueAccept,
       AcceptWaited, CatchConstructor, CatchAccept, ResumeListener, Cancel, Close, Return
  <2>3. ASSUME NEW t \in Threads, Destroying(t)
        PROVE  access' \in Threads \cup {NoOne}
    BY <1>0, <2>3 DEF Destroying, CloseCancels, Destroy, JoinConnectionHandler, CancelCq, ResetCq,
       JoinEventHandler, Return
  <2> QED
    BY <1>0, <2>1, <2>2, <2>3 DEF Next, Call, ConnectionHandlerThread, EventHandlerThread, Complete,
       LinkBreaks
<1>3. pc' = pc \/ \E u \in Threads, p \in Places : pc' = [pc EXCEPT ![u] = p]
  <2>1. ASSUME NEW t \in Threads,
               \/ Connect(t) \/ PreConnect(t) \/ IssueConnect(t) \/ ConnectWaited(t)
               \/ Validate(t) \/ CompleteWaited(t) \/ Resume(t) \/ PostConnect(t)
               \/ CatchConnect(t) \/ DestroyQP(t)
        PROVE  pc' = pc \/ \E u \in Threads, p \in Places : pc' = [pc EXCEPT ![u] = p]
    BY <2>1 DEF Connect, PreConnect, IssueConnect, ConnectWaited, Validate, CompleteWaited,
       Resume, PostConnect, CatchConnect, DestroyQP,
       Return, GoTo, SetupQueuePair, Places, Connecting, Accepting, Closing
  <2>2. ASSUME NEW t \in Threads,
               \/ Accept(t) \/ IssueGetConnectionRequest(t) \/ GetConnectionRequestWaited(t)
               \/ IssueAccept(t) \/ AcceptWaited(t) \/ CatchConstructor(t) \/ CatchAccept(t)
               \/ ResumeListener(t) \/ Cancel(t) \/ Close(t)
        PROVE  pc' = pc \/ \E u \in Threads, p \in Places : pc' = [pc EXCEPT ![u] = p]
    BY <2>2 DEF Accept, IssueGetConnectionRequest, GetConnectionRequestWaited, IssueAccept,
       AcceptWaited, CatchConstructor, CatchAccept, ResumeListener, Cancel, Close,
       Return, GoTo, SetupQueuePair, Places, Connecting, Accepting, Closing
  <2>3. ASSUME NEW t \in Threads, Destroying(t)
        PROVE  pc' = pc \/ \E u \in Threads, p \in Places : pc' = [pc EXCEPT ![u] = p]
    BY <2>3 DEF Destroying, CloseCancels, Destroy, JoinConnectionHandler, CancelCq, ResetCq,
       JoinEventHandler,
       Return, GoTo, Places, Accepting, Closing
  <2> QED
    BY <2>1, <2>2, <2>3 DEF Next, Call, ConnectionHandlerThread, EventHandlerThread, Complete,
       LinkBreaks
<1>4. request' \in [Requests -> {"none", "pending", "ok", "failed"}]
  <2>1. ASSUME NEW t \in Threads, CatchAccept(t) \/ Cancel(t) \/ CatchConnect(t) \/ CloseCancels(t)
        PROVE  request' \in [Requests -> {"none", "pending", "ok", "failed"}]
    <3>1. CASE CancelConnector \/ request' = request
      BY <1>0, <3>1, CancelConnectorRequests
    <3>2. CASE request' \in CancelOverlappedRequests({"GetConnectionRequest"}, request)
      BY <3>2, Cancelled
    <3> QED
      BY <2>1, <3>1, <3>2 DEF CatchAccept, Cancel, CatchConnect, CloseCancels
  <2> QED
    BY <1>0, <2>1 DEF Next, Call, Destroying, Connect, PreConnect, IssueConnect, ConnectWaited,
       Validate, CompleteWaited, Resume, PostConnect, DestroyQP, Accept,
       IssueGetConnectionRequest, GetConnectionRequestWaited, IssueAccept, AcceptWaited,
       CatchConstructor, ResumeListener, Close, Destroy, JoinConnectionHandler, CancelCq,
       ResetCq, JoinEventHandler, ConnectionHandlerThread, EventHandlerThread, Complete,
       LinkBreaks, nd, Issue, Waited
<1>5. overlapped' \in [Requests -> Threads \cup {NoOne, "handler"}]
  <2> DEFINE Writes(r, who) == \/ overlapped' = overlapped \/ OutOfScope(r, who)
                               \/ overlapped' = [overlapped EXCEPT ![r] = who]
  <2>1. ASSUME NEW r, NEW who \in Threads \cup {"handler"}, Writes(r, who)
        PROVE  overlapped' \in [Requests -> Threads \cup {NoOne, "handler"}]
    BY <1>0, <2>1 DEF OutOfScope
  <2>2. ASSUME NEW t \in Threads, Validate(t)
        PROVE  overlapped' \in [Requests -> Threads \cup {NoOne, "handler"}]
    BY <1>0, <2>2 DEF Validate, OutOfScope
  <2>3. ASSUME NEW t \in Threads, Call(t), ~Validate(t)
        PROVE  \E r : Writes(r, t)
    BY <2>3 DEF Call, Connect, PreConnect, IssueConnect, ConnectWaited, CompleteWaited,
       Resume, PostConnect, CatchConnect, DestroyQP, Accept, IssueGetConnectionRequest,
       GetConnectionRequestWaited, IssueAccept, AcceptWaited, CatchConstructor, CatchAccept,
       ResumeListener, Cancel, Close, Issue, nd
  <2>4. ASSUME NEW t \in Threads, Destroying(t)
        PROVE  overlapped' = overlapped
    BY <2>4 DEF Destroying, CloseCancels, Destroy, JoinConnectionHandler, CancelCq, ResetCq,
       JoinEventHandler, nd
  <2>5. CASE \/ ConnectionHandlerThread \/ EventHandlerThread \/ LinkBreaks
             \/ \E r \in Requests : Complete(r)
    <3>1. \E r : Writes(r, "handler")
      BY <2>5 DEF ConnectionHandlerThread, EventHandlerThread, LinkBreaks, Complete, Issue
    <3> QED
      BY <2>1, <3>1
  <2> QED
    BY <1>0, <2>1, <2>2, <2>3, <2>4, <2>5 DEF Next
<1>6. pc' \in [Threads -> Places]
  BY <1>0, <1>3
<1> QED
  BY <1>0, <1>1, <1>2, <1>4, <1>5, <1>6 DEF TypeInv, Places

-----------------------------------------------------------------------------
(* Connect                                                                 *)

\* The steps that a Connect and a Close do not see, but for a disconnection
LEMMA ConnectorSame ==
    ASSUME ConnectorInv,
           UNCHANGED <<role, access, pc, connectInProgress, everConnected, alive, qp, cq,
                       startFailed>>,
           connected' = connected \/ ~connected',
           eventHandler' # "none" => eventHandler # "none"
    PROVE  ConnectorInv'
  BY DEF ConnectorInv

\* A Connect goes from one place to another, with or without access.
LEMMA ConnectorGoesOn ==
    ASSUME TypeInv, ConnectorInv, role = "connector", NEW t \in Threads, NEW p,
           pc[t] \in Connecting, p \in Connecting \ {"preconnect"}, GoTo(t, p),
           \/ p \in HasAccess /\ access' = t /\ access \in {t, NoOne}
           \/ p \notin HasAccess /\ access' = NoOne /\ access \in {t, NoOne}
           \/ p \notin HasAccess /\ pc[t] \notin HasAccess /\ access' = access,
           UNCHANGED <<role, connectInProgress, everConnected, alive, startFailed, connected,
                       eventHandler>>
    PROVE  ConnectorInv'
<1>0. access \in Threads \cup {NoOne} /\ NoOne \notin Threads /\ pc \in [Threads -> Places]
  BY WindowsSessionAssumption DEF TypeInv, Places
<1>1. pc'[t] = p /\ \A u \in Threads \ {t} : pc'[u] = pc[u]
  BY <1>0 DEF GoTo
<1>2. p \notin Closing /\ pc[t] \notin Closing /\ pc[t] # "idle"
  BY DEF Connecting, Closing
<1>3. connectInProgress /\ ~everConnected
  BY DEF ConnectorInv
<1>4. \A u \in Threads : pc'[u] \in {"idle", "destroyQp"} \cup Connecting \cup Closing
  BY <1>1 DEF ConnectorInv
<1>5. \A u \in Threads : access' = u <=> pc'[u] \in HasAccess
  BY <1>0, <1>1 DEF ConnectorInv
<1>6. \A u, v \in Threads : pc'[u] \in Closing /\ u # v => pc'[v] = "idle"
  BY <1>1, <1>2 DEF ConnectorInv
<1>7. \A u, v \in Threads : pc'[u] \in Connecting /\ pc'[v] \in Connecting => u = v
  BY <1>1 DEF ConnectorInv
<1>8. \A u \in Threads : pc'[u] # "preconnect"
  BY <1>1 DEF ConnectorInv, Connecting
<1>9. \A u \in Threads : pc'[u] # "destroyQp"
  BY <1>1, <1>3 DEF ConnectorInv, Connecting
<1> QED
  BY <1>1, <1>3, <1>4, <1>5, <1>6, <1>7, <1>8, <1>9 DEF ConnectorInv

\* Destroying goes on: everybody else is idle.
LEMMA ConnectorCloses ==
    ASSUME TypeInv, ConnectorInv, role = "connector", NEW t \in Threads, NEW p,
           pc[t] \in Closing, p \in Closing, GoTo(t, p),
           UNCHANGED <<role, access, connectInProgress, everConnected, alive, startFailed,
                       connected, eventHandler>>
    PROVE  ConnectorInv'
<1>0. access \in Threads \cup {NoOne} /\ NoOne \notin Threads /\ pc \in [Threads -> Places]
  BY WindowsSessionAssumption DEF TypeInv, Places
<1>1. pc'[t] = p /\ \A u \in Threads \ {t} : pc'[u] = pc[u] /\ pc'[u] = "idle"
  BY <1>0 DEF GoTo, ConnectorInv
<1>2. access = t /\ p \in HasAccess /\ p \notin Connecting \cup {"destroyQp"}
  BY DEF ConnectorInv, HasAccess, Connecting, Closing
<1>3. ~connectInProgress
  BY <1>1 DEF ConnectorInv, Connecting, Closing
<1> QED
  BY <1>0, <1>1, <1>2, <1>3 DEF ConnectorInv, HasAccess, Connecting, Closing

LEMMA NextConnector ==
    ASSUME TypeInv, ConnectorInv, Next, role = "connector", role' = role
    PROVE  ConnectorInv'
<1>0. access \in Threads \cup {NoOne} /\ NoOne \notin Threads /\ pc \in [Threads -> Places]
  BY WindowsSessionAssumption DEF TypeInv, Places
<1>1. CASE ConnectionHandlerThread \/ EventHandlerThread \/ LinkBreaks
           \/ \E r \in Requests : Complete(r)
  BY <1>1, ConnectorSame DEF ConnectionHandlerThread, EventHandlerThread, LinkBreaks, Complete,
     flags, objects, threads, history
<1>2. ASSUME NEW t \in Threads, Cancel(t)
      PROVE  ConnectorInv'
  BY <1>2, ConnectorSame DEF Cancel, flags, objects, threads, history
<1>3. ASSUME NEW t \in Threads, Connect(t)
      PROVE  ConnectorInv'
  BY <1>0, <1>3 DEF ConnectorInv, Connect, GoTo, Connecting, Closing, HasAccess, objects,
     threads, history
<1>4. ASSUME NEW t \in Threads, PreConnect(t)
      PROVE  ConnectorInv'
  <2>1. pc[t] = "preconnect" /\ access = t
    BY <1>4 DEF PreConnect, ConnectorInv, HasAccess
  <2>2. PICK p \in {"suspended", "catch"} : GoTo(t, p)
    BY <1>4 DEF PreConnect, SetupQueuePair
  <2>3. pc'[t] = p
    BY <1>0, <2>2 DEF GoTo
  <2>4. /\ UNCHANGED <<connectInProgress, everConnected, alive, startFailed, connected, eventHandler>>
        /\ access' = IF p = "suspended" THEN NoOne ELSE t
    BY <1>4, <2>1, <2>3 DEF PreConnect, flags, threads
  <2> QED
    BY <2>1, <2>2, <2>4, ConnectorGoesOn DEF HasAccess, Connecting, Closing
<1>5. ASSUME NEW t \in Threads,
             IssueConnect(t) \/ ConnectWaited(t) \/ Validate(t) \/ CompleteWaited(t)
      PROVE  ConnectorInv'
  <2>1. /\ pc[t] \in {"suspended", "connecting", "validate", "completing"}
        /\ \E p \in {"connecting", "validate", "completing", "resume", "resumeFailed"} : GoTo(t, p)
    BY <1>5 DEF IssueConnect, ConnectWaited, Validate, CompleteWaited
  <2>2. UNCHANGED <<access, connectInProgress, everConnected, alive, startFailed, connected,
                    eventHandler>>
    BY <1>5 DEF IssueConnect, ConnectWaited, Validate, CompleteWaited, flags, threads, history
  <2> QED
    BY <2>1, <2>2, ConnectorGoesOn DEF HasAccess, Connecting, Closing
<1>5a. ASSUME NEW t \in Threads, Resume(t)
       PROVE  ConnectorInv'
  <2>1. /\ pc[t] \in {"resume", "resumeFailed"} /\ access = NoOne /\ access' = t
        /\ \E p \in {"postconnect", "catch"} : GoTo(t, p)
        /\ UNCHANGED <<connectInProgress, everConnected, alive, startFailed, connected, eventHandler>>
    BY <1>5a DEF Resume, flags, threads, history
  <2> QED
    BY <2>1, ConnectorGoesOn DEF HasAccess, Connecting, Closing
<1>6. ASSUME NEW t \in Threads, PostConnect(t)
      PROVE  ConnectorInv'
  BY <1>0, <1>6 DEF ConnectorInv, PostConnect, GoTo, Return, Connecting, Closing, HasAccess,
     flags, objects, threads, history
<1>7. ASSUME NEW t \in Threads, CatchConnect(t)
      PROVE  ConnectorInv'
  BY <1>0, <1>7 DEF ConnectorInv, CatchConnect, GoTo, Connecting, Closing, HasAccess, objects,
     threads, history
<1>8. ASSUME NEW t \in Threads, DestroyQP(t)
      PROVE  ConnectorInv'
  BY <1>0, <1>8 DEF ConnectorInv, DestroyQP, GoTo, Return, Connecting, Closing, HasAccess,
     flags, threads, history
<1>9. ASSUME NEW t \in Threads,
             \/ Accept(t) \/ IssueGetConnectionRequest(t) \/ GetConnectionRequestWaited(t)
             \/ IssueAccept(t) \/ AcceptWaited(t) \/ CatchConstructor(t) \/ CatchAccept(t)
             \/ ResumeListener(t)
      PROVE  FALSE
  BY <1>9 DEF Accept, IssueGetConnectionRequest, GetConnectionRequestWaited, IssueAccept,
     AcceptWaited, CatchConstructor, CatchAccept, ResumeListener, ConnectorInv, Connecting, Closing
<1>10. ASSUME NEW t \in Threads, Close(t)
       PROVE  ConnectorInv'
  BY <1>0, <1>10 DEF ConnectorInv, Close, GoTo, Connecting, Closing, HasAccess, flags, objects,
     threads, history
<1>11. ASSUME NEW t \in Threads,
              \/ CloseCancels(t) \/ Destroy(t) \/ JoinConnectionHandler(t) \/ CancelCq(t)
              \/ ResetCq(t)
       PROVE  ConnectorInv'
  <2>1. PICK p \in Closing : GoTo(t, p) /\ pc[t] \in Closing
    BY <1>11 DEF CloseCancels, Destroy, JoinConnectionHandler, CancelCq, ResetCq, Closing
  <2>2. UNCHANGED <<access, connectInProgress, everConnected, alive, startFailed, connected,
                    eventHandler>>
    BY <1>11 DEF CloseCancels, Destroy, JoinConnectionHandler, CancelCq, ResetCq, flags, threads,
       history
  <2> QED
    BY <2>1, <2>2, ConnectorCloses
<1>12. ASSUME NEW t \in Threads, JoinEventHandler(t)
       PROVE  ConnectorInv'
  BY <1>0, <1>12 DEF ConnectorInv, JoinEventHandler, GoTo, Return, Connecting, Closing, HasAccess,
     flags, objects, history
<1> QED
  BY <1>1, <1>2, <1>3, <1>4, <1>5, <1>6, <1>7, <1>8, <1>9, <1>10, <1>11, <1>12,
     <1>5a DEF Next, Call, Destroying

-----------------------------------------------------------------------------
(* Accept                                                                  *)

\* The steps of the session's own threads and of the network
LEMMA AcceptedSame ==
    ASSUME AcceptedInv,
           UNCHANGED <<role, access, pc, acceptInProgress, createFailed, alive, closing, qp, cq>>,
           connected' = connected \/ ~connected',
           eventHandler = "none" => eventHandler' = "none"
    PROVE  AcceptedInv'
  BY DEF AcceptedInv, InAccept

\* An Accept goes from one place to another.
LEMMA AcceptGoesOn ==
    ASSUME TypeInv, AcceptedInv, role = "accepted", NEW t \in Threads, NEW p,
           InAccept(t), p \in Accepting, GoTo(t, p),
           p \in {"listening", "catchAccept"} => ~alive',
           p = "preconnect" => ~qp' /\ ~cq',
           p \in {"preconnect", "accepting", "answering", "postconnect"} =>
               alive' /\ ~connected' /\ eventHandler' = "none",
           ~alive' => ~qp' /\ ~cq' /\ ~connected' /\ ~closing' /\ eventHandler' = "none",
           p # "suspended",
           UNCHANGED <<role, access, acceptInProgress, createFailed>>
    PROVE  AcceptedInv'
<1>0. access \in Threads \cup {NoOne} /\ NoOne \notin Threads /\ pc \in [Threads -> Places]
  BY WindowsSessionAssumption DEF TypeInv, Places
<1>1. pc'[t] = p /\ \A u \in Threads \ {t} : pc'[u] = pc[u]
  BY <1>0 DEF GoTo
<1>2. \A u \in Threads : access # u
  BY DEF AcceptedInv, InAccept, Accepting
<1>3. \A u \in Threads \ {t} : pc[u] \notin Accepting
  BY <1>2 DEF AcceptedInv, InAccept
<1>4. \A u \in Threads : InAccept(u)' <=> u = t
  BY <1>1, <1>2, <1>3 DEF InAccept
<1>5. acceptInProgress
  BY DEF AcceptedInv
<1>6. \A u \in Threads : pc'[u] \in {"idle", "resumeListener"} \cup Accepting \cup Closing
  BY <1>1 DEF AcceptedInv
<1>7. \A u \in Threads : pc'[u] # "cancelAndDestroy"
  BY <1>1, <1>2 DEF AcceptedInv, Accepting
<1>8. \A u \in Threads \ {t} : pc'[u] \notin {"suspended", "listening", "catchAccept", "preconnect",
                                             "accepting", "answering", "postconnect"}
  BY <1>1, <1>3 DEF Accepting
<1> QED
  BY <1>1, <1>2, <1>4, <1>5, <1>6, <1>7, <1>8 DEF AcceptedInv

\* Destroying goes on, in a call of CloseSession: nobody accepts.
LEMMA AcceptedCloses ==
    ASSUME TypeInv, AcceptedInv, role = "accepted", NEW t \in Threads, access = t, NEW p,
           p \in Closing, p # "cancelAndDestroy", GoTo(t, p), alive,
           UNCHANGED <<role, access, acceptInProgress, createFailed, alive, connected, eventHandler>>
    PROVE  AcceptedInv'
<1>1. pc'[t] = p /\ \A u \in Threads \ {t} : pc'[u] = pc[u] /\ pc'[u] \in {"idle", "resumeListener"}
  BY DEF GoTo, TypeInv, AcceptedInv
<1>2. \A u \in Threads : ~InAccept(u) /\ ~InAccept(u)'
  BY <1>1 DEF InAccept, AcceptedInv, Accepting
<1>3. pc[t] \in Closing
  BY DEF AcceptedInv
<1> QED
  BY <1>1, <1>2, <1>3 DEF AcceptedInv, Closing

LEMMA NextAccepted ==
    ASSUME TypeInv, AcceptedInv, QueueInv, Next, role = "accepted", role' = role
    PROVE  AcceptedInv'
<1>0. access \in Threads \cup {NoOne} /\ NoOne \notin Threads /\ pc \in [Threads -> Places]
  BY WindowsSessionAssumption DEF TypeInv, Places
<1>1. CASE ConnectionHandlerThread \/ EventHandlerThread \/ LinkBreaks
           \/ \E r \in Requests : Complete(r)
  BY <1>1, AcceptedSame DEF ConnectionHandlerThread, EventHandlerThread, LinkBreaks, Complete,
     flags, objects, threads, history
<1>2. ASSUME NEW t \in Threads, Cancel(t)
      PROVE  AcceptedInv'
  BY <1>2, AcceptedSame DEF Cancel, flags, objects, threads, history
<1>3. ASSUME NEW t \in Threads, Accept(t)
      PROVE  AcceptedInv'
  <2>1. CASE UNCHANGED <<pc, acceptInProgress, createFailed>>
    BY <1>3, <2>1, AcceptedSame DEF Accept, objects, threads, history
  <2>2. CASE ~acceptInProgress /\ acceptInProgress' /\ createFailed' /\ UNCHANGED pc
    BY <1>3, <2>2 DEF Accept, objects, threads, history, AcceptedInv, InAccept
  <2>3. CASE /\ ~acceptInProgress /\ acceptInProgress' /\ GoTo(t, "suspended")
             /\ UNCHANGED createFailed
    <3>1. pc'[t] = "suspended" /\ \A u \in Threads \ {t} : pc'[u] = pc[u]
      BY <1>0, <2>3 DEF GoTo
    <3>2. /\ access = NoOne /\ ~alive
          /\ UNCHANGED <<access, alive, connected, closing, qp, cq, eventHandler>>
      BY <1>3 DEF Accept, objects, threads, history
    <3>3. \A u \in Threads : access # u /\ access' # u
      BY <1>0, <3>2
    <3>4. \A u \in Threads \ {t} : pc[u] \notin Accepting
      BY <2>3, <3>3 DEF AcceptedInv, InAccept
    <3>5. \A u \in Threads : InAccept(u)' <=> u = t
      BY <3>1, <3>3, <3>4 DEF InAccept, Accepting
    <3> QED
      BY <2>3, <3>1, <3>2, <3>3, <3>4, <3>5 DEF AcceptedInv, Accepting
  <2> QED
    BY <1>3, <2>1, <2>2, <2>3 DEF Accept
<1>4. ASSUME NEW t \in Threads, IssueGetConnectionRequest(t)
      PROVE  AcceptedInv'
  <2>1. /\ pc[t] = "suspended" /\ GoTo(t, "listening")
        /\ UNCHANGED <<access, acceptInProgress, createFailed, alive, connected, closing, qp, cq,
                       eventHandler>>
    BY <1>4 DEF IssueGetConnectionRequest, flags, objects, threads, history
  <2>2. ~alive /\ InAccept(t)
    BY <2>1 DEF AcceptedInv, InAccept, Accepting, Closing
  <2> QED
    BY <2>1, <2>2, AcceptGoesOn DEF Accepting, AcceptedInv
<1>5. ASSUME NEW t \in Threads, GetConnectionRequestWaited(t)
      PROVE  AcceptedInv'
  <2>1. /\ pc[t] = "listening"
        /\ \/ GoTo(t, "preconnect") /\ alive'
           \/ GoTo(t, "catchAccept") /\ UNCHANGED alive
        /\ UNCHANGED <<access, acceptInProgress, createFailed, connected, closing, qp, cq,
                       eventHandler>>
    BY <1>5 DEF GetConnectionRequestWaited, flags, threads
  <2>2. ~alive /\ InAccept(t)
    BY <2>1 DEF AcceptedInv, InAccept, Accepting, Closing
  <2>3. ~qp /\ ~cq /\ ~connected /\ ~closing /\ eventHandler = "none"
    BY <2>2 DEF AcceptedInv
  <2> QED
    BY <2>1, <2>2, <2>3, AcceptGoesOn DEF Accepting
<1>6. ASSUME NEW t \in Threads, PreConnect(t)
      PROVE  AcceptedInv'
  <2>1. /\ pc[t] = "preconnect" /\ (GoTo(t, "accepting") \/ GoTo(t, "catch"))
        /\ UNCHANGED <<access, acceptInProgress, createFailed, alive, connected, closing,
                       eventHandler>>
    BY <1>6 DEF PreConnect, SetupQueuePair, flags, threads
  <2>2. alive /\ ~connected /\ eventHandler = "none" /\ InAccept(t)
    BY <2>1 DEF AcceptedInv, InAccept, Accepting, Closing
  <2> QED
    BY <2>1, <2>2, AcceptGoesOn DEF Accepting
<1>7. ASSUME NEW t \in Threads, IssueAccept(t) \/ AcceptWaited(t)
      PROVE  AcceptedInv'
  <2>1. /\ pc[t] \in {"accepting", "answering"}
        /\ \E p \in {"answering", "postconnect", "catch"} : GoTo(t, p)
        /\ UNCHANGED <<access, acceptInProgress, createFailed, alive, connected, closing, qp, cq,
                       eventHandler>>
    BY <1>7 DEF IssueAccept, AcceptWaited, flags, objects, threads, history
  <2>2. alive /\ ~connected /\ eventHandler = "none" /\ InAccept(t)
    BY <2>1 DEF AcceptedInv, InAccept, Accepting, Closing
  <2> QED
    BY <2>1, <2>2, AcceptGoesOn DEF Accepting
<1>8. ASSUME NEW t \in Threads, PostConnect(t)
      PROVE  AcceptedInv'
  <2>1. pc[t] = "postconnect" /\ UNCHANGED <<access, createFailed, alive, closing, qp, cq>>
    BY <1>8 DEF PostConnect, objects, flags
  <2>2. alive /\ ~connected /\ eventHandler = "none" /\ InAccept(t) /\ \A u \in Threads : access # u
    BY <2>1 DEF AcceptedInv, InAccept, Accepting, Closing
  <2>3. CASE GoTo(t, "catch") /\ UNCHANGED acceptInProgress
    BY <2>1, <2>2, <2>3, AcceptGoesOn DEF Accepting
  <2>4. CASE GoTo(t, "resumeListener") /\ ~acceptInProgress'
    <3>1. pc'[t] = "resumeListener" /\ \A u \in Threads \ {t} : pc'[u] = pc[u]
      BY <1>0, <2>4 DEF GoTo
    <3>2. \A u \in Threads \ {t} : pc[u] \notin Accepting
      BY <2>2 DEF AcceptedInv, InAccept
    <3>3. \A u \in Threads : pc'[u] \in {"idle", "resumeListener"}
      BY <2>2, <3>1, <3>2 DEF AcceptedInv, Closing, Accepting
    <3> QED
      BY <2>1, <2>2, <2>4, <3>3 DEF AcceptedInv, InAccept, Accepting
  <2> QED
    BY <1>8, <2>3, <2>4 DEF PostConnect, flags
<1>9. ASSUME NEW t \in Threads, CatchConstructor(t)
      PROVE  AcceptedInv'
  <2>1. /\ pc[t] = "catch" /\ GoTo(t, "destroy")
        /\ UNCHANGED <<access, acceptInProgress, createFailed, alive, connected, closing, qp, cq,
                       eventHandler>>
    BY <1>9 DEF CatchConstructor, flags, objects, threads, history
  <2>2. alive /\ InAccept(t)
    BY <2>1 DEF AcceptedInv, InAccept, Accepting, Closing, QueueInv
  <2> QED
    BY <2>1, <2>2, AcceptGoesOn DEF Accepting
<1>10. ASSUME NEW t \in Threads, CatchAccept(t)
       PROVE  AcceptedInv'
  <2>1. /\ pc[t] = "catchAccept" /\ GoTo(t, "resumeListener") /\ ~acceptInProgress'
        /\ UNCHANGED <<access, createFailed, alive, connected, closing, qp, cq, eventHandler>>
    BY <1>10 DEF CatchAccept, objects, threads, history
  <2>2. InAccept(t) /\ \A u \in Threads : access # u
    BY <2>1 DEF AcceptedInv, InAccept, Accepting, Closing
  <2>3. pc'[t] = "resumeListener" /\ \A u \in Threads \ {t} : pc'[u] = pc[u]
    BY <1>0, <2>1 DEF GoTo
  <2>4. \A u \in Threads \ {t} : pc[u] \notin Accepting
    BY <2>2 DEF AcceptedInv, InAccept
  <2>5. \A u \in Threads : pc'[u] \in {"idle", "resumeListener"}
    BY <2>2, <2>3, <2>4 DEF AcceptedInv, Closing, Accepting
  <2> QED
    BY <2>1, <2>2, <2>5 DEF AcceptedInv, InAccept, Accepting
<1>11. ASSUME NEW t \in Threads, ResumeListener(t)
       PROVE  AcceptedInv'
  BY <1>0, <1>11 DEF ResumeListener, GoTo, AcceptedInv, InAccept, Accepting, Closing, flags,
     objects, threads, history
<1>12. ASSUME NEW t \in Threads, Close(t)
       PROVE  AcceptedInv'
  BY <1>0, <1>12 DEF Close, GoTo, AcceptedInv, InAccept, Accepting, Closing, flags,
     objects, threads, history
<1>13. ASSUME NEW t \in Threads,
              \/ CloseCancels(t) \/ Destroy(t) \/ JoinConnectionHandler(t) \/ CancelCq(t)
              \/ ResetCq(t)
       PROVE  AcceptedInv'
  <2>1. /\ pc[t] \in Closing
        /\ \E p \in {"destroy", "joinConnectionHandler", "cancelCq", "resetCq", "joinEventHandler"} :
              GoTo(t, p)
    BY <1>13 DEF CloseCancels, Destroy, JoinConnectionHandler, CancelCq, ResetCq, Closing
  <2>2. UNCHANGED <<access, acceptInProgress, createFailed, alive, connected, eventHandler>>
    BY <1>13 DEF CloseCancels, Destroy, JoinConnectionHandler, CancelCq, ResetCq, flags, threads,
       history
  <2>3. alive
    BY <2>1 DEF QueueInv
  <2>4. CASE access = t
    BY <2>1, <2>2, <2>3, <2>4, AcceptedCloses DEF Closing
  <2>5. CASE access # t
    <3>1. InAccept(t)
      BY <2>1, <2>5 DEF AcceptedInv, InAccept, Accepting, Closing
    <3> QED
      BY <2>1, <2>2, <2>3, <3>1, AcceptGoesOn DEF Accepting
  <2> QED
    BY <2>4, <2>5
<1>14. ASSUME NEW t \in Threads, JoinEventHandler(t)
       PROVE  AcceptedInv'
  <2>1. /\ pc[t] = "joinEventHandler" /\ ~alive' /\ ~connected' /\ ~closing'
        /\ eventHandler' = "none" /\ UNCHANGED <<acceptInProgress, createFailed, qp, cq>>
    BY <1>14 DEF JoinEventHandler, flags, objects, history
  <2>2. ~qp /\ ~cq
    BY <2>1 DEF QueueInv
  <2>3. CASE access = t
    <3>1. pc' = [pc EXCEPT ![t] = "idle"] /\ access' = NoOne
      BY <1>14, <2>3 DEF JoinEventHandler, Return, GoTo
    <3>2. \A u \in Threads : pc'[u] \in {"idle", "resumeListener"} /\ access' # u
      BY <1>0, <2>3, <3>1 DEF AcceptedInv
    <3>3. \A u \in Threads : ~InAccept(u)
      BY <2>3 DEF AcceptedInv, InAccept, Accepting
    <3> QED
      BY <2>1, <2>2, <3>2, <3>3 DEF AcceptedInv, InAccept, Accepting
  <2>4. CASE access # t
    <3>1. InAccept(t) /\ GoTo(t, "catchAccept") /\ UNCHANGED access
      BY <1>14, <2>1, <2>4 DEF JoinEventHandler, InAccept, Accepting
    <3>2. "catchAccept" \in Accepting
      BY DEF Accepting
    <3>3. ~qp' /\ ~cq'
      BY <2>1, <2>2
    <3> QED
      BY <2>1, <3>1, <3>2, <3>3, AcceptGoesOn
  <2> QED
    BY <2>3, <2>4
<1>15. ASSUME NEW t \in Threads,
              \/ Connect(t) \/ IssueConnect(t) \/ ConnectWaited(t) \/ Validate(t)
              \/ CompleteWaited(t) \/ Resume(t) \/ CatchConnect(t) \/ DestroyQP(t)
       PROVE  FALSE
  BY <1>15 DEF Connect, IssueConnect, ConnectWaited, Validate, CompleteWaited, Resume,
     CatchConnect, DestroyQP, AcceptedInv, Accepting, Closing
<1> QED
  BY <1>1, <1>2, <1>3, <1>4, <1>5, <1>6, <1>7, <1>8, <1>9, <1>10, <1>11, <1>12, <1>13, <1>14,
     <1>15 DEF Next, Call, Destroying

-----------------------------------------------------------------------------
(* The queues                                                              *)

\* Where a call relies on the queues
InUse == {"connecting", "validate", "completing", "resume", "accepting", "answering",
          "postconnect"} \cup (IF role = "accepted" THEN {} ELSE {"suspended"})

\* What QueueInv says of a thread that is at p, and of the session
Fits(p) ==
    /\ p \in InUse => qp /\ cq
    /\ p \in Joining => closing
    /\ p \in {"cancelCq", "resetCq", "joinEventHandler"} => ~qp
    /\ p = "joinEventHandler" => ~cq
    /\ p \in Closing => alive
    /\ p = "catch" /\ role = "accepted" => alive

SessionFits ==
    /\ ~setupTwice
    /\ connected /\ ~closing /\ ~startFailed => qp /\ cq
    /\ crashed => closing \/ startFailed
    /\ eventHandler \notin {"none", "done"} /\ ~closing /\ ~startFailed => cq

LEMMA QueueInvParts ==
    ASSUME TypeInv
    PROVE  QueueInv <=> SessionFits /\ \A t \in Threads : Fits(pc[t])
  BY DEF QueueInv, QueuesInUse, SessionFits, Fits, InUse, TypeInv

LEMMA QueueInvPartsNext ==
    ASSUME TypeInv', SessionFits', \A t \in Threads : Fits(pc[t])'
    PROVE  QueueInv'
  BY DEF QueueInv, QueuesInUse, SessionFits, Fits, InUse, TypeInv

\* A thread that makes, starts or drops the queues is alone with them.
LEMMA Alone ==
    ASSUME TypeInv, ConnectorInv, AcceptedInv, NEW t \in Threads, NEW u \in Threads \ {t},
           pc[t] \in Closing \cup {"preconnect", "destroyQp", "postconnect", "catch"}
    PROVE  pc[u] \notin InUse /\ pc[u] \notin Closing /\ pc[u] # "catch"
<1>1. CASE role = "connector"
  BY <1>1 DEF ConnectorInv, InUse, Connecting, Closing
<1>2. CASE role = "accepted" /\ access = t
  BY <1>2 DEF AcceptedInv, InUse, Closing
<1>3. CASE role = "accepted" /\ access # t
  <2>1. access # u /\ InAccept(t)
    BY <1>3 DEF AcceptedInv, InAccept, Accepting, Closing
  <2>2. ~InAccept(u)
    BY <1>3, <2>1 DEF AcceptedInv
  <2>3. pc[u] \in {"idle", "resumeListener"} \cup (Closing \ Accepting)
    BY <1>3, <2>1, <2>2 DEF AcceptedInv, InAccept
  <2>4. pc[u] # "cancelAndDestroy"
    BY <1>3, <2>1 DEF AcceptedInv
  <2> QED
    BY <1>3, <2>3, <2>4 DEF InUse, Closing, Accepting
<1> QED
  BY <1>1, <1>2, <1>3 DEF TypeInv

\* Such a step: the thread goes to a place that fits, the others do not mind.
LEMMA QueuesAlone ==
    ASSUME TypeInv, TypeInv', ConnectorInv, AcceptedInv, NEW t \in Threads, NEW p,
           pc[t] \in Closing \cup {"preconnect", "destroyQp", "postconnect", "catch"},
           GoTo(t, p), role' = role, SessionFits', Fits(pc[t])'
    PROVE  QueueInv'
<1>1. ASSUME NEW u \in Threads \ {t}
      PROVE  Fits(pc[u])'
  <2>1. pc'[u] = pc[u]
    BY DEF GoTo, TypeInv
  <2>2. pc'[u] \notin InUse /\ pc'[u] \notin Closing /\ pc'[u] # "catch"
    BY <2>1, Alone
  <2> QED
    BY <2>2 DEF Fits, InUse, Joining, Closing
<1> QED
  BY <1>1, QueueInvPartsNext

\* A step that leaves the queues alone, of a thread or of nobody
LEMMA QueuesSame ==
    ASSUME TypeInv, TypeInv', QueueInv, SessionFits',
           UNCHANGED <<role, qp, cq, closing>>, alive => alive',
           \/ pc' = pc
           \/ \E t \in Threads, p \in Places :
                 GoTo(t, p) /\ (p \in InUse => pc[t] \in InUse) /\ p \notin Joining
                 /\ (p \in Closing \/ (p = "catch" /\ role = "accepted") => alive')
    PROVE  QueueInv'
<1>1. \A u \in Threads : Fits(pc[u])
  BY QueueInvParts
<1>2. \A u \in Threads : pc'[u] = pc[u] => Fits(pc[u])'
  BY <1>1 DEF Fits, InUse
<1>3. CASE pc' = pc
  BY <1>2, <1>3, QueueInvPartsNext
<1>4. ASSUME NEW t \in Threads, NEW p \in Places, GoTo(t, p), p \in InUse => pc[t] \in InUse,
             p \notin Joining, p \in Closing \/ (p = "catch" /\ role = "accepted") => alive'
      PROVE  QueueInv'
  <2>1. pc'[t] = p /\ \A u \in Threads \ {t} : pc'[u] = pc[u]
    BY <1>4 DEF GoTo, TypeInv
  <2>2. Fits(pc[t])'
    BY <1>1, <1>4, <2>1 DEF Fits, InUse, Joining
  <2> QED
    BY <1>2, <2>1, <2>2, QueueInvPartsNext
<1> QED
  BY <1>3, <1>4

LEMMA NextQueues ==
    ASSUME TypeInv, TypeInv', ConnectorInv, AcceptedInv, QueueInv, Next, role' = role
    PROVE  QueueInv'
<1>0. /\ pc \in [Threads -> Places] /\ ~crashed /\ role \in {"connector", "accepted"}
      /\ SessionFits /\ \A u \in Threads : Fits(pc[u])
  BY QueueInvParts DEF TypeInv, Places, Next
<1>1. CASE ConnectionHandlerThread \/ LinkBreaks \/ \E r \in Requests : Complete(r)
  <2>1. UNCHANGED <<pc, qp, cq, closing, alive, startFailed, setupTwice, crashed, eventHandler>>
        /\ (connected' => connected)
    BY <1>1 DEF ConnectionHandlerThread, LinkBreaks, Complete, objects, threads, history
  <2>2. SessionFits'
    BY <1>0, <2>1 DEF SessionFits
  <2> QED
    BY <2>1, <2>2, QueuesSame
<1>2. CASE EventHandlerThread
  <2>1. UNCHANGED <<pc, qp, cq, closing, alive, startFailed, setupTwice, connected>>
    BY <1>2 DEF EventHandlerThread, objects, threads, history
  <2>2. SessionFits'
    BY <1>0, <1>2, <2>1 DEF SessionFits, EventHandlerThread, MayUse
  <2> QED
    BY <2>1, <2>2, QueuesSame
<1>3. ASSUME NEW t \in Threads,
             \/ Connect(t) \/ IssueConnect(t) \/ ConnectWaited(t) \/ Validate(t)
             \/ CompleteWaited(t) \/ Resume(t) \/ CatchConnect(t) \/ Cancel(t)
             \/ Close(t)
      PROVE  QueueInv'
  <2>1. UNCHANGED <<qp, cq, closing, alive, startFailed, setupTwice, crashed, connected,
                    eventHandler>>
    BY <1>3 DEF Connect, IssueConnect, ConnectWaited, Validate, CompleteWaited, Resume,
       CatchConnect, Cancel, Close, objects, threads, history
  <2>2. SessionFits'
    BY <1>0, <2>1 DEF SessionFits
  <2>3. \/ pc' = pc
        \/ \E p \in Places :
              GoTo(t, p) /\ (p \in InUse => pc[t] \in InUse) /\ p \notin Joining
              /\ (p \in Closing \/ (p = "catch" /\ role = "accepted") => alive)
    <3>1. CASE Connect(t) \/ Cancel(t) \/ Close(t) \/ CatchConnect(t)
      BY <3>1 DEF Connect, Cancel, Close, CatchConnect, InUse, Joining, Closing, Places, Connecting
    <3>2. CASE IssueConnect(t) \/ ConnectWaited(t) \/ Validate(t) \/ CompleteWaited(t)
      <4>1. /\ pc[t] \in {"suspended", "connecting", "validate", "completing"}
            /\ \E p \in {"connecting", "validate", "completing", "resume", "resumeFailed"} :
                  GoTo(t, p)
        BY <3>2 DEF IssueConnect, ConnectWaited, Validate, CompleteWaited
      <4>2. role = "connector"
        BY <1>0, <3>2, <4>1 DEF IssueConnect, ConnectWaited, Validate, CompleteWaited, AcceptedInv,
           Accepting, Closing
      <4> QED
        BY <4>1, <4>2 DEF InUse, Joining, Closing, Places, Connecting
    <3>3. CASE Resume(t)
      <4>1. role = "connector"
        BY <1>0, <3>3 DEF Resume, AcceptedInv, Accepting, Closing
      <4> QED
        BY <3>3, <4>1 DEF Resume, InUse, Joining, Closing, Places, Connecting
    <3> QED
      BY <1>3, <3>1, <3>2, <3>3
  <2> QED
    BY <2>1, <2>2, <2>3, QueuesSame
<1>4. ASSUME NEW t \in Threads,
             \/ Accept(t) \/ IssueGetConnectionRequest(t) \/ GetConnectionRequestWaited(t)
             \/ IssueAccept(t) \/ AcceptWaited(t) \/ CatchConstructor(t) \/ CatchAccept(t)
             \/ ResumeListener(t) \/ CloseCancels(t)
      PROVE  QueueInv'
  <2>0. alive => alive'
    BY <1>4 DEF Accept, IssueGetConnectionRequest, GetConnectionRequestWaited, IssueAccept,
       AcceptWaited, CatchConstructor, CatchAccept, ResumeListener, CloseCancels
  <2>1. UNCHANGED <<qp, cq, closing, startFailed, setupTwice, crashed, connected, eventHandler>>
    BY <1>4 DEF Accept, IssueGetConnectionRequest, GetConnectionRequestWaited, IssueAccept,
       AcceptWaited, CatchConstructor, CatchAccept, ResumeListener, CloseCancels, objects, threads,
       history
  <2>2. SessionFits'
    BY <1>0, <2>1 DEF SessionFits
  <2>3. \/ pc' = pc
        \/ \E p \in Places :
              GoTo(t, p) /\ (p \in InUse => pc[t] \in InUse) /\ p \notin Joining
              /\ (p \in Closing \/ (p = "catch" /\ role = "accepted") => alive')
    <3>1. CASE Accept(t) \/ IssueGetConnectionRequest(t) \/ GetConnectionRequestWaited(t)
               \/ CatchAccept(t) \/ ResumeListener(t)
      <4>1. \/ pc' = pc
            \/ \E p \in {"suspended", "listening", "preconnect", "catchAccept", "resumeListener",
                        "idle"} : GoTo(t, p)
        BY <3>1 DEF Accept, IssueGetConnectionRequest, GetConnectionRequestWaited, CatchAccept,
           ResumeListener
      <4>2. role = "accepted"
        BY <1>0, <3>1 DEF Accept, IssueGetConnectionRequest, GetConnectionRequestWaited, CatchAccept,
           ResumeListener, ConnectorInv, Connecting, Closing
      <4> QED
        BY <4>1, <4>2 DEF InUse, Joining, Closing, Places, Connecting, Accepting
    <3>2. CASE IssueAccept(t) \/ AcceptWaited(t)
      <4>1. role = "accepted" /\ alive
        BY <1>0, <3>2 DEF IssueAccept, AcceptWaited, ConnectorInv, AcceptedInv, Connecting, Closing
      <4> QED
        BY <2>0, <3>2, <4>1 DEF IssueAccept, AcceptWaited, InUse, Joining, Closing, Places,
           Connecting, Accepting
    <3>3. CASE CatchConstructor(t) \/ CloseCancels(t)
      <4>1. alive
        BY <1>0, <3>3 DEF CatchConstructor, CloseCancels, Fits, Closing
      <4> QED
        BY <2>0, <3>3, <4>1 DEF CatchConstructor, CloseCancels, InUse, Joining, Closing, Places,
           Accepting
    <3> QED
      BY <1>4, <3>1, <3>2, <3>3
  <2> QED
    BY <2>0, <2>1, <2>2, <2>3, QueuesSame
<1>5. ASSUME NEW t \in Threads, PreConnect(t)
      PROVE  QueueInv'
  <2>1. pc[t] = "preconnect" /\ ~qp /\ ~cq
    BY <1>0, <1>5 DEF PreConnect, ConnectorInv, AcceptedInv
  <2>2. connected \/ eventHandler # "none" => startFailed
    BY <1>0, <2>1 DEF ConnectorInv, AcceptedInv, Connecting
  <2>3. UNCHANGED <<closing, alive, startFailed, crashed, connected, eventHandler>> /\ ~setupTwice'
    BY <1>0, <1>5, <2>1 DEF PreConnect, SetupQueuePair, threads, SessionFits
  <2>4. SessionFits'
    BY <1>0, <2>2, <2>3 DEF SessionFits
  <2>5. PICK p \in {"suspended", "accepting", "catch"} :
            GoTo(t, p) /\ (p \in {"suspended", "accepting"} => qp' /\ cq')
    BY <1>5 DEF PreConnect, SetupQueuePair
  <2>6. pc'[t] = p
    BY <1>0, <2>5 DEF GoTo
  <2>7. role = "accepted" => alive
    BY <2>1 DEF AcceptedInv
  <2>8. Fits(pc[t])'
    BY <2>3, <2>5, <2>6, <2>7 DEF Fits, InUse, Joining, Closing
  <2> QED
    BY <2>1, <2>4, <2>5, <2>8, QueuesAlone
<1>6. ASSUME NEW t \in Threads, PostConnect(t)
      PROVE  QueueInv'
  <2>1. pc[t] = "postconnect" /\ qp /\ cq
    BY <1>0, <1>6 DEF PostConnect, Fits, InUse
  <2>2. UNCHANGED <<qp, cq, closing, alive, crashed, setupTwice>>
    BY <1>6 DEF PostConnect, objects
  <2>3. SessionFits'
    BY <1>0, <2>1, <2>2 DEF SessionFits
  <2>4. PICK p \in {"idle", "resumeListener", "catch"} : GoTo(t, p)
    BY <1>6 DEF PostConnect, Return
  <2>5. pc'[t] = p
    BY <1>0, <2>4 DEF GoTo
  <2>6. role = "accepted" => alive
    BY <2>1 DEF AcceptedInv
  <2>7. Fits(pc[t])'
    BY <2>2, <2>4, <2>5, <2>6 DEF Fits, InUse, Joining, Closing
  <2> QED
    BY <2>1, <2>3, <2>4, <2>7, QueuesAlone
<1>7. ASSUME NEW t \in Threads, DestroyQP(t)
      PROVE  QueueInv'
  <2>1. pc[t] = "destroyQp" /\ GoTo(t, "idle")
        /\ UNCHANGED <<closing, alive, crashed, setupTwice, startFailed, connected, eventHandler>>
    BY <1>7 DEF DestroyQP, Return, threads, history
  <2>2. connected \/ eventHandler # "none" => startFailed
    BY <1>0, <2>1 DEF ConnectorInv, AcceptedInv, Accepting, Closing
  <2>3. SessionFits'
    BY <1>0, <2>1, <2>2 DEF SessionFits
  <2>4. pc'[t] = "idle"
    BY <1>0, <2>1 DEF GoTo
  <2>5. Fits(pc[t])'
    BY <2>4 DEF Fits, InUse, Joining, Closing
  <2> QED
    BY <2>1, <2>3, <2>5, QueuesAlone
<1>8. ASSUME NEW t \in Threads,
             Destroy(t) \/ JoinConnectionHandler(t) \/ CancelCq(t) \/ ResetCq(t)
      PROVE  QueueInv'
  <2>1. pc[t] \in Closing /\ alive /\ closing'
    BY <1>0, <1>8 DEF Destroy, JoinConnectionHandler, CancelCq, ResetCq, Fits, Closing, Joining
  <2>2. UNCHANGED <<alive, crashed, setupTwice>>
    BY <1>8 DEF Destroy, JoinConnectionHandler, CancelCq, ResetCq, history
  <2>3. SessionFits'
    BY <1>0, <2>1, <2>2 DEF SessionFits
  <2>4. PICK p \in Joining :
            /\ GoTo(t, p)
            /\ p \in {"cancelCq", "resetCq", "joinEventHandler"} => ~qp'
            /\ p = "joinEventHandler" => ~cq'
    BY <1>0, <1>8 DEF Destroy, JoinConnectionHandler, CancelCq, ResetCq, Fits, Joining, objects
  <2>5. pc'[t] = p
    BY <1>0, <2>4 DEF GoTo
  <2>6. Fits(pc[t])'
    BY <2>1, <2>2, <2>4, <2>5 DEF Fits, InUse, Joining
  <2> QED
    BY <2>1, <2>3, <2>4, <2>6, QueuesAlone
<1>9. ASSUME NEW t \in Threads, JoinEventHandler(t)
      PROVE  QueueInv'
  <2>1. pc[t] = "joinEventHandler" /\ ~connected' /\ eventHandler' = "none"
        /\ UNCHANGED <<crashed, setupTwice>>
    BY <1>9 DEF JoinEventHandler, history
  <2>2. SessionFits'
    BY <1>0, <2>1 DEF SessionFits
  <2>3. PICK p \in {"idle", "catchAccept"} : GoTo(t, p)
    BY <1>9 DEF JoinEventHandler, Return
  <2>4. pc'[t] = p
    BY <1>0, <2>3 DEF GoTo
  <2>5. Fits(pc[t])'
    BY <2>3, <2>4 DEF Fits, InUse, Joining, Closing
  <2> QED
    BY <2>1, <2>2, <2>3, <2>5, QueuesAlone DEF Closing
<1> QED
  BY <1>1, <1>2, <1>3, <1>4, <1>5, <1>6, <1>7, <1>8, <1>9 DEF Next, Call, Destroying

-----------------------------------------------------------------------------
(* Overlapped requests                                                     *)

\* Steps that issue no request, and end the scope of no OVERLAPPED
LEMMA OverlappedSame ==
    ASSUME TypeInv, OverlappedInv, UNCHANGED overlapped, timedOut \subseteq timedOut',
           \A r \in Requests : request'[r] = "pending" => request[r] = "pending",
           connectionHandler' = "disconnecting" => connectionHandler = "disconnecting",
           \/ pc' = pc
           \/ \E t \in Threads, p \in Places :
                 GoTo(t, p) /\ p # "validate" /\ pc[t] # "listening"
    PROVE  OverlappedInv'
<1>1. {"Connect", "GetConnectionRequest", "NotifyDisconnect"} \subseteq Requests
  BY DEF Requests
<1>2. \A u \in Threads : /\ pc'[u] = "validate" => pc[u] = "validate"
                         /\ pc[u] = "listening" => pc'[u] = "listening"
  BY DEF GoTo, TypeInv
<1> QED
  BY <1>1, <1>2 DEF OverlappedInv, OverlappedOutlivesRequest

LEMMA NextOverlapped ==
    ASSUME TypeInv, ConnectorInv, AcceptedInv, OverlappedInv, Next
    PROVE  OverlappedInv'
<1>0. /\ pc \in [Threads -> Places] /\ NoOne \notin Threads /\ NoOne # "handler"
      /\ request \in [Requests -> {"none", "pending", "ok", "failed"}]
      /\ overlapped \in [Requests -> Threads \cup {NoOne, "handler"}]
      /\ role \in {"connector", "accepted"}
  BY WindowsSessionAssumption DEF TypeInv, Places, NoOne
<1>1. CASE LinkBreaks \/ \E r \in Requests : Complete(r)
  <2>1. UNCHANGED <<pc, overlapped, timedOut, connectionHandler>>
    BY <1>1 DEF LinkBreaks, Complete, threads, history
  <2>2. \A r \in Requests : request'[r] = "pending" => request[r] = "pending"
    BY <1>0, <1>1 DEF LinkBreaks, Complete
  <2> QED
    BY <2>1, <2>2, OverlappedSame
<1>2. ASSUME NEW t \in Threads,
             \/ Connect(t) \/ PreConnect(t) \/ Resume(t) \/ PostConnect(t) \/ CatchConnect(t)
             \/ DestroyQP(t) \/ Accept(t) \/ CatchConstructor(t) \/ CatchAccept(t) \/ Cancel(t)
             \/ Close(t) \/ Destroying(t)
      PROVE  OverlappedInv'
  <2>1. UNCHANGED <<overlapped, timedOut>>
    BY <1>2 DEF Connect, PreConnect, Resume, PostConnect, CatchConnect, DestroyQP, Accept,
       CatchConstructor, CatchAccept, Cancel, Close, Destroying, CloseCancels, Destroy,
       JoinConnectionHandler, CancelCq, ResetCq, JoinEventHandler, nd, history
  <2>2. connectionHandler' = "disconnecting" => connectionHandler = "disconnecting"
    BY <1>2 DEF Connect, PreConnect, Resume, PostConnect, CatchConnect, DestroyQP, Accept,
       CatchConstructor, CatchAccept, Cancel, Close, Destroying, CloseCancels, Destroy,
       JoinConnectionHandler, CancelCq, ResetCq, JoinEventHandler, threads
  <2>3. \A r \in Requests : request'[r] = "pending" => request[r] = "pending"
    <3>1. CASE CancelConnector \/ request' = request
      BY <3>1, CancelConnectorRequests
    <3>2. CASE request' \in CancelOverlappedRequests({"GetConnectionRequest"}, request)
      BY <3>2, Cancelled
    <3>3. CASE CancelCq(t)
      BY <1>0, <3>3 DEF CancelCq
    <3> QED
      BY <1>2, <3>1, <3>2, <3>3 DEF Connect, PreConnect, Resume, PostConnect, CatchConnect,
         DestroyQP, Accept, CatchConstructor, CatchAccept, Cancel, Close, Destroying, CloseCancels,
         Destroy, JoinConnectionHandler, ResetCq, JoinEventHandler, nd
  <2>4. \/ pc' = pc
        \/ pc[t] # "listening" /\ \E p \in Places : GoTo(t, p) /\ p # "validate"
    <3>1. CASE \/ Connect(t) \/ PreConnect(t) \/ Resume(t) \/ PostConnect(t) \/ CatchConnect(t)
               \/ DestroyQP(t)
      BY <1>0, <3>1 DEF Connect, PreConnect, SetupQueuePair, Resume, PostConnect, CatchConnect,
         DestroyQP, Return, Places, Connecting, Accepting
    <3>2. CASE Accept(t) \/ CatchConstructor(t) \/ CatchAccept(t) \/ Cancel(t) \/ Close(t)
      BY <3>2 DEF Accept, CatchConstructor, CatchAccept, Cancel, Close, Places, Accepting, Closing
    <3>3. CASE Destroying(t)
      BY <3>3 DEF Destroying, CloseCancels, Destroy, JoinConnectionHandler, CancelCq, ResetCq,
         JoinEventHandler, Return, Places, Accepting, Closing
    <3> QED
      BY <1>2, <3>1, <3>2, <3>3
  <2> QED
    BY <2>1, <2>2, <2>3, <2>4, OverlappedSame
<1>3. ASSUME NEW t \in Threads,
             IssueConnect(t) \/ ConnectWaited(t) \/ Validate(t) \/ CompleteWaited(t)
      PROVE  OverlappedInv'
  <2>1. pc[t] \in {"suspended", "connecting", "validate", "completing"} /\ role = "connector"
    BY <1>0, <1>3 DEF IssueConnect, ConnectWaited, Validate, CompleteWaited, AcceptedInv, Accepting,
       Closing
  <2>2. \A u \in Threads \ {t} : pc[u] # "validate"
    BY <2>1 DEF ConnectorInv, Connecting
  <2>3. CASE IssueConnect(t)
    BY <1>0, <2>2, <2>3 DEF IssueConnect, Issue, GoTo, OverlappedInv, OverlappedOutlivesRequest,
       Requests, threads, history
  <2>4. CASE ConnectWaited(t)
    BY <1>0, <2>2, <2>4 DEF ConnectWaited, WaitSucceeds, WaitFails, WaitTimesOut, Waited,
       OutOfScope, GoTo, OverlappedInv, OverlappedOutlivesRequest, Requests, threads
  <2>5. CASE Validate(t)
    BY <1>0, <2>2, <2>5 DEF Validate, OutOfScope, GoTo, OverlappedInv, OverlappedOutlivesRequest,
       Requests, threads, history
  <2>6. CASE CompleteWaited(t)
    BY <1>0, <2>2, <2>6 DEF CompleteWaited, WaitSucceeds, WaitFails, Waited, OutOfScope, GoTo,
       OverlappedInv, OverlappedOutlivesRequest, Requests, threads
  <2> QED
    BY <1>3, <2>3, <2>4, <2>5, <2>6
<1>4. ASSUME NEW t \in Threads, IssueGetConnectionRequest(t)
      PROVE  OverlappedInv'
  BY <1>0, <1>4 DEF IssueGetConnectionRequest, Issue, GoTo, OverlappedInv,
     OverlappedOutlivesRequest, Requests, threads, history
<1>5. ASSUME NEW t \in Threads, GetConnectionRequestWaited(t)
      PROVE  OverlappedInv'
  BY <1>0, <1>5 DEF GetConnectionRequestWaited, WaitSucceeds, WaitFails, WaitTimesOut, Waited,
     GoTo, OverlappedInv, OverlappedOutlivesRequest, Requests, threads
<1>6. ASSUME NEW t \in Threads, IssueAccept(t)
      PROVE  OverlappedInv'
  BY <1>0, <1>6 DEF IssueAccept, Issue, GoTo, OverlappedInv, OverlappedOutlivesRequest, Requests,
     threads, history
<1>7. ASSUME NEW t \in Threads, AcceptWaited(t)
      PROVE  OverlappedInv'
  BY <1>0, <1>7 DEF AcceptWaited, WaitSucceeds, WaitFails, WaitTimesOut, Waited, OutOfScope,
     GoTo, OverlappedInv, OverlappedOutlivesRequest, Requests, threads
<1>8. ASSUME NEW t \in Threads, ResumeListener(t)
      PROVE  OverlappedInv'
  BY <1>0, <1>8 DEF ResumeListener, OutOfScope, GoTo, OverlappedInv, OverlappedOutlivesRequest,
     Requests, threads, history
<1>9. CASE ConnectionHandlerThread
  BY <1>0, <1>9 DEF ConnectionHandlerThread, WaitSucceeds, WaitFails, Issue, OutOfScope,
     OverlappedInv, OverlappedOutlivesRequest, Requests, history
<1>10. CASE EventHandlerThread
  BY <1>0, <1>10 DEF EventHandlerThread, Issue, OutOfScope, OverlappedInv,
     OverlappedOutlivesRequest, Requests
<1> QED
  BY <1>1, <1>2, <1>3, <1>4, <1>5, <1>6, <1>7, <1>8, <1>9, <1>10 DEF Next, Call

-----------------------------------------------------------------------------
(* Theorems                                                                *)

LEMMA InitIInv ==
    ASSUME Init
    PROVE  IInv
<1>1. NoOne \notin Threads
  BY WindowsSessionAssumption
<1>2. \A t \in Threads : pc[t] = "idle" /\ access # t
  BY <1>1 DEF Init
<1>3. TypeInv
  BY DEF Init, TypeInv
<1>4. ConnectorInv
  BY <1>2 DEF Init, ConnectorInv, Connecting, Closing, HasAccess
<1>5. AcceptedInv
  BY <1>2 DEF Init, AcceptedInv, InAccept, Accepting
<1>6. QueueInv
  BY <1>2 DEF Init, QueueInv, QueuesInUse, Joining, Closing
<1>7. OverlappedInv
  BY <1>2 DEF Init, OverlappedInv, OverlappedOutlivesRequest, Requests
<1> QED
  BY <1>3, <1>4, <1>5, <1>6, <1>7 DEF IInv

LEMMA NextIInv ==
    ASSUME IInv, [Next]_vars
    PROVE  IInv'
<1>1. CASE UNCHANGED vars
  <2>1. UNCHANGED <<role, access, pc, connectInProgress, everConnected, acceptInProgress, alive,
                    connected, closing, qp, cq, connectionHandler, eventHandler, request,
                    overlapped, crashed, timedOut, createFailed, startFailed, setupTwice>>
    BY <1>1 DEF vars, flags, objects, threads, nd, history
  <2>2. TypeInv' /\ QueueInv' /\ OverlappedInv'
    BY <2>1 DEF IInv, TypeInv, QueueInv, QueuesInUse, OverlappedInv, OverlappedOutlivesRequest
  <2>3. ConnectorInv' /\ AcceptedInv'
    BY <2>1, ConnectorSame, AcceptedSame DEF IInv
  <2> QED
    BY <2>2, <2>3 DEF IInv
<1>2. CASE Next
  <2>1. role' = role /\ TypeInv'
    BY <1>2, NextTypes DEF IInv
  <2>2. ConnectorInv' /\ AcceptedInv'
    BY <1>2, <2>1, NextConnector, NextAccepted DEF IInv, TypeInv, ConnectorInv, AcceptedInv
  <2>3. QueueInv' /\ OverlappedInv'
    BY <1>2, <2>1, NextQueues, NextOverlapped DEF IInv
  <2> QED
    BY <2>1, <2>2, <2>3 DEF IInv
<1> QED
  BY <1>1, <1>2

\* The inductive invariant holds in every reachable state.
THEOREM Invariance == Spec => []IInv
  BY InitIInv, NextIInv, PTL DEF Spec

LEMMA FlagsFromInvariant ==
    ASSUME IInv
    PROVE  FlagsMatchCalls
<1>1. CASE role = "connector"
  BY <1>1 DEF IInv, ConnectorInv, FlagsMatchCalls
<1>2. CASE role = "accepted"
  BY <1>2 DEF IInv, AcceptedInv, InAccept, FlagsMatchCalls
<1> QED
  BY <1>1, <1>2 DEF IInv, TypeInv

\* connectInProgress and acceptInProgress are set while a call of Connect or Accept is under
\* way and only then, on every way out of it, but after a failed CreateConnector.
\* windows/RdmaConnector.cpp, windows/RdmaListener.cpp.
THEOREM Flags == Spec => []FlagsMatchCalls
  BY Invariance, FlagsFromInvariant, PTL

LEMMA QueuesFromInvariant ==
    ASSUME IInv
    PROVE  QueuesInUse
  BY DEF IInv, QueueInv

\* No call releases the queues that another is connecting with or that a connected session
\* uses, an attempt to connect starts without queues, and the event handler meets a null
\* completion queue only in Destroy or after a start that failed.
\* windows/RdmaConnectedSession.cpp.
THEOREM Queues == Spec => []QueuesInUse
  BY Invariance, QueuesFromInvariant, PTL

LEMMA OverlappedFromInvariant ==
    ASSUME IInv
    PROVE  OverlappedOutlivesRequest
  BY DEF IInv, OverlappedInv

\* A pending request has an OVERLAPPED that exists, unless the wait for it timed out.
\* HandleHROverlapped and OverlappedWrapper, windows/RdmaCommon.h.
THEOREM Overlapped == Spec => []OverlappedOutlivesRequest
  BY Invariance, OverlappedFromInvariant, PTL

=============================================================================
