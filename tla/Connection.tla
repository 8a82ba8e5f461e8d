----------------------------- MODULE Connection -----------------------------
(***************************************************************************)
(* How a connection is made, noticed to be gone and taken down: the event  *)
(* queues of the EventManager (core/linux/EventManager.h), RdmaConnector,  *)
(* RdmaListener, and the construction, threads and destruction of          *)
(* RdmaConnectedSession, at both ends of one connection.                   *)
(*                                                                         *)
(* "conn" is the connector's session and its rdma_cm_id, "acc" the session *)
(* and id that the listener makes for the request, "listen" the id of the  *)
(* listener.  rdma_cm is external: a call on an id puts events in the      *)
(* event channel, in order for each id, delivered at any later time.       *)
(***************************************************************************)
EXTENDS Integers, Sequences, FiniteSets

CONSTANTS
    Connectors,     \* threads that call Connect on the connector
    Acceptors,      \* threads that call Accept on the listener
    NoThread,
    UserData        \* connection data that users set by SetProperty

Ends == {"conn", "acc"}
Ids  == Ends \cup {"listen"}

\* The connection handler thread of a session is named like its end
Threads == Connectors \cup Acceptors \cup Ends

\* What connection data says of its sender; "Foreign" has another protocol or version
Directions == {"Send", "Receive"}
Data       == Directions \cup {"Foreign"}

ASSUME ConnectionAssumption ==
    /\ Connectors \cap Acceptors = {}
    /\ (Connectors \cup Acceptors) \cap (Ends \cup {NoThread, "canceller"}) = {}
    /\ NoThread # "canceller"
    /\ UserData \subseteq Data

VARIABLES
    queue,      \* queue[id]: inMap (is it in connectionMap), its events, waitAborted
    session,    \* session[e]: the members of the session, and how far Destroy is
    flags,      \* everConnected, connectInProgress, acceptInProgress
    holder,     \* the thread with exclusive access to the connector, or NoThread
    pc,         \* pc[t]: where t is in its call or loop
    wait,       \* wait[t]: is t "asleep" in WaitForEvent, "awake" again, or neither
    channel,    \* channel[id]: events of id that rdma_get_cm_event has yet to return
    link        \* the state of the connection in rdma_cm

vars == <<queue, session, flags, holder, pc, wait, channel, link>>

Opposite == [Send |-> "Receive", Receive |-> "Send"]
Other(e) == CHOOSE f \in Ends : f # e
EndOf(t) == IF t \in Connectors \cup {"conn"} THEN "conn" ELSE "acc"

\* The event each wait is for, by the place of the wait
Expected == [addr        |-> "ADDR_RESOLVED",
             route       |-> "ROUTE_RESOLVED",
             connect     |-> "ESTABLISHED",
             request     |-> "CONNECT_REQUEST",
             established |-> "ESTABLISHED",
             handle      |-> "DISCONNECTED"]

Waits == DOMAIN Expected

\* "FAILED" is any other event: ADDR_ERROR, ROUTE_ERROR, UNREACHABLE, REJECTED
Event(type, data) == [type |-> type, data |-> data]
Events == [type : {Expected[w] : w \in Waits} \cup {"FAILED"}, data : Data \cup {"none"}]

GoTo(t, p) == pc' = [pc EXCEPT ![t] = p]

Post(ch, id, event) == [ch EXCEPT ![id] = Append(@, event)]

-----------------------------------------------------------------------------
(* ConnectionQueue                                                         *)

\* The id whose events t waits for
IdOf(t) == IF pc[t] = "request" THEN "listen" ELSE EndOf(t)

\* WaitForEvent does not sleep, or has slept
Ready(t) ==
    /\ pc[t] \in Waits
    /\ \/ wait[t] = "awake"
       \/ wait[t] = "no" /\ (queue[IdOf(t)].waitAborted \/ queue[IdOf(t)].events # <<>>)

\* It returns an event
Receives(t) == Ready(t) /\ ~queue[IdOf(t)].waitAborted /\ queue[IdOf(t)].events # <<>>

Received(t) == Head(queue[IdOf(t)].events)

\* It returns the event the caller waits for
Gets(t) == Receives(t) /\ Received(t).type = Expected[pc[t]]

NotAsleep(t) == wait' = [wait EXCEPT ![t] = "no"]

TakeEvent(t) ==
    /\ queue' = [queue EXCEPT ![IdOf(t)].events = Tail(@)]
    /\ NotAsleep(t)

\* OperationCancelled, InternalError after a spurious wakeup, or the wrong event
WaitFails(t) ==
    \/ Ready(t) /\ ~Receives(t) /\ NotAsleep(t) /\ UNCHANGED queue
    \/ Receives(t) /\ ~Gets(t) /\ TakeEvent(t)

TimesOut(t) == pc[t] \in Waits /\ wait[t] # "no" /\ NotAsleep(t) /\ UNCHANGED queue

Sleep(t) ==
    /\ pc[t] \in Waits /\ wait[t] = "no" /\ ~Ready(t)
    /\ wait' = [wait EXCEPT ![t] = "asleep"]
    /\ UNCHANGED <<queue, session, flags, holder, pc, channel, link>>

SpuriousWakeUp(t) ==
    /\ wait[t] = "asleep"
    /\ wait' = [wait EXCEPT ![t] = "awake"]
    /\ UNCHANGED <<queue, session, flags, holder, pc, channel, link>>

\* moreEvents.notify_one()
Notify(id) ==
    LET sleepers == {t \in Threads : wait[t] = "asleep" /\ IdOf(t) = id}
    IN  IF sleepers = {} THEN UNCHANGED wait
        ELSE \E t \in sleepers : wait' = [wait EXCEPT ![t] = "awake"]

\* CancelWaits
AbortWaits(id) ==
    /\ queue' = [queue EXCEPT ![id].waitAborted = TRUE]
    /\ Notify(id)

\* The event of an unknown id is dropped
SignalEvent(id, event) ==
    IF queue[id].inMap
    THEN queue' = [queue EXCEPT ![id].events = Append(@, event)] /\ Notify(id)
    ELSE UNCHANGED <<queue, wait>>

EventChannelThread(id) ==
    /\ channel[id] # <<>>
    /\ channel' = [channel EXCEPT ![id] = Tail(@)]
    /\ SignalEvent(id, Head(channel[id]))
    /\ UNCHANGED <<session, flags, holder, pc, link>>

-----------------------------------------------------------------------------
(* Members that both kinds of session share                                *)

NewQueue == [inMap |-> TRUE, events |-> <<>>, waitAborted |-> FALSE]
NoQueue  == [NewQueue EXCEPT !.inMap = FALSE]

Init ==
    /\ queue = [id \in Ids |-> IF id = "acc" THEN NoQueue ELSE NewQueue]
    /\ session \in [Ends ->
          [direction : {"Unknown"}, connectionData : UserData \cup {"none"},
           peerData : {"none"}, createdQp : {FALSE}, creditBuffers : {"none"},
           ackHandler : {"none"}, connected : {FALSE}, completions : {"none"},
           pollerCancelled : {FALSE}, destroy : {"no"}]]
    /\ flags = [everConnected |-> FALSE, connectInProgress |-> FALSE,
                acceptInProgress |-> FALSE]
    /\ holder = NoThread
    /\ pc = [t \in Threads |-> IF t \in Ends THEN "none" ELSE "idle"]
    /\ wait = [t \in Threads |-> "no"]
    /\ channel = [id \in Ids |-> <<>>]
    /\ link = "idle"

\* Mutant: any data of our protocol is good
ValidateProtocol(data, direction) == data \in Directions

ValidateConnectionData(data, direction) == data = Opposite[direction]

\* PreConnect up to SetupQueuePair.  Data that is set, by a user or by an earlier
\* attempt, is kept.
Prepared(e, d) ==
    [session[e] EXCEPT !.direction = d, !.connectionData = IF @ = "none" THEN d ELSE @]

\* All of PreConnect.  A sender waits for credits from now on.
PreConnected(e, d) ==
    [Prepared(e, d) EXCEPT !.createdQp = TRUE, !.creditBuffers = "live",
                           !.ackHandler = IF d = "Send" THEN "running" ELSE @]

\* creditBuffers->Abort
CreditsAborted(s) ==
    [s EXCEPT !.creditBuffers = IF @ = "none" THEN "none" ELSE "aborted"]

\* HandleDisconnect, without the transfer buffers
Disconnected(s) == [CreditsAborted(s) EXCEPT !.connected = FALSE]

-----------------------------------------------------------------------------
(* RdmaConnector                                                           *)

ConnectorIsOpen == session["conn"].destroy = "no"

\* Connect, called with the session's access.  The two tests are not one step:
\* another Connect sets both flags while its access is suspended.
Connect(t) ==
    /\ pc[t] = "idle" /\ holder = NoThread /\ ConnectorIsOpen
    /\ IF flags.everConnected
       THEN GoTo(t, "done") /\ UNCHANGED holder      \* AlreadyConnected
       ELSE GoTo(t, "test") /\ holder' = t
    /\ UNCHANGED <<queue, session, flags, wait, channel, link>>

TestInProgress(t) ==
    /\ pc[t] = "test"
    /\ IF flags.connectInProgress
       THEN GoTo(t, "done") /\ holder' = NoThread /\ UNCHANGED flags   \* InvalidOperation
       ELSE /\ GoTo(t, "setup")
            /\ flags' = [flags EXCEPT !.connectInProgress = TRUE]
            /\ UNCHANGED holder
    /\ UNCHANGED <<queue, session, wait, channel, link>>

\* Mutant: the handler thread is started together with ackHandler
SetUpStartsHandler(t, d) ==
    /\ pc[t] = "setup" /\ ~session["conn"].createdQp
    /\ session' = [session EXCEPT !["conn"] = PreConnected("conn", d)]
    /\ holder' = NoThread
    /\ channel' = Post(channel, "conn", Event("ADDR_RESOLVED", "none"))
    /\ pc' = [pc EXCEPT ![t] = "addr", !["conn"] = "handle"]
    /\ UNCHANGED <<queue, flags, wait, link>>

\* PreConnect, then rdma_resolve_addr with the access suspended.  rdma_create_qp
\* always fails on an id that has a queue pair.
SetUp(t, d) ==
    /\ pc[t] = "setup"
    /\ \/ /\ session' = [session EXCEPT !["conn"] = Prepared("conn", d)]
          /\ GoTo(t, "catch")
          /\ UNCHANGED <<holder, channel>>
       \/ /\ ~session["conn"].createdQp
          /\ session' = [session EXCEPT !["conn"] = PreConnected("conn", d)]
          /\ holder' = NoThread
          /\ \/ \E type \in {"ADDR_RESOLVED", "FAILED"} :
                   channel' = Post(channel, "conn", Event(type, "none"))
                /\ GoTo(t, "addr")
             \/ GoTo(t, "unwind") /\ UNCHANGED channel
    /\ UNCHANGED <<queue, flags, wait, link>>

\* The address is resolved: rdma_resolve_route
ResolveRoute(t) ==
    /\ pc[t] = "addr" /\ Gets(t)
    /\ TakeEvent(t)
    /\ \/ \E type \in {"ROUTE_RESOLVED", "FAILED"} :
             channel' = Post(channel, "conn", Event(type, "none"))
          /\ GoTo(t, "route")
       \/ GoTo(t, "unwind") /\ UNCHANGED channel
    /\ UNCHANGED <<session, flags, holder, link>>

\* The route is resolved: rdma_connect, whose request reaches the listener or fails
RequestConnection(t) ==
    /\ pc[t] = "route" /\ Gets(t)
    /\ TakeEvent(t)
    /\ \/ /\ queue["listen"].inMap
          /\ channel' = Post(channel, "listen",
                             Event("CONNECT_REQUEST", session["conn"].connectionData))
          /\ link' = "requested" /\ GoTo(t, "connect")
       \/ /\ channel' = Post(channel, "conn", Event("FAILED", "none"))
          /\ UNCHANGED link /\ GoTo(t, "connect")
       \/ GoTo(t, "unwind") /\ UNCHANGED <<channel, link>>
    /\ UNCHANGED <<session, flags, holder>>

ConnectionEstablished(t) ==
    /\ pc[t] = "connect" /\ Gets(t)
    /\ TakeEvent(t)
    /\ GoTo(t, IF ValidateConnectionData(Received(t).data, session["conn"].direction)
               THEN "connected" ELSE "unwind")
    /\ UNCHANGED <<session, flags, holder, channel, link>>

ConnectWaitFails(t) ==
    /\ pc[t] \in {"addr", "route", "connect"} /\ WaitFails(t)
    /\ GoTo(t, "unwind")
    /\ UNCHANGED <<session, flags, holder, channel, link>>

ConnectTimesOut(t) ==
    /\ pc[t] = "connect" /\ TimesOut(t)
    /\ GoTo(t, "unwind")
    /\ UNCHANGED <<session, flags, holder, channel, link>>

\* Mutant: the handler is started before the session counts as connected
HandlerBeforeConnected(t) ==
    /\ pc[t] = "connected"
    /\ \/ pc[EndOf(t)] = "none" /\ GoTo(EndOf(t), "handle") /\ UNCHANGED session
       \/ /\ pc[EndOf(t)] # "none" /\ GoTo(t, "start")
          /\ session' = [session EXCEPT ![EndOf(t)].connected = TRUE]
    /\ UNCHANGED <<queue, flags, holder, wait, channel, link>>

\* PostConnect of the base class
PostConnect(t) ==
    /\ pc[t] = "connected"
    /\ session' = [session EXCEPT ![EndOf(t)].connected = TRUE]
    /\ GoTo(t, "start")
    /\ UNCHANGED <<queue, flags, holder, wait, channel, link>>

\* The rest of PostConnect; then the constructor of an accepted session is done
StartThreads(t) ==
    /\ pc[t] = "start"
    /\ session' = [session EXCEPT ![EndOf(t)].completions = "running"]
    /\ pc' = [pc EXCEPT ![EndOf(t)] = "handle",
                        ![t] = IF t \in Connectors THEN "ever" ELSE "accepted"]
    /\ UNCHANGED <<queue, flags, holder, wait, channel, link>>

\* The first start fails, or the second.  Connect's catch block or Destroy follows; the
\* session stays connected.
ThreadStartFails(t) ==
    /\ pc[t] = "start"
    /\ \E handler \in {pc[EndOf(t)], "handle"} :
          pc' = [pc EXCEPT ![EndOf(t)] = handler,
                           ![t] = IF t \in Connectors THEN "unwind" ELSE "failed"]
    /\ session' = IF t \in Connectors THEN session
                  ELSE [session EXCEPT !["acc"].destroy = "released"]
    /\ UNCHANGED <<queue, flags, holder, wait, channel, link>>

SetEverConnected(t) ==
    /\ pc[t] = "ever"
    /\ flags' = [flags EXCEPT !.everConnected = TRUE]
    /\ GoTo(t, "clear")
    /\ UNCHANGED <<queue, session, holder, wait, channel, link>>

ClearInProgress(t) ==
    /\ pc[t] = "clear"
    /\ flags' = [flags EXCEPT !.connectInProgress = FALSE]
    /\ GoTo(t, "resume")
    /\ UNCHANGED <<queue, session, holder, wait, channel, link>>

\* The access is resumed and the call returns, or the catch block begins
Resume(t) ==
    /\ pc[t] \in {"resume", "unwind"} /\ holder = NoThread
    /\ \/ pc[t] = "resume" /\ GoTo(t, "done") /\ UNCHANGED holder
       \/ pc[t] = "unwind" /\ GoTo(t, "catch") /\ holder' = t
    /\ UNCHANGED <<queue, session, flags, wait, channel, link>>

\* Connect's catch block: Cancel, up to the join of ackHandler
CancelConnect(t) ==
    /\ pc[t] = "catch"
    /\ AbortWaits("conn")
    /\ session' = [session EXCEPT !["conn"] = CreditsAborted(@)]
    /\ GoTo(t, "join")
    /\ UNCHANGED <<flags, holder, channel, link>>

\* ackHandler.join(), DestroyQP
JoinAckHandler(t) ==
    /\ pc[t] = "join" /\ session["conn"].ackHandler # "running"
    /\ session' = [session EXCEPT !["conn"].ackHandler = "none",
                                  !["conn"].createdQp = FALSE]
    /\ flags' = [flags EXCEPT !.connectInProgress = FALSE]
    /\ holder' = NoThread
    /\ GoTo(t, "done")
    /\ UNCHANGED <<queue, wait, channel, link>>

-----------------------------------------------------------------------------
(* RdmaListener                                                            *)

\* Accept, called with the listener's access, up to the suspension.  (Bound: one session
\* is accepted; it has its direction from its constructor on.)
Accept(t) ==
    /\ pc[t] = "idle" /\ queue["listen"].inMap
    /\ flags.acceptInProgress \/ session["acc"].direction = "Unknown"
    /\ IF flags.acceptInProgress
       THEN GoTo(t, "done") /\ UNCHANGED flags       \* InvalidOperation
       ELSE GoTo(t, "request") /\ flags' = [flags EXCEPT !.acceptInProgress = TRUE]
    /\ UNCHANGED <<queue, session, holder, wait, channel, link>>

\* A request: the constructor of the accepted session up to PreConnect
Construct(t, d) ==
    /\ pc[t] = "request" /\ Gets(t)
    /\ NotAsleep(t)
    /\ queue' = [queue EXCEPT !["listen"].events = Tail(@), !["acc"] = NewQueue]
    /\ \/ /\ session' = [session EXCEPT
                !["acc"] = [PreConnected("acc", d) EXCEPT !.peerData = Received(t).data]]
          /\ GoTo(t, "validate")
       \/ /\ session' = [session EXCEPT
                !["acc"] = [Prepared("acc", d) EXCEPT !.destroy = "released"]]
          /\ GoTo(t, "failed")
    /\ UNCHANGED <<flags, holder, channel, link>>

\* Wrong data is rejected, or rdma_accept.  The answer may find nobody there.
Answer(t) ==
    LET valid == ValidateConnectionData(session["acc"].peerData, session["acc"].direction)
    IN  /\ pc[t] = "validate"
        /\ \/ /\ valid /\ link = "requested"
              /\ channel' = [channel EXCEPT
                    !["conn"] = Append(@, Event("ESTABLISHED", session["acc"].connectionData)),
                    !["acc"]  = Append(@, Event("ESTABLISHED", "none"))]
              /\ link' = "established"
              /\ GoTo(t, "established") /\ UNCHANGED session
           \/ /\ valid /\ link = "down"
              /\ GoTo(t, "established") /\ UNCHANGED <<session, channel, link>>
           \/ /\ ~valid
              /\ channel' = Post(channel, "conn", Event("FAILED", "none"))
              /\ link' = "down"
              /\ session' = [session EXCEPT !["acc"].destroy = "released"]
              /\ GoTo(t, "failed")
           \/ /\ valid                               \* rdma_accept fails
              /\ session' = [session EXCEPT !["acc"].destroy = "released"]
              /\ GoTo(t, "failed") /\ UNCHANGED <<channel, link>>
        /\ UNCHANGED <<queue, flags, holder, wait>>

AcceptEstablished(t) ==
    /\ pc[t] = "established" /\ Gets(t)
    /\ TakeEvent(t)
    /\ GoTo(t, "connected")
    /\ UNCHANGED <<session, flags, holder, channel, link>>

\* A failed wait ends the Accept, or leads the constructor to Destroy
AcceptWaitFailed(t) ==
    \/ /\ pc[t] = "request"
       /\ GoTo(t, "done")
       /\ flags' = [flags EXCEPT !.acceptInProgress = FALSE]
       /\ UNCHANGED session
    \/ /\ pc[t] = "established"
       /\ GoTo(t, "failed")
       /\ session' = [session EXCEPT !["acc"].destroy = "released"]
       /\ UNCHANGED flags

AcceptWaitFails(t) ==
    WaitFails(t) /\ AcceptWaitFailed(t) /\ UNCHANGED <<holder, channel, link>>

\* Mutant: the wait for ESTABLISHED has no timeout
NeverTimesOut(t) ==
    /\ pc[t] = "request" /\ TimesOut(t)
    /\ AcceptWaitFailed(t) /\ UNCHANGED <<holder, channel, link>>

\* The time the user gave, or one second for ESTABLISHED
AcceptTimesOut(t) ==
    TimesOut(t) /\ AcceptWaitFailed(t) /\ UNCHANGED <<holder, channel, link>>

\* Accept returns the session, or throws once the session is destroyed
AcceptReturns(t) ==
    /\ \/ pc[t] = "accepted"
       \/ pc[t] = "failed" /\ session["acc"].destroy = "gone"
    /\ GoTo(t, "done")
    /\ flags' = [flags EXCEPT !.acceptInProgress = FALSE]
    /\ UNCHANGED <<queue, session, holder, wait, channel, link>>

\* AbortSession or CloseSession of the listener, while a thread waits for a request.
\* (At another time it only makes later Accepts fail, and is left out.)
CancelListener ==
    /\ \E t \in Acceptors : pc[t] = "request"
    /\ ~queue["listen"].waitAborted
    /\ AbortWaits("listen")
    /\ UNCHANGED <<session, flags, holder, pc, channel, link>>

\* ~RdmaListener, once no call has a reference
DestroyListener ==
    /\ queue["listen"].inMap /\ queue["listen"].waitAborted
    /\ \A t \in Acceptors : pc[t] \in {"idle", "done"}
    /\ queue' = [queue EXCEPT !["listen"] = NoQueue]
    /\ channel' = [channel EXCEPT !["listen"] = <<>>]
    /\ UNCHANGED <<session, flags, holder, pc, wait, link>>

-----------------------------------------------------------------------------
(* The threads of a session                                                *)

\* ConnectionHandlerThread
HandleEvent(e) ==
    /\ pc[e] = "handle" /\ Receives(e)
    /\ TakeEvent(e)
    /\ session' = [session EXCEPT ![e] = IF Gets(e) THEN Disconnected(@) ELSE @]
    /\ UNCHANGED <<flags, holder, pc, channel, link>>

\* It ends when it is cancelled, and on a spurious wakeup by assert(0)
HandlerEnds(e) ==
    /\ pc[e] = "handle" /\ Ready(e) /\ ~Receives(e)
    /\ NotAsleep(e)
    /\ GoTo(e, IF queue[e].waitAborted THEN "ended" ELSE "crashed")
    /\ UNCHANGED <<queue, session, flags, holder, channel, link>>

\* AckHandlerThread: its wait for credits throws once the queue is aborted
AckHandlerEnds(e) ==
    /\ session[e].ackHandler = "running" /\ session[e].creditBuffers = "aborted"
    /\ session' = [session EXCEPT ![e].ackHandler = "ended"]
    /\ UNCHANGED <<queue, flags, holder, pc, wait, channel, link>>

\* SendReceiveHandlerThread, when its poll is cancelled.  (It may end by itself
\* before that, and is then only joined.)
CompletionsCancelled(e) ==
    /\ session[e].completions = "running" /\ session[e].pollerCancelled
    /\ session' = [session EXCEPT ![e].completions = "ended"]
    /\ UNCHANGED <<queue, flags, holder, pc, wait, channel, link>>

-----------------------------------------------------------------------------
(* AbortSession, CloseSession and Destroy                                  *)

DestroyGoesTo(e, d, s) == session' = [session EXCEPT ![e] = [s EXCEPT !.destroy = d]]

\* Both cancel a session with its access: the connector as
\* above, an accepted session only its buffers
CancelSession(e, d) ==
    /\ session[e].destroy = "no"
    /\ DestroyGoesTo(e, d, CreditsAborted(session[e]))
    /\ \/ /\ e = "conn" /\ holder = NoThread
          /\ AbortWaits("conn")
          /\ holder' = "canceller"
       \/ /\ e = "acc" /\ pc[e] # "none"
          /\ \A t \in Acceptors : pc[t] \in {"idle", "request", "done"}
          /\ UNCHANGED <<queue, wait, holder>>
    /\ UNCHANGED <<flags, pc, channel, link>>

\* (One that would change nothing is left out.)
AbortSession(e) ==
    /\ session[e].creditBuffers = "live" \/ (e = "conn" /\ ~queue[e].waitAborted)
    /\ CancelSession(e, "aborting")

CloseSession(e) == CancelSession(e, "closing")

\* They join ackHandler, and CloseSession goes on to destroy the session
CancelJoins(e) ==
    /\ session[e].destroy \in {"aborting", "closing"} /\ session[e].ackHandler # "running"
    /\ DestroyGoesTo(e, IF session[e].destroy = "aborting" THEN "no" ELSE "released",
                     [session[e] EXCEPT !.ackHandler = "none"])
    /\ holder' = IF e = "conn" THEN NoThread ELSE holder
    /\ UNCHANGED <<queue, flags, pc, wait, channel, link>>

\* rdma_disconnect, as the other end sees it
rdma_disconnect(e) ==
    CASE link = "established" ->
            /\ channel' = [channel EXCEPT !["conn"] = Append(@, Event("DISCONNECTED", "none")),
                                          !["acc"]  = Append(@, Event("DISCONNECTED", "none"))]
            /\ link' = "down"
      [] link = "requested" ->
            /\ channel' = Post(channel, Other(e), Event("FAILED", "none"))
            /\ link' = "down"
      [] OTHER -> UNCHANGED <<channel, link>>

\* Mutant: the poll is not cancelled
DisconnectOnly(e) ==
    /\ session[e].destroy = "released"
    /\ e = "conn" => \A t \in Connectors : pc[t] \in {"idle", "done"}
    /\ rdma_disconnect(e)
    /\ DestroyGoesTo(e, "disconnected", session[e])
    /\ UNCHANGED <<queue, flags, holder, pc, wait>>

\* Destroy, in the destructor or the constructor's catch block
Disconnect(e) ==
    /\ session[e].destroy = "released"
    /\ e = "conn" => \A t \in Connectors : pc[t] \in {"idle", "done"}
    /\ rdma_disconnect(e)
    /\ DestroyGoesTo(e, "disconnected", [session[e] EXCEPT !.pollerCancelled = TRUE])
    /\ UNCHANGED <<queue, flags, holder, pc, wait>>

\* The completion thread is joined and the connection handler cancelled
JoinCompletions(e) ==
    /\ session[e].destroy = "disconnected" /\ session[e].completions # "running"
    /\ DestroyGoesTo(e, "aborted", [session[e] EXCEPT !.completions = "none"])
    /\ AbortWaits(e)
    /\ UNCHANGED <<flags, holder, pc, channel, link>>

HandlerIsOver(e) == pc[e] \in {"none", "ended", "crashed"}

\* The handler is joined, and the queue pair, the queue and the id are destroyed
JoinHandler(e) ==
    /\ session[e].destroy = "aborted" /\ HandlerIsOver(e)
    /\ DestroyGoesTo(e, "idDestroyed", [Disconnected(session[e]) EXCEPT !.createdQp = FALSE])
    /\ queue' = [queue EXCEPT ![e] = NoQueue]
    /\ channel' = [channel EXCEPT ![e] = <<>>]
    /\ UNCHANGED <<flags, holder, pc, wait, link>>

\* Mutant: ~RdmaConnectedSessionBase does not cancel
BaseJoinsNothing(e) ==
    /\ session[e].destroy = "idDestroyed"
    /\ DestroyGoesTo(e, "gone", session[e])
    /\ UNCHANGED <<queue, flags, holder, pc, wait, channel, link>>

\* ~RdmaConnectedSessionBase
DestroyBase(e) ==
    /\ session[e].destroy = "idDestroyed" /\ session[e].ackHandler # "running"
    /\ DestroyGoesTo(e, "gone", [CreditsAborted(session[e]) EXCEPT !.ackHandler = "none"])
    /\ UNCHANGED <<queue, flags, holder, pc, wait, channel, link>>

-----------------------------------------------------------------------------
(* The steps a thread takes once its call has begun *)
ConnectStep(t) ==
    \/ Sleep(t) \/ TestInProgress(t) \/ (\E d \in Directions : SetUp(t, d))
    \/ ResolveRoute(t) \/ RequestConnection(t) \/ ConnectionEstablished(t)
    \/ ConnectWaitFails(t) \/ PostConnect(t) \/ StartThreads(t) \/ ThreadStartFails(t)
    \/ SetEverConnected(t) \/ ClearInProgress(t) \/ Resume(t)
    \/ CancelConnect(t) \/ JoinAckHandler(t)

AcceptStep(t) ==
    \/ Sleep(t) \/ (\E d \in Directions : Construct(t, d)) \/ Answer(t)
    \/ AcceptEstablished(t) \/ AcceptWaitFails(t)
    \/ pc[t] = "established" /\ AcceptTimesOut(t)
    \/ PostConnect(t) \/ StartThreads(t) \/ ThreadStartFails(t) \/ AcceptReturns(t)

HandlerStep(e) == Sleep(e) \/ HandleEvent(e) \/ HandlerEnds(e)

DestroyStep(e) ==
    CancelJoins(e) \/ Disconnect(e) \/ JoinCompletions(e) \/ JoinHandler(e) \/ DestroyBase(e)

Progress ==
    \/ \E t \in Connectors : ConnectStep(t)
    \/ \E t \in Acceptors : AcceptStep(t)
    \/ \E e \in Ends : \/ HandlerStep(e) \/ AckHandlerEnds(e)
                       \/ CompletionsCancelled(e) \/ DestroyStep(e)
    \/ \E id \in Ids : EventChannelThread(id)

Next ==
    \/ Progress
    \/ \E t \in Connectors : Connect(t) \/ ConnectTimesOut(t)
    \/ \E t \in Acceptors : Accept(t) \/ (pc[t] = "request" /\ AcceptTimesOut(t))
    \/ \E e \in Ends : AbortSession(e) \/ CloseSession(e)
    \/ CancelListener \/ DestroyListener
    \/ \E t \in Threads : SpuriousWakeUp(t)

Spec == Init /\ [][Next]_vars

\* Threads that run go on running, rdma_cm delivers the events it has, and the wait
\* for ESTABLISHED does time out.  No call has to be made, no other wait has to time
\* out, and nothing has to wake up spuriously.  (Weak fairness of all steps together
\* is less than of each thread; it is enough because calls are finitely many.)
Fairness == WF_vars(Progress)

FairSpec == Spec /\ Fairness

-----------------------------------------------------------------------------
(* Properties                                                              *)

\* At most one thread waits for the events of a connection, which is what
\* notify_one and the removal of events rely on: neither two Connects or Accepts,
\* nor a Connect and the handler thread that it or an earlier one starts, wait for the
\* same id ("There should only ever be one thread waiting on a specific connection",
\* EventManager.h).  Where the waits are aborted nobody begins to sleep any more: there
\* a second Connect may meet the handler of one that failed at its last thread.
OneWaiter ==
    \A id \in Ids :
        \/ queue[id].waitAborted
        \/ Cardinality({t \in Threads : pc[t] \in Waits /\ IdOf(t) = id}) <= 1

\* A session outlives what uses it.  Whoever asks the EventManager for the queue of an
\* id finds it (the assertion in GetConnectionQueue), although sessions are destroyed
\* while other threads run; and a destroyed session has no running thread: Destroy and
\* the base destructor join them all, also when the constructor fails half way.
SessionOutlivesThreads ==
    /\ \A t \in Threads : pc[t] \in Waits => queue[IdOf(t)].inMap
    /\ \A t \in Connectors : pc[t] = "catch" => queue["conn"].inMap
    /\ \A e \in Ends : session[e].destroy = "disconnected" => queue[e].inMap
    /\ \A e \in Ends :
        session[e].destroy = "gone" =>
            /\ HandlerIsOver(e)
            /\ session[e].completions # "running"
            /\ session[e].ackHandler # "running"

\* An end becomes connected only to an end whose data says the opposite direction,
\* whatever data the users set.
ConnectsToCounterpart ==
    [][\A e \in Ends :
          session'[e].connected /\ ~session[e].connected =>
              session[Other(e)].connectionData = Opposite[session[e].direction]]_vars

\* PreConnect makes a queue pair only where there is none (the assertion in
\* SetupQueuePair).
NoQueuePairYet ==
    \A t \in Connectors : pc[t] = "setup" => ~session["conn"].createdQp

\* Calls end: a Connect that is in progress when the session is cancelled, wherever it
\* is; and an Accept that has taken a request, although the other end may be gone and
\* nobody cancels.
CallsEnd ==
    LET connecting   == \E t \in Connectors : pc[t] \notin {"idle", "done"}
        constructing == \E t \in Acceptors : pc[t] \notin {"idle", "request", "done"}
    IN  /\ queue["conn"].waitAborted /\ connecting ~> ~connecting
        /\ constructing ~> ~constructing

\* When the other end disconnects, a connected session is told, unless it was
\* cancelled, or its handler died from a spurious wakeup: DISCONNECTED may come
\* before the handler thread exists.
DisconnectIsNoticed ==
    LET unaware == \E e \in Ends : /\ session[e].connected /\ link = "down"
                                  /\ ~queue[e].waitAborted /\ pc[e] # "crashed"
    IN  unaware ~> ~unaware

\* A session that is closed, or whose constructor fails, is destroyed in the end:
\* every thread that Destroy joins does end.
DestroyEnds ==
    LET destroying == \E e \in Ends : session[e].destroy \notin {"no", "aborting", "gone"}
    IN  destroying ~> ~destroying

=============================================================================
