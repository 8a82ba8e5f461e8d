------------------------------ MODULE ApiCalls ------------------------------
(***************************************************************************)
(* The C API as its client sees it (core/api/rdma_api_c.cpp): which code a *)
(* call returns, what it leaves in the session, in the caller's output and *)
(* in the last error of its thread (core/api/errorhandling.cpp).           *)
(*                                                                         *)
(* A call holds exclusive access to its session, so it is one step; what   *)
(* happens while access is suspended is the subject of Connection,         *)
(* BufferQueue and SessionManager.  AbortSession and CloseSession take two *)
(* steps: between them they run the client's completion callbacks on the   *)
(* same thread, and these may call the API again.                          *)
(***************************************************************************)
EXTENDS Addresses, FiniteSets

CONSTANTS
    Threads,        \* threads of the client
    OsErrors,       \* bound: the system errors passed to easyrdma_testsetLastOsError
    Privileges,     \* bound: whether the user may have real-time priorities
    Interfaces,     \* external: the interfaces of the machine
    Strings,        \* the address strings that the client passes
    MaxCreated,     \* bound: handles up to which sessions are created
    MaxSessions     \* bound: handles up to which connections are accepted

ASSUME ApiCallsAssumption ==
    /\ IsFiniteSet(Threads)
    /\ {MaxCreated, MaxSessions} \subseteq Nat

\* The build; whether IsRealtimeKernel, and then whether the user may have its priorities.
Platforms == {[linux |-> FALSE, realtime |-> FALSE, privileged |-> FALSE],
              [linux |-> TRUE, realtime |-> FALSE, privileged |-> FALSE]}
             \cup [linux : {TRUE}, realtime : {TRUE}, privileged : Privileges]

VARIABLES
    platform,       \* one of Platforms
    sessions,       \* sessions[h]: the session registered under handle h
    nextSession,    \* SessionManager::nextSession
    inCallbacks,    \* inCallbacks[t]: t is in the callbacks of a call to abort or close
    lastError,      \* lastError[t]: the thread_local lastRdmaError, if allocated
    allocated,      \* _allocatedLastRdmaErrors
    output,         \* the strings that the last call gave its caller, with their address
    \* history
    returned,       \* returned[t]: the error of the last call that returned in t
    answer          \* answer[t]: what GetLastError has said since then

vars == <<platform, sessions, nextSession, inCallbacks, lastError, allocated,
          output, returned, answer>>

table == <<sessions, nextSession>>
error == <<lastError, allocated, returned, answer>>

-----------------------------------------------------------------------------
(* Error codes                                                             *)

Codes == {"Success", "Timeout", "InvalidSession", "InvalidArgument", "InvalidOperation",
          "NoBuffersQueued", "OperatingSystemError", "InvalidSize", "OutOfMemory",
          "InternalError", "InvalidAddress", "OperationCancelled", "InvalidProperty",
          "SessionNotConfigured", "NotConnected", "UnableToConnect", "AlreadyConfigured",
          "Disconnected", "BufferWaitInProgress", "AlreadyConnected", "InvalidDirection",
          "IncompatibleProtocol", "IncompatibleVersion", "ConnectionRefused",
          "ReadOnlyProperty", "WriteOnlyProperty", "OperationNotSupported", "AddressInUse",
          "SendTooLargeForRecvBuffer"}

\* errorTranslations of the two builds: system errors of one meaning under one name.
LinuxErrors ==
    [EINVAL |-> "InvalidArgument", ETIMEDOUT |-> "Timeout", ENOMEM |-> "OutOfMemory",
     ECANCELED |-> "OperationCancelled", ECONNREFUSED |-> "UnableToConnect",
     ECONNABORTED |-> "Disconnected", ENETUNREACH |-> "UnableToConnect",
     EADDRNOTAVAIL |-> "InvalidAddress", EADDRINUSE |-> "AddressInUse"]

WindowsErrors ==
    [ND_TIMEOUT |-> "Timeout", ND_IO_TIMEOUT |-> "Timeout",
     ND_INVALID_PARAMETER |-> "InvalidArgument", ND_NO_MEMORY |-> "OutOfMemory",
     ND_INTERNAL_ERROR |-> "InternalError", ND_CANCELED |-> "OperationCancelled",
     ND_INVALID_ADDRESS |-> "InvalidAddress", ND_CONNECTION_REFUSED |-> "ConnectionRefused",
     ND_CONNECTION_INVALID |-> "NotConnected", ND_CONNECTION_ABORTED |-> "Disconnected",
     ND_NETWORK_UNREACHABLE |-> "UnableToConnect",
     ND_CONNECTION_ACTIVE |-> "AlreadyConnected", ND_SHARING_VIOLATION |-> "AddressInUse"]

OSErrorToRdmaError(os) ==
    LET errorTranslations == IF platform.linux THEN LinuxErrors ELSE WindowsErrors
    IN  IF os \in DOMAIN errorTranslations THEN errorTranslations[os]
        ELSE "OperatingSystemError"

\* RdmaError: the code, and 1 for a subcode that is not zero.
NoError    == [code |-> "Success", sub |-> 0]
Error(c)   == [code |-> c, sub |-> 0]
OsError(c) == [code |-> c, sub |-> 1]

\* RdmaError::Assign keeps the first error
Assign(e, other) == IF e.code = "Success" THEN other ELSE e

\* Mutant: without the Clear
PopulateWithoutClear(old, status) ==
    IF status.code # "Success" THEN Assign(old, status) ELSE old

\* PopulateLastRdmaError: cleared, then assigned.  (ClearLastRdmaError is for tests.)
PopulateLastRdmaError(old, status) ==
    IF status.code # "Success" THEN Assign(NoError, status) ELSE NoError

\* Units of length of GetErrorDescription's text: the string of the code, the subcode if
\* there is one, the location.
DescriptionSize(e) == IF e.code = "Success" THEN 0 ELSE 2 + e.sub

-----------------------------------------------------------------------------
(* Sessions                                                                *)

Unallocated == [code |-> "none", sub |-> 0]

\* Mutant: autoQueueRx starts as true
NewSessionAutoQueues(kind, local) ==
    [kind |-> kind, open |-> TRUE, local |-> local, remote |-> NoAddress,
     direction |-> "Unknown", connected |-> FALSE, everConnected |-> FALSE,
     transferBuffers |-> "none", autoQueueRx |-> TRUE, autoQueued |-> FALSE,
     usePolling |-> FALSE, handler |-> "none", failed |-> {}, noted |-> {}]

NewSession(kind, local) ==
    [kind |-> kind, open |-> TRUE, local |-> local, remote |-> NoAddress,
     direction |-> "Unknown", connected |-> FALSE, everConnected |-> FALSE,
     transferBuffers |-> "none", autoQueueRx |-> FALSE, autoQueued |-> FALSE,
     usePolling |-> FALSE,
     handler |-> "none",            \* where transferHandler is
     failed |-> {},                 \* history: the configurations that reported an error
     noted |-> {}]                  \* history: configured while not connected, queue broken

ClosedSession == [NewSession("none", NoAddress) EXCEPT !.open = FALSE]

Handles == DOMAIN sessions

Open == {h \in Handles : sessions[h].open}

\* The queue pair and its completion channels are made by Connect and by the constructor
\* of an accepted session; a Connect that fails destroys them.
NoQueuePair(s) == ~s.everConnected

\* external: the system binds an address that an interface with an RDMA device has.
MayBind(a) == \E i \in Interfaces : a.host \in i.hosts /\ Bindable(a, i)

\* external: a link-local address is reached through the interface that its scope id
\* names, if there is an RDMA device behind it.
Reachable(a) == IsIpV6LinkLocal(a) => \E i \in Interfaces : i.rdma /\ i.index = a.scope

Init ==
    /\ platform \in Platforms
    /\ sessions = <<>> /\ nextSession = 1
    /\ inCallbacks = [t \in Threads |-> FALSE]
    /\ lastError = [t \in Threads |-> Unallocated] /\ allocated = 0
    /\ output = {}
    /\ returned = [t \in Threads |-> NoError]
    /\ answer = [t \in Threads |-> NoError]

\* The thread_local of a thread is constructed at its first use.
LastErrorOf(t) == IF lastError[t] = Unallocated THEN NoError ELSE lastError[t]

Touch(t) ==
    allocated' = IF lastError[t] = Unallocated THEN allocated + 1 ELSE allocated

\* UpdateLastError and the return of the call.
Returns(t, status) ==
    /\ lastError' = [lastError EXCEPT ![t] = PopulateLastRdmaError(LastErrorOf(t), status)]
    /\ returned' = [returned EXCEPT ![t] = status]
    /\ answer' = [answer EXCEPT ![t] = status]
    /\ Touch(t)

\* A call that gives nothing but its status.
Fails(t, status) ==
    /\ Returns(t, status)
    /\ output' = {}
    /\ UNCHANGED <<platform, table, inCallbacks>>

Succeeds(t) == Fails(t, NoError)

-----------------------------------------------------------------------------
(* Calls without a session                                                 *)

\* GetLastError and GetLastErrorString do not update the last error.
GetLastError(t) ==
    /\ lastError' = [lastError EXCEPT ![t] = LastErrorOf(t)]
    /\ answer' = [answer EXCEPT ![t] = LastErrorOf(t)]
    /\ Touch(t)
    /\ output' = {}
    /\ UNCHANGED <<platform, table, inCallbacks, returned>>

\* The text is given only to a buffer with more than one byte to spare.
GetLastErrorString(t, bufferSize) ==
    /\ lastError' = [lastError EXCEPT ![t] = LastErrorOf(t)]
    /\ answer' = IF bufferSize > DescriptionSize(LastErrorOf(t)) + 1
                 THEN [answer EXCEPT ![t] = LastErrorOf(t)] ELSE answer
    /\ Touch(t)
    /\ output' = {}
    /\ UNCHANGED <<platform, table, inCallbacks, returned>>

testsetLastOsError(t) ==
    \E os \in OsErrors : Fails(t, OsError(OSErrorToRdmaError(os)))

\* What is found for a family; the machine's interfaces do not change.
Found == [filter \in {0, 4, 6} |-> [linux \in BOOLEAN |->
             {[str |-> s, address |-> ParseAddress(s, 0).address, listed |-> TRUE] :
                 s \in EnumerateInterfaces(Interfaces, filter, linux)}]]

\* numAddresses is null: InvalidArgument; addresses is null: only the count is told;
\* otherwise as many as fit in the caller's array.
Enumerate(t, filter, capacity) ==
    \/ /\ RdmaAddressFamilyToNative(filter) = "InvalidArgument"
       /\ Fails(t, Error("InvalidArgument"))
    \/ /\ RdmaAddressFamilyToNative(filter) # "InvalidArgument"
       /\ LET found == Found[filter][platform.linux]
              n     == IF capacity > Cardinality(found) THEN Cardinality(found) ELSE capacity
          IN  \E copied \in kSubset(n, found) : output' = copied
       /\ Returns(t, NoError)
       /\ UNCHANGED <<platform, table, inCallbacks>>

EnumerateFails(t) ==
    /\ \E e \in {Error("InvalidArgument"), OsError("OperatingSystemError"),
                 Error("InternalError")} : Fails(t, e)

\* external: the system chooses the port.
Bound(a) == [a EXCEPT !.port = IF @ = 0 THEN 1 ELSE @]

\* external: an address that the connection manager is asked for (rdma_get_local_addr,
\* rdma_get_peer_addr) comes with its scope id or without.
Reported(a) == {a, SetScopeId(a, 0)}

\* external: who may connect to a, and how this machine sees the address: of a's family,
\* and link-local, behind an interface with an RDMA device, if a is.
Peers(a) ==
    UNION {Reported([family |-> FamilyOf(host), host |-> host, port |-> 1,
                     scope |-> IF host \in LinkLocalHosts THEN i.index ELSE 0]) :
              host \in {host \in V4Hosts \cup V6Hosts :
                           /\ FamilyOf(host) = a.family
                           /\ host \in LinkLocalHosts <=> a.host \in LinkLocalHosts},
              i \in {i \in Interfaces : i.rdma}}

\* SessionManager::RegisterSession: under the next handle
RegisterSession(s) ==
    /\ sessions' = [h \in Handles \cup {nextSession} |->
                       IF h = nextSession THEN s ELSE sessions[h]]
    /\ nextSession' = nextSession + 1

CreateSession(t, kind, str, port) ==
    /\ nextSession <= MaxCreated
    /\ LET p == ParseAddress(str, port)
       IN  \/ p.error # "Success" /\ Fails(t, Error(p.error))
           \/ p.error = "Success" /\ ~MayBind(p.address)
              /\ Fails(t, OsError("InvalidAddress"))
           \/ /\ p.error = "Success" /\ MayBind(p.address)
              /\ \E local \in Reported(Bound(p.address)) :
                    RegisterSession(NewSession(kind, local))
              /\ Returns(t, NoError) /\ output' = {}
              /\ UNCHANGED <<platform, inCallbacks>>

\* session is null, no device, no file descriptors (FdPoller throws the negated errno)
CreateSessionFails(t) ==
    /\ \E e \in {Error("InvalidArgument"), OsError("OperatingSystemError"), Error("errno")} :
            Fails(t, e)

-----------------------------------------------------------------------------
(* Calls on a session                                                      *)

\* GetSession finds no session for the handle: 0, closed, or never given.
NoSession(t, h) ==
    /\ h \notin Open
    /\ Fails(t, Error("InvalidSession"))

Set(h, s) == sessions' = [sessions EXCEPT ![h] = s]

Update(t, h, s, status) ==
    /\ Set(h, s) /\ Returns(t, status) /\ output' = {}
    /\ UNCHANGED <<platform, nextSession, inCallbacks>>

\* CloseSession(0) succeeds.
CloseNothing(t) == Succeeds(t)

\* Callbacks run in a call at the top only: one level of calls in callbacks is enough.
RunCallbacks(t) ==
    /\ ~inCallbacks[t]
    /\ inCallbacks' = [inCallbacks EXCEPT ![t] = TRUE]
    /\ output' = {}

CallbacksDone(t) ==
    /\ inCallbacks[t]
    /\ inCallbacks' = [inCallbacks EXCEPT ![t] = FALSE]
    /\ Returns(t, NoError)
    /\ output' = {}
    /\ UNCHANGED <<platform, table>>

\* DestroySession: out of the table, then Cancel, which runs the callbacks, and Destroy,
\* which joins the handler thread: where the first step of that thread is a crash, the
\* close does not come to its end.
CloseSession(t, h) ==
    /\ h \in Open /\ ~(sessions[h].handler = "started" /\ NoQueuePair(sessions[h]))
    /\ Set(h, ClosedSession)
    /\ RunCallbacks(t)
    /\ UNCHANGED <<platform, nextSession, error>>

AbortSession(t, h) ==
    /\ h \in Open
    /\ RunCallbacks(t)
    /\ UNCHANGED <<platform, table, error>>

\* remoteAddress is null, the string is no address, the session is no connector, it was
\* connected before, or the connection fails.
Connect(t, h, direction, str) ==
    /\ h \in Open
    /\ LET p == ParseAddress(str, 1)
           s == sessions[h]
       IN  \/ p.error # "Success" /\ Fails(t, Error(p.error))
           \/ p.error = "Success" /\ s.kind # "connector" /\ Fails(t, Error("InvalidOperation"))
           \/ p.error = "Success" /\ s.kind = "connector" /\ s.everConnected
              /\ Fails(t, Error("AlreadyConnected"))
           \/ /\ p.error = "Success" /\ s.kind = "connector" /\ ~s.everConnected
              /\ \/ Update(t, h, [s EXCEPT !.direction = direction], OsError("UnableToConnect"))
                 \/ \E remote \in Reported(p.address) :
                       /\ Reachable(p.address)
                       /\ Update(t, h, [s EXCEPT !.direction = direction, !.connected = TRUE,
                                                 !.everConnected = TRUE, !.remote = remote],
                                 NoError)

\* connectedSession is null, the session is no listener, the wait or the new session fails.
Accept(t, h, direction) ==
    /\ h \in Open
    /\ \/ sessions[h].kind # "listener" /\ Fails(t, Error("InvalidOperation"))
       \/ sessions[h].kind = "listener"
          /\ \E c \in {"Timeout", "OperationCancelled", "InvalidDirection"} : Fails(t, Error(c))
       \/ /\ sessions[h].kind = "listener" /\ nextSession <= MaxSessions
          /\ \E local \in Reported(sessions[h].local), remote \in Peers(sessions[h].local) :
                RegisterSession([NewSession("accepted", local) EXCEPT
                                    !.direction = direction, !.connected = TRUE,
                                    !.everConnected = TRUE, !.remote = remote])
          /\ Returns(t, NoError) /\ output' = {}
          /\ UNCHANGED <<platform, inCallbacks>>

\* external: the peer leaves; HandleDisconnect needs no access to the session.
PeerDisconnects(h) ==
    /\ h \in Open /\ sessions[h].connected
    /\ Set(h, [sessions[h] EXCEPT !.connected = FALSE])
    /\ output' = {}
    /\ UNCHANGED <<platform, nextSession, inCallbacks, error>>

\* GetLocalAddress and GetRemoteAddress; a listener has no remote address.
GetAddress(t, h, remote) ==
    /\ h \in Open
    /\ LET s == sessions[h]
           a == IF remote THEN s.remote ELSE s.local
       IN  output' = {[str |-> SockAddrToIpAddrString(a, platform.linux), address |-> a,
                       listed |-> FALSE]}
    /\ Returns(t, NoError)
    /\ UNCHANGED <<platform, table, inCallbacks>>

-----------------------------------------------------------------------------
(* Configuration and properties                                            *)

\* CreatePriorityThread: SCHED_FIFO is for the privileged, and any thread may be refused.
GetThreadAttrs(priority) ==
    IF platform.linux /\ priority \in {"High", "Higher"} THEN "FIFO" ELSE "OTHER"

ThreadStarts(priority) ==
    IF GetThreadAttrs(priority) = "FIFO" /\ ~platform.privileged THEN {FALSE} ELSE BOOLEAN

\* The handler that PostConfigure starts: none for a receiver that polls, and none on
\* Windows, where the thread of PostConnect serves all completions.
HandlerPriority(s) ==
    IF s.direction = "Receive" /\ platform.realtime THEN "High" ELSE "Normal"

NeedsHandler(s) == platform.linux /\ ~(s.direction = "Receive" /\ s.usePolling)

\* The thread takes the completions of the direction that the session has now: of the
\* sends, while the direction is Unknown, before Connect.
StartHandler(s) ==
    [s EXCEPT !.handler = "started",
              !.noted = IF s.connected THEN @ ELSE @ \cup {"unconnected"}]

\* PostConfigure of the platform, then of the base class: if the thread is not started,
\* the exception leaves the session configured.
PostConfigure(t, h, s, kind) ==
    LET queued(c) == [c EXCEPT !.autoQueued = (s.direction = "Receive" /\ s.autoQueueRx)]
    IN  IF ~NeedsHandler(s) THEN Update(t, h, queued(s), NoError)
        ELSE \E started \in ThreadStarts(HandlerPriority(s)) :
                IF started THEN Update(t, h, queued(StartHandler(s)), NoError)
                ELSE Update(t, h, [s EXCEPT !.failed = @ \cup {kind}],
                            Error("InternalError"))

\* The constructor of the queue allocates and registers memory: when it throws, there is
\* no queue, but autoQueueRx keeps what was assigned before.
ConfigureBuffers(t, h) ==
    /\ h \in Open
    /\ LET s == sessions[h]
           c == [s EXCEPT !.autoQueueRx = TRUE]
       IN  \/ s.kind = "listener" /\ Fails(t, Error("InvalidOperation"))
           \/ s.kind # "listener" /\ s.transferBuffers # "none"
              /\ Fails(t, Error("AlreadyConfigured"))
           \/ s.kind # "listener" /\ s.transferBuffers = "none" /\ ~s.connected
              /\ Fails(t, Error("NotConnected"))
           \/ /\ s.kind # "listener" /\ s.transferBuffers = "none" /\ s.connected
              /\ \/ Update(t, h, [c EXCEPT !.failed = @ \cup {"internal"}],
                           Error("OutOfMemory"))
                 \/ PostConfigure(t, h, [c EXCEPT !.transferBuffers = "internal"], "internal")

\* Unlike ConfigureBuffers it does not ask for a connection.
ConfigureExternalBuffer(t, h) ==
    /\ h \in Open
    /\ LET s == sessions[h]
       IN  \/ s.kind = "listener" /\ Fails(t, Error("InvalidOperation"))
           \/ s.kind # "listener" /\ s.transferBuffers # "none"
              /\ Fails(t, Error("AlreadyConfigured"))
           \/ s.kind # "listener" /\ s.transferBuffers = "none" /\ s.usePolling
              /\ Fails(t, Error("OperationNotSupported"))
           \/ /\ s.kind # "listener" /\ s.transferBuffers = "none" /\ ~s.usePolling
              /\ \/ Update(t, h, [s EXCEPT !.failed = @ \cup {"external"}],
                           OsError("OperatingSystemError"))
                 \/ PostConfigure(t, h, [s EXCEPT !.transferBuffers = "external"], "external")

Properties == {"QueuedBuffers", "Connected", "UserBuffers", "UseRxPolling",
               "NumOpenedSessions", "ConnectionData", "unknown"}

Writable == {"UseRxPolling", "ConnectionData"}

\* The code with which reading a property fails, if it does; NumOpenedSessions and
\* NumPendingDestructionSessions need no session.
ReadFails(s, property) ==
    CASE property = "ConnectionData" -> "WriteOnlyProperty"
      [] property = "NumOpenedSessions" -> "Success"
      [] s.kind = "listener" -> "InvalidProperty"
      [] property \in {"QueuedBuffers", "UserBuffers"} ->
            IF s.transferBuffers = "none" THEN "SessionNotConfigured" ELSE "Success"
      [] property \in {"Connected", "UseRxPolling"} -> "Success"
      [] OTHER -> "InvalidProperty"

\* CopyToOutput: fits is FALSE when the caller's buffer is smaller than the value.
GetProperty(t, h, property, fits) ==
    /\ h \in Open
    /\ LET c == ReadFails(sessions[h], property)
       IN  Fails(t, IF c # "Success" THEN Error(c)
                    ELSE IF fits THEN NoError ELSE Error("InvalidSize"))

\* Mutant: the test that the session is not yet configured is missing
SetPollingAnyTime(s, value) ==
    IF ~s.connected THEN "AlreadyConfigured"
    ELSE IF value /\ (~platform.linux \/ s.direction # "Receive") THEN "OperationNotSupported"
    ELSE "Success"

SetPollingFails(s, value) ==
    IF ~s.connected \/ s.transferBuffers # "none" THEN "AlreadyConfigured"
    ELSE IF value /\ (~platform.linux \/ s.direction # "Receive") THEN "OperationNotSupported"
    ELSE "Success"

\* connectionData itself is a variable of Connection.
SetListenerProperty(property) ==
    IF property = "ConnectionData" THEN NoError ELSE Error("ReadOnlyProperty")

SetProperty(t, h, property, value) ==
    /\ h \in Open
    /\ LET s == sessions[h]
       IN  IF s.kind = "listener" \/ property # "UseRxPolling"
               THEN Fails(t, SetListenerProperty(property))
           ELSE IF SetPollingFails(s, value) # "Success"
               THEN Fails(t, Error(SetPollingFails(s, value)))
           ELSE Update(t, h, [s EXCEPT !.usePolling = value], NoError)

-----------------------------------------------------------------------------
(* The environment                                                         *)

\* A thread ends, and its thread_local with it; another one takes its name.
ThreadExits(t) ==
    /\ ~inCallbacks[t] /\ lastError[t] # Unallocated
    /\ lastError' = [lastError EXCEPT ![t] = Unallocated]
    /\ allocated' = allocated - 1
    /\ returned' = [returned EXCEPT ![t] = NoError]
    /\ answer' = [answer EXCEPT ![t] = NoError]
    /\ output' = {}
    /\ UNCHANGED <<platform, table, inCallbacks>>

\* A step of a session's handler thread
HandlerStep(h, handler, note) ==
    /\ h \in Open
    /\ Set(h, [sessions[h] EXCEPT !.handler = handler, !.noted = @ \cup note])
    /\ output' = {}
    /\ UNCHANGED <<platform, nextSession, inCallbacks, error>>

\* SendReceiveHandlerThread begins with MakeCQsNonBlocking, which follows the pointers to
\* the channels, and goes on while the session is connected.  A Connect that has not
\* ended, or will fail, may have made the channels, too.
HandlerBegins(h) ==
    /\ h \in Open /\ sessions[h].handler = "started"
    /\ \/ NoQueuePair(sessions[h]) /\ HandlerStep(h, "crashed", {})
       \/ ~sessions[h].connected /\ HandlerStep(h, "ended", {})
       \/ sessions[h].connected /\ HandlerStep(h, "runs", {})

\* It ends when the session is not connected any more, or earlier, when a work request
\* has failed (its opcode is not set) or the completion queue has.
HandlerEnds(h) ==
    /\ h \in Open /\ sessions[h].handler = "runs"
    /\ \/ ~sessions[h].connected /\ HandlerStep(h, "ended", {})
       \/ sessions[h].connected /\ HandlerStep(h, "ended", {"broken"})

\* The process ends with the thread that follows a null pointer.
Crashed == \E h \in Handles : sessions[h].handler = "crashed"

Directions == {"Send", "Receive"}

CallOnSession(t, h) ==
    \/ NoSession(t, h) \/ CloseSession(t, h) \/ AbortSession(t, h)
    \/ \E d \in Directions : Accept(t, h, d) \/ \E str \in Strings : Connect(t, h, d, str)
    \/ \E remote \in BOOLEAN : GetAddress(t, h, remote)
    \/ ConfigureBuffers(t, h) \/ ConfigureExternalBuffer(t, h)
    \/ \E p \in Properties, fits \in BOOLEAN : GetProperty(t, h, p, fits)
    \/ \E p \in Writable \cup {"Connected"}, value \in BOOLEAN : SetProperty(t, h, p, value)

ErrorCall(t) ==
    \/ GetLastError(t) \/ (\E n \in {1, 3} : GetLastErrorString(t, n))
    \/ testsetLastOsError(t)

CallWithoutSession(t) ==
    \/ Enumerate(t, 0, 1) \/ Enumerate(t, 5, 1) \/ Enumerate(t, 6, 2) \/ EnumerateFails(t)
    \/ \E kind \in {"connector", "listener"}, str \in Strings :
            CreateSession(t, kind, str, 0)
    \/ CreateSessionFails(t) \/ CloseNothing(t)

Runs ==
    \/ \E t \in Threads : \/ ErrorCall(t) \/ CallWithoutSession(t)
                          \/ \E h \in 1..MaxSessions : CallOnSession(t, h)
                          \/ CallbacksDone(t) \/ ThreadExits(t)
    \/ \E h \in Handles : PeerDisconnects(h) \/ HandlerBegins(h) \/ HandlerEnds(h)

Next ==
    \/ ~Crashed /\ Runs
    \/ Crashed /\ UNCHANGED vars

Spec == Init /\ [][Next]_vars

-----------------------------------------------------------------------------
(* Properties                                                              *)

\* The error that GetLastError has for a thread is that of the call that returned last on
\* this thread: not that of an earlier call, of a call in another thread, or of the outer
\* call while a callback runs.  There is one error object for each thread that has made a
\* call ("Should never be more than the number of running threads in the process").
\* PopulateLastRdmaError, errorhandling.cpp:55, :100.
ErrorOfLastCall ==
    /\ allocated = Cardinality({t \in Threads : lastError[t] # Unallocated})
    /\ \A t \in Threads : /\ lastError[t] \in {Unallocated, returned[t]}
                          /\ answer[t] = returned[t]

\* A string that the library gives out for an address is accepted back and names the same
\* address: also a link-local one, whose scope id has to survive the way through
\* SockAddrToIpAddrString and the constructor of RdmaAddress.  (The scope id of any other
\* address means nothing and is not kept; on Windows strings have no scope id.)
\* RdmaAddress.h:39, :110.
Survives(str, a) ==
    ParseAddress(str, GetPort(a)) =
        [error |-> "Success", address |-> SetScopeId(a, IF IsIpV6LinkLocal(a) THEN a.scope ELSE 0)]

\* And what the string names can be reached, through the interface of an RDMA device: any
\* address of an enumeration, and that of a session, unless the connection manager gave it
\* without its scope id ("they can be inconsistently present depending on how we are
\* getting them", tests.cpp:183).  RdmaEnumeration.cpp:107.
AddressesSurvive ==
    platform.linux =>
        \A o \in output : o.address # NoAddress =>
            /\ Survives(o.str, o.address)
            /\ o.listed \/ o.address.scope # 0 => Reachable(o.address)

\* transferHandler takes the completions, or is about to.
Handled(s) == s.handler \in {"started", "runs"}

\* While a receiver is connected and configured someone takes the completions of its
\* receives, and only one does: its handler thread, or the calls that wait, when it polls.
\* The exceptions are a configuration that failed at the start of the thread, which reports
\* an error, but stays, and cannot be done again; a ConfigureExternalBuffer before the
\* connection, whose thread is for the sends, or ends or crashes for want of a connection;
\* and a queue that broke.  SetProperty, RdmaConnectedSessionBase.cpp:329; PostConfigure,
\* linux/RdmaConnectedSession.cpp:118; ConfigureExternalBuffer,
\* RdmaConnectedSessionBase.cpp:153.
OneConsumer ==
    \A h \in Handles :
        LET s == sessions[h]
        IN  /\ platform.linux /\ s.connected /\ s.transferBuffers # "none"
            /\ s.direction = "Receive" /\ s.noted = {}
            => \/ s.usePolling # Handled(s)
               \/ s.transferBuffers \in s.failed /\ ~Handled(s) /\ ~s.autoQueued

\* Buffers of the client's memory are posted only by QueueExternalBufferRegion, unless
\* ConfigureBuffers had failed on the session before: autoQueueRx is never reset, and
\* PostConfigure then posts external buffers to which no region was given.
\* RdmaConnectedSessionBase.cpp:183, :192.
ExternalNotAutoQueued ==
    \A h \in Handles :
        sessions[h].transferBuffers = "external" /\ sessions[h].autoQueued =>
            "internal" \in sessions[h].failed

=============================================================================
