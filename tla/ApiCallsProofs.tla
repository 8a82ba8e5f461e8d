--------------------------- MODULE ApiCallsProofs ---------------------------
(***************************************************************************)
(* The last error of each thread, the addresses that the library gives     *)
(* out, and the consumers of completions, for any threads, interfaces,     *)
(* strings and sessions.                                                   *)
(***************************************************************************)
EXTENDS ApiCalls, FiniteSetTheorems, TLAPS

\* Statuses that calls return: Success has no subcode, and "none" is nobody's code.
Proper(status) == status = NoError \/ status.code \notin {"Success", "none"}

\* A thread without an error object has made no call that returned an error.
ErrorInv ==
    /\ \A f \in {lastError, returned, answer} : f = [t \in Threads |-> f[t]]
    /\ \A t \in Threads : Proper(returned[t])
    /\ \A t \in Threads : lastError[t] = Unallocated => returned[t] = NoError
    /\ ErrorOfLastCall

\* Addresses of sessions are such that numeric strings name them, and are reached through
\* the interface of their scope id, if they have one.
Named(a) ==
    \/ a = NoAddress
    \/ /\ a = [family |-> FamilyOf(a.host), host |-> a.host, port |-> a.port,
               scope |-> a.scope]
       /\ Numeric([host |-> a.host, scope |-> a.scope])
       /\ a.scope # 0 => Reachable(a)

Fields == {"kind", "open", "local", "remote", "direction", "connected", "everConnected",
           "transferBuffers", "autoQueueRx", "autoQueued", "usePolling", "handler", "failed",
           "noted"}

IsSession(s) ==
    /\ s = [f \in Fields |-> s[f]]
    /\ {s.connected, s.everConnected, s.autoQueueRx, s.autoQueued, s.usePolling}
          \subseteq BOOLEAN
    /\ Named(s.local) /\ Named(s.remote)

\* A configured session has a handler unless it polls or the start of the thread failed,
\* and the handler goes on while the connection does for which it was started; only a
\* receiver that was connected, and is not connected again, polls; and buffers are queued
\* without the client only after ConfigureBuffers.
ConsumerInv(s) ==
    /\ s.connected => s.everConnected
    /\ s.usePolling => platform.linux /\ s.everConnected /\ s.direction = "Receive"
    /\ s.autoQueueRx => s.transferBuffers = "internal" \/ "internal" \in s.failed
    /\ s.autoQueued => s.autoQueueRx /\ s.transferBuffers # "none"
    /\ s.transferBuffers = "none" => s.handler = "none"
    /\ s.handler # "none" /\ s.noted = {} => s.everConnected /\ (s.connected => Handled(s))
    /\ platform.linux /\ s.transferBuffers # "none" =>
          \/ s.usePolling # (s.handler # "none")
          \/ s.transferBuffers \in s.failed /\ s.handler = "none" /\ ~s.autoQueued

SessionInv ==
    /\ platform \in Platforms
    /\ nextSession \in Nat \ {0} /\ DOMAIN sessions = 1 .. nextSession - 1
    /\ \A h \in Handles : IsSession(sessions[h]) /\ ConsumerInv(sessions[h])

IInv == ErrorInv /\ SessionInv /\ AddressesSurvive

-----------------------------------------------------------------------------
(* The last error                                                          *)

\* What PopulateLastRdmaError makes of a status
LEMMA Populated ==
    ASSUME NEW status, Proper(status)
    PROVE  \A old : PopulateLastRdmaError(old, status) = status
  BY DEF Proper, PopulateLastRdmaError, Assign, NoError

LEMMA ErrorsDiffer == Unallocated # NoError /\ Proper(NoError) /\ ~Proper(Unallocated)
  BY DEF Unallocated, NoError, Proper

LEMMA CodesAreProper ==
    ASSUME NEW c, c \notin {"Success", "none"}
    PROVE  Proper(Error(c)) /\ Proper(OsError(c))
  BY DEF Proper, Error, OsError

\* No system error is translated to success.
LEMMA TranslationsAreProper ==
    \A os : OSErrorToRdmaError(os) \notin {"Success", "none"}
<1>1. \A os \in DOMAIN LinuxErrors : LinuxErrors[os] \notin {"Success", "none"}
  BY DEF LinuxErrors
<1>2. \A os \in DOMAIN WindowsErrors : WindowsErrors[os] \notin {"Success", "none"}
  BY DEF WindowsErrors
<1> QED
  BY <1>1, <1>2 DEF OSErrorToRdmaError

\* The threads that have an error object, and their number
WithError == {t \in Threads : lastError[t] # Unallocated}

\* A thread has an error object after its first call.
LEMMA TouchCounts ==
    ASSUME ErrorInv, NEW t \in Threads, Touch(t), NEW e, e # Unallocated,
           lastError' = [lastError EXCEPT ![t] = e]
    PROVE  allocated' = Cardinality(WithError')
<1>1. IsFiniteSet(WithError) /\ allocated = Cardinality(WithError)
  <2>1. WithError \subseteq Threads
    BY DEF WithError
  <2> QED
    BY <2>1, ApiCallsAssumption, FS_Subset DEF ErrorInv, ErrorOfLastCall, WithError
<1>2. WithError' = WithError \cup {t}
  BY DEF ErrorInv, WithError
<1>3. allocated' = IF t \in WithError THEN allocated ELSE allocated + 1
  BY DEF Touch, WithError
<1>4. Cardinality(WithError \cup {t})
        = IF t \in WithError THEN Cardinality(WithError) ELSE Cardinality(WithError) + 1
  BY <1>1, FS_AddElement
<1> QED
  BY <1>1, <1>2, <1>3, <1>4

\* A call that returns a status
LEMMA ReturnsKeepsErrors ==
    ASSUME ErrorInv, NEW t \in Threads, NEW status, Proper(status), Returns(t, status)
    PROVE  ErrorInv'
<1>1. /\ lastError' = [lastError EXCEPT ![t] = status]
      /\ returned' = [returned EXCEPT ![t] = status]
      /\ answer' = [answer EXCEPT ![t] = status]
      /\ Touch(t)
  BY Populated DEF Returns
<1>2. status # Unallocated
  BY ErrorsDiffer
<1>3. allocated' = Cardinality(WithError')
  BY <1>1, <1>2, TouchCounts
<1> QED
  BY <1>1, <1>2, <1>3 DEF ErrorInv, ErrorOfLastCall, WithError

\* A call that asks for the last error
LEMMA AskingKeepsErrors ==
    ASSUME ErrorInv, NEW t \in Threads, Touch(t), UNCHANGED returned,
           lastError' = [lastError EXCEPT ![t] = LastErrorOf(t)],
           answer' \in {answer, [answer EXCEPT ![t] = LastErrorOf(t)]}
    PROVE  ErrorInv'
<1>1. LastErrorOf(t) = returned[t] /\ LastErrorOf(t) # Unallocated
  BY ErrorsDiffer DEF LastErrorOf, ErrorInv, ErrorOfLastCall
<1>2. allocated' = Cardinality(WithError')
  BY <1>1, TouchCounts
<1>3. /\ lastError' = [u \in Threads |-> lastError'[u]]
      /\ returned' = [u \in Threads |-> returned'[u]]
      /\ answer' = [u \in Threads |-> answer'[u]]
      /\ \A u \in Threads : answer'[u] = answer[u]
      /\ \A u \in Threads : lastError'[u] = IF u = t THEN returned[t] ELSE lastError[u]
  BY <1>1 DEF ErrorInv, ErrorOfLastCall
<1> QED
  BY <1>1, <1>2, <1>3 DEF ErrorInv, ErrorOfLastCall, WithError

\* The end of a thread
LEMMA ExitKeepsErrors ==
    ASSUME ErrorInv, NEW t \in Threads, ThreadExits(t)
    PROVE  ErrorInv'
<1>1. IsFiniteSet(WithError) /\ allocated = Cardinality(WithError)
  <2>1. WithError \subseteq Threads
    BY DEF WithError
  <2> QED
    BY <2>1, ApiCallsAssumption, FS_Subset DEF ErrorInv, ErrorOfLastCall, WithError
<1>2. t \in WithError /\ WithError' = WithError \ {t}
  BY DEF ErrorInv, WithError, ThreadExits
<1>3. Cardinality(WithError \ {t}) = Cardinality(WithError) - 1
  BY <1>1, <1>2, FS_RemoveElement
<1>4. allocated' = Cardinality(WithError')
  BY <1>1, <1>2, <1>3 DEF ThreadExits
<1> QED
  BY <1>4, ErrorsDiffer DEF ErrorInv, ErrorOfLastCall, WithError, ThreadExits

-----------------------------------------------------------------------------
(* Addresses                                                               *)

\* What a string is parsed to
LEMMA Parsed ==
    ASSUME NEW str, NEW port, ParseAddress(str, port).error = "Success"
    PROVE  /\ Numeric(str)
           /\ ParseAddress(str, port).address = getaddrinfo(str, port)
  BY DEF ParseAddress

LEMMA NumericParses ==
    ASSUME NEW str, NEW port, Numeric(str)
    PROVE  ParseAddress(str, port) = [error |-> "Success", address |-> getaddrinfo(str, port)]
  BY DEF ParseAddress, ScopeIdMatches, Numeric, V4Hosts, V6Hosts, LinkLocalHosts

LEMMA Families ==
    /\ \A h \in V4Hosts : FamilyOf(h) = "INET" /\ h \notin LinkLocalHosts
    /\ \A h \in V6Hosts : FamilyOf(h) = "INET6"
    /\ \A h : h \notin V4Hosts \cup V6Hosts => FamilyOf(h) = "UNSPEC"
  BY DEF FamilyOf, V4Hosts, V6Hosts, LinkLocalHosts

\* An address from a string survives the way through a string.
LEMMA NamedSurvives ==
    ASSUME NEW a, Named(a), a # NoAddress
    PROVE  Survives(SockAddrToIpAddrString(a, TRUE), a)
<1>1. /\ a = [family |-> FamilyOf(a.host), host |-> a.host, port |-> a.port,
              scope |-> a.scope]
      /\ Numeric([host |-> a.host, scope |-> a.scope])
  BY DEF Named
<1> DEFINE str == SockAddrToIpAddrString(a, TRUE)
           scope == IF IsIpV6LinkLocal(a) THEN a.scope ELSE 0
<1>2. a.family = FamilyOf(a.host) /\ a.host \in V4Hosts \cup V6Hosts
  BY <1>1 DEF Numeric
<1>3. a.family # "UNSPEC"
  BY <1>2, Families
<1>4. str = [host |-> a.host, scope |-> scope]
  BY <1>3 DEF SockAddrToIpAddrString
<1>5. GetPort(a) = a.port
  BY <1>3 DEF GetPort
<1>6. /\ SetScopeId(a, scope)
           = [family |-> a.family, host |-> a.host, port |-> a.port, scope |-> scope]
      /\ scope = IF IsIpV6LinkLocal(a) THEN a.scope ELSE 0
  BY <1>1 DEF SetScopeId
<1> HIDE DEF str, scope
<1>7. str.host = a.host /\ str.scope = scope
  BY <1>4
<1>8. Numeric(str)
  <2>1. CASE a.host \in V4Hosts
    <3>1. ~IsIpV6LinkLocal(a)
      BY <2>1, Families DEF IsIpV6LinkLocal
    <3> QED
      BY <1>6, <1>7, <2>1, <3>1 DEF Numeric
  <2>2. CASE a.host \in V6Hosts
    BY <1>7, <2>2 DEF Numeric
  <2> QED
    BY <1>2, <2>1, <2>2
<1>9. getaddrinfo(str, a.port) = SetScopeId(a, scope)
  BY <1>2, <1>6, <1>7 DEF getaddrinfo
<1>10. ParseAddress(str, GetPort(a)) = [error |-> "Success", address |-> SetScopeId(a, scope)]
  BY <1>5, <1>8, <1>9, NumericParses
<1> QED
  BY <1>1, <1>10 DEF Survives, str, scope

\* What a caller passes, once it is parsed
LEMMA ParsedIsNamed ==
    ASSUME NEW str, NEW port, ParseAddress(str, port).error = "Success",
           Reachable(ParseAddress(str, port).address)
    PROVE  /\ Named(ParseAddress(str, port).address)
           /\ ParseAddress(str, port).address # NoAddress
<1>1. Numeric(str) /\ ParseAddress(str, port).address = getaddrinfo(str, port)
  BY Parsed
<1> DEFINE a == getaddrinfo(str, port)
<1>2. /\ a.family = FamilyOf(str.host) /\ a.host = str.host
      /\ a.port = port /\ a.scope = str.scope
      /\ a = [family |-> FamilyOf(a.host), host |-> a.host, port |-> a.port,
              scope |-> a.scope]
  BY DEF getaddrinfo
<1> HIDE DEF a
<1>3. Numeric([host |-> a.host, scope |-> a.scope])
  BY <1>1, <1>2 DEF Numeric
<1>4. a # NoAddress
  <2>1. a.family # "UNSPEC"
    BY <1>1, <1>2, Families DEF Numeric
  <2> QED
    BY <2>1 DEF NoAddress
<1> QED
  BY <1>1, <1>2, <1>3, <1>4 DEF Named, a

\* A bound address is reached through the interface that it is bound to.
LEMMA BoundIsNamed ==
    ASSUME NEW str, NEW port, ParseAddress(str, port).error = "Success",
           MayBind(ParseAddress(str, port).address)
    PROVE  Named(Bound(ParseAddress(str, port).address))
<1> DEFINE a == ParseAddress(str, port).address
<1>1. Reachable(a)
  BY DEF MayBind, Bindable, Reachable
<1>2. Named(a) /\ a # NoAddress
  BY <1>1, ParsedIsNamed
<1> HIDE DEF a
<1> DEFINE b == Bound(a)
           p == IF a.port = 0 THEN 1 ELSE a.port
<1>3. /\ a = [family |-> FamilyOf(a.host), host |-> a.host, port |-> a.port,
             scope |-> a.scope]
      /\ Numeric([host |-> a.host, scope |-> a.scope])
  BY <1>2 DEF Named
<1>4. b = [family |-> FamilyOf(a.host), host |-> a.host, port |-> p, scope |-> a.scope]
  BY <1>3 DEF Bound
<1> HIDE DEF b, p
<1>5. /\ b.family = a.family /\ b.host = a.host /\ b.scope = a.scope
      /\ b = [family |-> FamilyOf(b.host), host |-> b.host, port |-> b.port,
              scope |-> b.scope]
  BY <1>3, <1>4
<1>6. Reachable(b)
  BY <1>1, <1>5 DEF Reachable, IsIpV6LinkLocal
<1>7. Named(b)
  BY <1>3, <1>5, <1>6 DEF Named
<1> QED
  BY <1>7 DEF a, b

\* An address that the connection manager reports without its scope id
LEMMA ReportedIsNamed ==
    ASSUME NEW a, Named(a), NEW r \in Reported(a)
    PROVE  Named(r)
<1>1. CASE r = a
  BY <1>1
<1>2. CASE a = NoAddress
  <2>1. SetScopeId(NoAddress, 0) = NoAddress
    BY DEF SetScopeId, NoAddress
  <2> QED
    BY <1>2, <2>1 DEF Reported, Named
<1>3. CASE a # NoAddress /\ r = SetScopeId(a, 0)
  <2>1. /\ a = [family |-> FamilyOf(a.host), host |-> a.host, port |-> a.port,
                scope |-> a.scope]
        /\ Numeric([host |-> a.host, scope |-> a.scope])
    BY <1>3 DEF Named
  <2>2. r = [family |-> FamilyOf(a.host), host |-> a.host, port |-> a.port, scope |-> 0]
    BY <1>3, <2>1 DEF SetScopeId
  <2>3. r.host = a.host /\ r.port = a.port /\ r.scope = 0
    BY <2>2
  <2>4. Numeric([host |-> r.host, scope |-> r.scope])
    BY <2>1, <2>3 DEF Numeric
  <2> QED
    BY <2>2, <2>3, <2>4 DEF Named
<1> QED
  BY <1>1, <1>2, <1>3 DEF Reported

LEMMA PeersAreNamed ==
    ASSUME NEW a, NEW r \in Peers(a)
    PROVE  Named(r)
<1>1. PICK host \in V4Hosts \cup V6Hosts, i \in Interfaces :
          /\ i.rdma
          /\ r \in Reported([family |-> FamilyOf(host), host |-> host, port |-> 1,
                            scope |-> IF host \in LinkLocalHosts THEN i.index ELSE 0])
  BY DEF Peers
<1> DEFINE scope == IF host \in LinkLocalHosts THEN i.index ELSE 0
           b == [family |-> FamilyOf(host), host |-> host, port |-> 1, scope |-> scope]
<1>2. b.host = host /\ b.scope = scope /\ b.port = 1 /\ b.family = FamilyOf(host)
  OBVIOUS
<1>3. b = [family |-> FamilyOf(b.host), host |-> b.host, port |-> b.port, scope |-> b.scope]
  OBVIOUS
<1>4. r \in Reported(b)
  BY <1>1
<1>5. scope # 0 => scope = i.index
  OBVIOUS
<1>6. host \in V4Hosts => scope = 0
  BY Families
<1> HIDE DEF b, scope
<1>7. Numeric([host |-> b.host, scope |-> b.scope])
  BY <1>2, <1>6 DEF Numeric
<1>8. b.scope # 0 => Reachable(b)
  BY <1>1, <1>2, <1>5 DEF Reachable
<1>9. Named(b)
  BY <1>3, <1>7, <1>8 DEF Named
<1> QED
  BY <1>4, <1>9, ReportedIsNamed

\* Strings of the enumeration on Linux name RDMA devices.
LEMMA EnumeratedSurvive ==
    ASSUME NEW filter, NEW str \in EnumerateLinux(Interfaces, filter)
    PROVE  /\ Survives(str, ParseAddress(str, 0).address)
           /\ Reachable(ParseAddress(str, 0).address)
<1>1. PICK i \in Interfaces :
          /\ ~i.loopback
          /\ \E r \in GetInterfaces(Interfaces)[i] :
                /\ IsAddressRdmaCompatible(Usable(r, i), i)
                /\ str = SockAddrToIpAddrString(Usable(r, i), TRUE)
  BY DEF EnumerateLinux, GetInterfaces
<1>2. PICK b \in ifaddrs(i) :
          LET r == SockAddrToIpAddrString(b, TRUE)
          IN  /\ b.family # "UNSPEC" /\ IsAddressRdmaCompatible(Usable(r, i), i)
              /\ str = SockAddrToIpAddrString(Usable(r, i), TRUE)
  BY <1>1 DEF GetInterfaces
<1> DEFINE r == SockAddrToIpAddrString(b, TRUE)
<1>h. PICK h \in i.hosts :
          b = [family |-> FamilyOf(h), host |-> h, port |-> 0,
               scope |-> IF h \in LinkLocalHosts THEN i.index ELSE 0]
  BY <1>2 DEF ifaddrs
<1> DEFINE scope == IF h \in LinkLocalHosts THEN i.index ELSE 0
<1>3. FamilyOf(h) # "UNSPEC" /\ h \in V4Hosts \cup V6Hosts
  BY <1>2, <1>h, Families
<1>4. r = [host |-> h, scope |-> scope]
  BY <1>2, <1>h, <1>3, Families DEF SockAddrToIpAddrString, IsIpV6LinkLocal, V6Hosts
<1> HIDE DEF r
<1>5. Numeric(r)
  <2>1. r.host = h /\ r.scope = scope
    BY <1>4
  <2> QED
    BY <1>3, <2>1, Families DEF Numeric
<1> DEFINE a == getaddrinfo(r, 0)
<1>6. ParseAddress(r, 0) = [error |-> "Success", address |-> a]
  BY <1>5, NumericParses
<1>7. a = [family |-> FamilyOf(h), host |-> h, port |-> 0, scope |-> scope]
  BY <1>4 DEF getaddrinfo
<1>8. Usable(r, i) = a
  <2>1. ParseAddress(r, 0).address = a
    BY <1>6
  <2>2. IsIpV6LinkLocal(a) => SetScopeId(a, i.index) = a
    BY <1>7 DEF IsIpV6LinkLocal, SetScopeId
  <2> HIDE DEF a
  <2> QED
    BY <2>1, <2>2 DEF Usable
<1>9. Reachable(a)
  BY <1>2, <1>8 DEF r, IsAddressRdmaCompatible, Bindable, Reachable
<1>10. Named(a) /\ a # NoAddress
  <2>1. Named(a)
    <3>1. ParseAddress(r, 0).error = "Success" /\ ParseAddress(r, 0).address = a
      BY <1>6
    <3> HIDE DEF a
    <3> QED
      BY <1>9, <3>1, ParsedIsNamed
  <2>2. a.family # "UNSPEC"
    BY <1>3, <1>7
  <2> QED
    BY <2>1, <2>2 DEF NoAddress
<1>11. str = r
  <2>1. str = SockAddrToIpAddrString(a, TRUE)
    <3> HIDE DEF a
    <3> QED
      BY <1>2, <1>8 DEF r
  <2>2. a.family = FamilyOf(h) /\ a.host = h /\ a.scope = scope
    BY <1>7
  <2> HIDE DEF a
  <2>3. IsIpV6LinkLocal(a) <=> h \in LinkLocalHosts
    BY <2>2, Families DEF IsIpV6LinkLocal, V6Hosts
  <2> QED
    BY <1>3, <1>4, <2>1, <2>2, <2>3 DEF SockAddrToIpAddrString
<1>12. ParseAddress(str, 0).address = a
  BY <1>6, <1>11
<1>13. Survives(SockAddrToIpAddrString(a, TRUE), a)
  <2> HIDE DEF a
  <2> QED
    BY <1>10, NamedSurvives
<1> QED
  BY <1>2, <1>8, <1>9, <1>12, <1>13 DEF r

-----------------------------------------------------------------------------
(* Sessions                                                                *)

\* A new session, and one that is closed
LEMMA NewSessions ==
    ASSUME NEW kind, NEW local, Named(local)
    PROVE  IsSession(NewSession(kind, local)) /\ ConsumerInv(NewSession(kind, local))
<1>1. Named(NoAddress)
  BY DEF Named
<1> DEFINE s == NewSession(kind, local)
<1>2. /\ s.local = local /\ s.remote = NoAddress
      /\ ~s.connected /\ ~s.everConnected /\ ~s.autoQueueRx /\ ~s.autoQueued
      /\ ~s.usePolling /\ s.handler = "none" /\ s.transferBuffers = "none"
  BY DEF NewSession
<1>3. IsSession(s)
  BY <1>1, <1>2 DEF NewSession, IsSession, Fields
<1> HIDE DEF s
<1>4. ConsumerInv(s)
  BY <1>2 DEF ConsumerInv
<1> QED
  BY <1>3, <1>4 DEF s

\* A closed one is still in the table, under a handle that names nothing.
LEMMA ClosedIsSession == IsSession(ClosedSession) /\ ConsumerInv(ClosedSession)
<1> DEFINE s == NewSession("none", NoAddress)
<1>1. IsSession(s) /\ ConsumerInv(s)
  BY NewSessions DEF Named
<1>2. ClosedSession = [s EXCEPT !.open = FALSE]
  BY DEF ClosedSession
<1> HIDE DEF s
<1> QED
  BY <1>1, <1>2 DEF IsSession, Fields, ConsumerInv, Handled

LEMMA SetKeepsSessions ==
    ASSUME SessionInv, NEW h \in Handles, NEW s, IsSession(s), ConsumerInv(s), Set(h, s),
           UNCHANGED <<platform, nextSession>>
    PROVE  SessionInv'
<1>1. DOMAIN sessions' = DOMAIN sessions
  BY DEF Set
<1>2. \A g \in Handles : sessions'[g] = IF g = h THEN s ELSE sessions[g]
  BY DEF Set, Handles
<1>3. \A g \in Handles : IsSession(sessions'[g]) /\ ConsumerInv(sessions'[g])
  BY <1>2 DEF SessionInv
<1>4. \A g \in Handles : ConsumerInv(sessions'[g]) <=> ConsumerInv(sessions[g])'
  BY DEF ConsumerInv
<1>5. \A g \in Handles : IsSession(sessions'[g]) <=> IsSession(sessions[g])'
  BY DEF IsSession, Named, Reachable, IsIpV6LinkLocal
<1>6. Handles' = Handles
  BY <1>1 DEF Handles
<1>7. \A g \in Handles' : (IsSession(sessions[g]) /\ ConsumerInv(sessions[g]))'
  BY <1>3, <1>4, <1>5, <1>6
<1>8. nextSession' \in Nat \ {0} /\ DOMAIN sessions' = 1 .. nextSession' - 1
  BY <1>1 DEF SessionInv
<1> HIDE DEF Handles
<1>9. platform' \in Platforms'
  BY DEF SessionInv, Platforms
<1> QED
  BY <1>7, <1>8, <1>9 DEF SessionInv

LEMMA NewKeepsSessions ==
    ASSUME SessionInv, NEW s, IsSession(s), ConsumerInv(s), UNCHANGED platform, RegisterSession(s)
    PROVE  SessionInv'
<1>1. DOMAIN sessions' = 1 .. nextSession' - 1
  BY DEF SessionInv, Handles, RegisterSession
<1>2. \A g \in Handles : sessions'[g] = sessions[g]
  BY DEF SessionInv, Handles, RegisterSession
<1>3. sessions'[nextSession] = s
  BY DEF SessionInv, Handles, RegisterSession
<1>4. \A g \in Handles' : g \in Handles \/ g = nextSession
  BY <1>1 DEF SessionInv, Handles, RegisterSession
<1>5. \A g \in Handles' : IsSession(sessions'[g]) /\ ConsumerInv(sessions'[g])
  BY <1>2, <1>3, <1>4 DEF SessionInv
<1>6. \A g \in Handles' : ConsumerInv(sessions'[g]) <=> ConsumerInv(sessions[g])'
  BY DEF ConsumerInv
<1>7. \A g \in Handles' : IsSession(sessions'[g]) <=> IsSession(sessions[g])'
  BY DEF IsSession, Named, Reachable, IsIpV6LinkLocal
<1>8. nextSession' \in Nat \ {0}
  BY DEF SessionInv, RegisterSession
<1>9. \A g \in Handles' : (IsSession(sessions[g]) /\ ConsumerInv(sessions[g]))'
  BY <1>5, <1>6, <1>7
<1> HIDE DEF Handles
<1> QED
  BY <1>1, <1>8, <1>9 DEF SessionInv

LEMMA TableKeepsSessions == ASSUME SessionInv, UNCHANGED <<platform, table>> PROVE SessionInv'
  BY DEF SessionInv, IsSession, Named, Reachable, IsIpV6LinkLocal, Handles, ConsumerInv, table

-----------------------------------------------------------------------------
(* What calls do                                                           *)

LEMMA NothingGivenOut == output' = {} => AddressesSurvive'
  BY DEF AddressesSurvive

LEMMA SameErrors == ErrorInv /\ UNCHANGED error => ErrorInv'
  BY DEF ErrorInv, ErrorOfLastCall, error

\* A step that changes one session and gives nothing out
LEMMA StepKeeps ==
    ASSUME IInv, NEW h \in Handles, NEW s, IsSession(s), ConsumerInv(s), Set(h, s),
           output' = {}, UNCHANGED <<platform, nextSession, inCallbacks, error>>
    PROVE  IInv'
<1>1. SessionInv'
  BY SetKeepsSessions DEF IInv
<1> QED
  BY <1>1, SameErrors, NothingGivenOut DEF IInv

\* A call that gives its caller only a status
LEMMA FailsKeeps ==
    ASSUME IInv, NEW t \in Threads, NEW status, Proper(status), Fails(t, status)
    PROVE  IInv'
<1>1. ErrorInv'
  BY ReturnsKeepsErrors DEF IInv, Fails
<1>2. SessionInv'
  BY TableKeepsSessions DEF IInv, Fails
<1>3. AddressesSurvive'
  BY NothingGivenOut DEF Fails
<1> QED
  BY <1>1, <1>2, <1>3 DEF IInv

\* A call that changes its session
LEMMA UpdateKeeps ==
    ASSUME IInv, NEW t \in Threads, NEW h \in Handles, NEW s, NEW status, Proper(status),
           IsSession(s), ConsumerInv(s), Update(t, h, s, status)
    PROVE  IInv'
<1>1. ErrorInv'
  BY ReturnsKeepsErrors DEF IInv, Update
<1>2. SessionInv'
  BY SetKeepsSessions DEF IInv, Update
<1>3. AddressesSurvive'
  BY NothingGivenOut DEF Update
<1> QED
  BY <1>1, <1>2, <1>3 DEF IInv

\* A call that makes a session
LEMMA RegisterKeeps ==
    ASSUME IInv, NEW t \in Threads, NEW s, IsSession(s), ConsumerInv(s), RegisterSession(s),
           Returns(t, NoError), output' = {}, UNCHANGED <<platform, inCallbacks>>
    PROVE  IInv'
<1>1. ErrorInv'
  BY ReturnsKeepsErrors, ErrorsDiffer DEF IInv
<1>2. SessionInv'
  BY NewKeepsSessions DEF IInv
<1>3. AddressesSurvive'
  BY NothingGivenOut
<1> QED
  BY <1>1, <1>2, <1>3 DEF IInv

\* A step that returns nothing and changes no session
LEMMA QuietKeeps ==
    ASSUME IInv, UNCHANGED <<platform, table, error>>, output' = {}
    PROVE  IInv'
  BY SameErrors, TableKeepsSessions, NothingGivenOut DEF IInv

-----------------------------------------------------------------------------
(* Calls without a session                                                 *)

LEMMA ErrorCallKeeps ==
    ASSUME IInv, NEW t \in Threads, ErrorCall(t)
    PROVE  IInv'
<1>1. CASE GetLastError(t)
  <2>1. ErrorInv'
    BY <1>1, AskingKeepsErrors DEF GetLastError, IInv
  <2> QED
    BY <1>1, <2>1, TableKeepsSessions, NothingGivenOut DEF GetLastError, IInv
<1>2. ASSUME NEW n \in {1, 3}, GetLastErrorString(t, n) PROVE IInv'
  <2>1. ErrorInv'
    BY <1>2, AskingKeepsErrors DEF GetLastErrorString, IInv
  <2> QED
    BY <1>2, <2>1, TableKeepsSessions, NothingGivenOut DEF GetLastErrorString, IInv
<1>3. CASE testsetLastOsError(t)
  BY <1>3, FailsKeeps, CodesAreProper, TranslationsAreProper DEF testsetLastOsError
<1> QED
  BY <1>1, <1>2, <1>3 DEF ErrorCall

LEMMA CallbacksDoneKeeps ==
    ASSUME IInv, NEW t \in Threads, CallbacksDone(t)
    PROVE  IInv'
<1>1. ErrorInv'
  BY ReturnsKeepsErrors, ErrorsDiffer DEF IInv, CallbacksDone
<1> QED
  BY <1>1, TableKeepsSessions, NothingGivenOut DEF IInv, CallbacksDone

LEMMA ThreadExitsKeeps ==
    ASSUME IInv, NEW t \in Threads, ThreadExits(t)
    PROVE  IInv'
<1>1. ErrorInv'
  BY ExitKeepsErrors DEF IInv
<1> QED
  BY <1>1, TableKeepsSessions, NothingGivenOut DEF IInv, ThreadExits

\* Everything that an enumeration finds on Linux survives.
LEMMA FoundSurvives ==
    ASSUME NEW filter \in {0, 4, 6}, NEW o \in Found[filter][TRUE]
    PROVE  Survives(o.str, o.address) /\ Reachable(o.address)
<1>1. Found[filter][TRUE] = {[str |-> s, address |-> ParseAddress(s, 0).address,
                             listed |-> TRUE] :
                               s \in EnumerateInterfaces(Interfaces, filter, TRUE)}
  BY DEF Found
<1>2. PICK s \in EnumerateLinux(Interfaces, filter) :
          o = [str |-> s, address |-> ParseAddress(s, 0).address, listed |-> TRUE]
  BY <1>1 DEF EnumerateInterfaces
<1>3. o.str = s /\ o.address = ParseAddress(s, 0).address
  BY <1>2
<1> QED
  BY <1>3, EnumeratedSurvive

LEMMA EnumerateKeeps ==
    ASSUME IInv, NEW t \in Threads, NEW filter, NEW capacity, Enumerate(t, filter, capacity)
    PROVE  IInv'
<1>1. CASE RdmaAddressFamilyToNative(filter) = "InvalidArgument"
  BY <1>1, FailsKeeps, CodesAreProper DEF Enumerate
<1>2. CASE RdmaAddressFamilyToNative(filter) # "InvalidArgument"
  <2>1. filter \in {0, 4, 6}
    BY <1>2 DEF RdmaAddressFamilyToNative
  <2>2. /\ output' \subseteq Found[filter][platform.linux]
        /\ Returns(t, NoError) /\ UNCHANGED <<platform, table>>
    BY <1>2 DEF Enumerate, kSubset
  <2>3. ErrorInv' /\ SessionInv'
    BY <2>2, ReturnsKeepsErrors, ErrorsDiffer, TableKeepsSessions DEF IInv
  <2>4. AddressesSurvive'
    <3> SUFFICES ASSUME platform.linux, NEW o \in output'
                 PROVE  Survives(o.str, o.address) /\ Reachable(o.address)
      BY <2>2 DEF AddressesSurvive, Survives, Reachable
    <3>1. o \in Found[filter][TRUE]
      BY <2>2 DEF Platforms, IInv, SessionInv
    <3> QED
      BY <2>1, <3>1, FoundSurvives
  <2> QED
    BY <2>3, <2>4 DEF IInv
<1> QED
  BY <1>1, <1>2

LEMMA CreateSessionKeeps ==
    ASSUME IInv, NEW t \in Threads, NEW kind, NEW str, NEW port,
           CreateSession(t, kind, str, port)
    PROVE  IInv'
<1> DEFINE p == ParseAddress(str, port)
<1>1. CASE p.error # "Success"
  <2>1. p.error \notin {"Success", "none"}
    BY <1>1 DEF ParseAddress
  <2>2. Fails(t, Error(p.error))
    BY <1>1 DEF CreateSession
  <2> QED
    BY <2>1, <2>2, FailsKeeps, CodesAreProper
<1>2. CASE p.error = "Success" /\ ~MayBind(p.address)
  <2>1. Fails(t, OsError("InvalidAddress"))
    BY <1>2 DEF CreateSession
  <2> QED
    BY <2>1, FailsKeeps, CodesAreProper
<1>3. CASE p.error = "Success" /\ MayBind(p.address)
  <2>0. PICK local \in Reported(Bound(p.address)) :
            RegisterSession(NewSession(kind, local))
    BY <1>3 DEF CreateSession
  <2> DEFINE s == NewSession(kind, local)
  <2>1. /\ RegisterSession(s) /\ Returns(t, NoError) /\ output' = {}
        /\ UNCHANGED <<platform, inCallbacks>>
    BY <1>3, <2>0 DEF CreateSession
  <2>2. IsSession(s) /\ ConsumerInv(s)
    BY <1>3, BoundIsNamed, ReportedIsNamed, NewSessions
  <2> HIDE DEF s
  <2> QED
    BY <2>1, <2>2, RegisterKeeps
<1> QED
  BY <1>1, <1>2, <1>3

LEMMA CallWithoutSessionKeeps ==
    ASSUME IInv, NEW t \in Threads, CallWithoutSession(t)
    PROVE  IInv'
<1>1. ASSUME EnumerateFails(t) PROVE IInv'
  BY <1>1, FailsKeeps, CodesAreProper DEF EnumerateFails
<1>2. ASSUME CreateSessionFails(t) PROVE IInv'
  BY <1>2, FailsKeeps, CodesAreProper DEF CreateSessionFails
<1>3. ASSUME CloseNothing(t) PROVE IInv'
  BY <1>3, FailsKeeps, ErrorsDiffer DEF CloseNothing, Succeeds
<1> QED
  BY <1>1, <1>2, <1>3, EnumerateKeeps, CreateSessionKeeps DEF CallWithoutSession

-----------------------------------------------------------------------------
(* Calls on a session                                                      *)

LEMMA OpenSession ==
    ASSUME IInv, NEW h \in Open
    PROVE  h \in Handles /\ IsSession(sessions[h]) /\ ConsumerInv(sessions[h])
  BY DEF IInv, SessionInv, Open

LEMMA CloseSessionKeeps ==
    ASSUME IInv, NEW t \in Threads, NEW h, CloseSession(t, h)
    PROVE  IInv'
<1>1. h \in Handles /\ Set(h, ClosedSession)
  BY DEF CloseSession, Open
<1>2. SessionInv'
  BY <1>1, ClosedIsSession, SetKeepsSessions DEF CloseSession, IInv
<1> QED
  BY <1>2, SameErrors, NothingGivenOut DEF CloseSession, RunCallbacks, IInv

LEMMA AbortSessionKeeps ==
    ASSUME IInv, NEW t \in Threads, NEW h, AbortSession(t, h)
    PROVE  IInv'
  BY QuietKeeps DEF AbortSession, RunCallbacks

LEMMA NoSessionKeeps ==
    ASSUME IInv, NEW t \in Threads, NEW h, NoSession(t, h)
    PROVE  IInv'
  BY FailsKeeps, CodesAreProper DEF NoSession

LEMMA PeerDisconnectsKeeps ==
    ASSUME IInv, NEW h, PeerDisconnects(h)
    PROVE  IInv'
<1> DEFINE s == [sessions[h] EXCEPT !.connected = FALSE]
<1>1. h \in Open /\ Set(h, s)
  BY DEF PeerDisconnects
<1>2. h \in Handles /\ IsSession(sessions[h]) /\ ConsumerInv(sessions[h])
  BY <1>1, OpenSession
<1>3. IsSession(s) /\ ConsumerInv(s)
  BY <1>2 DEF IsSession, Fields, ConsumerInv
<1> HIDE DEF s
<1> QED
  BY <1>1, <1>2, <1>3, StepKeeps DEF PeerDisconnects

\* The handler thread begins, goes on while there is a connection, and ends.
LEMMA HandlerStepKeeps ==
    ASSUME IInv, NEW h, NEW handler, NEW note,
           HandlerBegins(h) \/ HandlerEnds(h), HandlerStep(h, handler, note),
           \/ handler = "crashed" /\ ~sessions[h].everConnected
           \/ handler = "ended" /\ (~sessions[h].connected \/ note # {})
           \/ handler = "runs"
    PROVE  IInv'
<1> DEFINE s == [sessions[h] EXCEPT !.handler = handler, !.noted = @ \cup note]
<1>1. h \in Handles /\ IsSession(sessions[h]) /\ ConsumerInv(sessions[h])
  BY OpenSession DEF HandlerStep
<1>2. sessions[h].handler # "none"
  BY DEF HandlerBegins, HandlerEnds
<1>3. /\ s.handler = handler /\ s.noted = sessions[h].noted \cup note
      /\ \A f \in Fields \ {"handler", "noted"} : s[f] = sessions[h][f]
      /\ s = [f \in Fields |-> s[f]]
  BY <1>1 DEF IsSession, Fields
<1> HIDE DEF s
<1>4. IsSession(s)
  BY <1>1, <1>3 DEF IsSession, Fields
<1>5. handler # "none"
  OBVIOUS
<1>6. s.noted = {} => note = {} /\ sessions[h].noted = {}
  BY <1>3
<1>7. ConsumerInv(s)
  BY <1>1, <1>2, <1>3, <1>5, <1>6 DEF ConsumerInv, Handled, Fields
<1> QED
  BY <1>1, <1>4, <1>7, StepKeeps DEF HandlerStep, s

LEMMA HandlerKeeps ==
    ASSUME IInv, NEW h, HandlerBegins(h) \/ HandlerEnds(h)
    PROVE  IInv'
  BY HandlerStepKeeps DEF HandlerBegins, HandlerEnds, NoQueuePair

LEMMA ConnectKeeps ==
    ASSUME IInv, NEW t \in Threads, NEW h, NEW direction \in Directions, NEW str,
           Connect(t, h, direction, str)
    PROVE  IInv'
<1> DEFINE p == ParseAddress(str, 1)
           s == sessions[h]
           failed == [s EXCEPT !.direction = direction]
           connected(remote) == [s EXCEPT !.direction = direction, !.connected = TRUE,
                                          !.everConnected = TRUE, !.remote = remote]
<1>1. h \in Handles /\ IsSession(s) /\ ConsumerInv(s)
  BY OpenSession DEF Connect
<1>2. CASE p.error # "Success"
  <2>1. p.error \notin {"Success", "none"}
    BY <1>2 DEF ParseAddress
  <2>2. Fails(t, Error(p.error))
    BY <1>2 DEF Connect
  <2> QED
    BY <2>1, <2>2, FailsKeeps, CodesAreProper
<1>3. CASE Fails(t, Error("InvalidOperation")) \/ Fails(t, Error("AlreadyConnected"))
  BY <1>3, FailsKeeps, CodesAreProper
<1>4. CASE ~s.everConnected /\ Update(t, h, failed, OsError("UnableToConnect"))
  <2>1. IsSession(failed) /\ ConsumerInv(failed)
    BY <1>1, <1>4 DEF IsSession, Fields, ConsumerInv
  <2> HIDE DEF failed
  <2> QED
    BY <1>1, <1>4, <2>1, UpdateKeeps, CodesAreProper
<1>5. ASSUME ~s.everConnected, p.error = "Success", Reachable(p.address),
             NEW remote \in Reported(p.address), Update(t, h, connected(remote), NoError)
      PROVE  IInv'
  <2>1. Named(remote)
    BY <1>5, ParsedIsNamed, ReportedIsNamed
  <2> HIDE DEF p
  <2>2. IsSession(connected(remote)) /\ ConsumerInv(connected(remote))
    BY <1>1, <1>5, <2>1 DEF IsSession, Fields, ConsumerInv
  <2> HIDE DEF connected
  <2> QED
    BY <1>1, <1>5, <2>2, UpdateKeeps, ErrorsDiffer
<1> QED
  BY <1>2, <1>3, <1>4, <1>5 DEF Connect

LEMMA AcceptKeeps ==
    ASSUME IInv, NEW t \in Threads, NEW h, NEW direction \in Directions,
           Accept(t, h, direction)
    PROVE  IInv'
<1> DEFINE n(local) == NewSession("accepted", local)
           s(local, remote) == [n(local) EXCEPT !.direction = direction, !.connected = TRUE,
                                                !.everConnected = TRUE, !.remote = remote]
<1>1. CASE \E c \in {"InvalidOperation", "Timeout", "OperationCancelled",
                     "InvalidDirection"} : Fails(t, Error(c))
  BY <1>1, FailsKeeps, CodesAreProper
<1>2. ASSUME NEW local \in Reported(sessions[h].local), NEW remote \in Peers(sessions[h].local),
             RegisterSession(s(local, remote)), Returns(t, NoError), output' = {},
             UNCHANGED <<platform, inCallbacks>>
      PROVE  IInv'
  <2>1. Named(local) /\ Named(remote)
    BY OpenSession, ReportedIsNamed, PeersAreNamed DEF Accept, IsSession
  <2>2. /\ IsSession(n(local)) /\ ConsumerInv(n(local)) /\ ~n(local).usePolling
        /\ n(local).transferBuffers = "none"
    BY <2>1, NewSessions DEF NewSession
  <2> HIDE DEF n
  <2>3. IsSession(s(local, remote)) /\ ConsumerInv(s(local, remote))
    BY <2>1, <2>2 DEF IsSession, Fields, ConsumerInv
  <2> HIDE DEF s
  <2> QED
    BY <1>2, <2>3, RegisterKeeps
<1> QED
  BY <1>1, <1>2 DEF Accept

LEMMA GetAddressKeeps ==
    ASSUME IInv, NEW t \in Threads, NEW h, NEW remote, GetAddress(t, h, remote)
    PROVE  IInv'
<1> DEFINE a == IF remote THEN sessions[h].remote ELSE sessions[h].local
<1>1. Named(a)
  BY OpenSession DEF GetAddress, IsSession
<1>2. /\ output' = {[str |-> SockAddrToIpAddrString(a, platform.linux), address |-> a,
                   listed |-> FALSE]}
      /\ Returns(t, NoError) /\ UNCHANGED <<platform, table>>
  BY DEF GetAddress
<1> HIDE DEF a
<1>3. ErrorInv' /\ SessionInv'
  BY <1>2, ReturnsKeepsErrors, ErrorsDiffer, TableKeepsSessions DEF IInv
<1>4. AddressesSurvive'
  <2> SUFFICES ASSUME platform.linux, NEW o \in output', o.address # NoAddress
               PROVE  /\ Survives(o.str, o.address)
                      /\ o.listed \/ o.address.scope # 0 => Reachable(o.address)
    BY <1>2 DEF AddressesSurvive, Survives, Reachable
  <2>1. platform.linux = TRUE
    BY DEF IInv, SessionInv, Platforms
  <2> DEFINE str == SockAddrToIpAddrString(a, TRUE)
  <2>2. o \in {[str |-> str, address |-> a, listed |-> FALSE]}
    BY <1>2, <2>1
  <2> HIDE DEF str
  <2>3. o.str = str /\ o.address = a /\ ~o.listed
    BY <2>2
  <2> QED
    BY <1>1, <2>3, NamedSurvives DEF str, Named
<1> QED
  BY <1>3, <1>4 DEF IInv

-----------------------------------------------------------------------------
(* Configuration and properties                                            *)

\* The handler thread starts, or the configuration fails.
LEMMA PostConfigureKeeps ==
    ASSUME IInv, NEW t \in Threads, NEW h \in Handles, NEW kind \in {"internal", "external"},
           NEW s, IsSession(s),
           s.transferBuffers = kind, s.handler = "none", ~s.autoQueued,
           s.connected => s.everConnected,
           s.usePolling => platform.linux /\ s.everConnected /\ s.direction = "Receive",
           s.autoQueueRx => kind = "internal" \/ "internal" \in s.failed,
           PostConfigure(t, h, s, kind)
    PROVE  IInv'
<1> DEFINE queued(c) == [c EXCEPT !.autoQueued = (s.direction = "Receive" /\ s.autoQueueRx)]
           started == queued(StartHandler(s))
           failed == [s EXCEPT !.failed = @ \cup {kind}]
<1>1. platform \in Platforms
  BY DEF IInv, SessionInv
<1>2. CASE ~NeedsHandler(s) /\ Update(t, h, queued(s), NoError)
  <2>1. platform.linux => s.usePolling
    BY <1>2 DEF NeedsHandler
  <2>2. IsSession(queued(s)) /\ ConsumerInv(queued(s))
    BY <2>1 DEF IsSession, Fields, ConsumerInv
  <2> HIDE DEF queued
  <2> QED
    BY <1>2, <2>2, UpdateKeeps, ErrorsDiffer
<1>3. CASE NeedsHandler(s) /\ Update(t, h, started, NoError)
  <2>1. ~s.usePolling
    BY <1>3 DEF NeedsHandler
  <2>2. IsSession(started) /\ ConsumerInv(started)
    BY <2>1 DEF IsSession, Fields, ConsumerInv, StartHandler, Handled
  <2> HIDE DEF started
  <2> QED
    BY <1>3, <2>2, UpdateKeeps, ErrorsDiffer
<1>4. CASE Update(t, h, failed, Error("InternalError"))
  <2>1. IsSession(failed) /\ ConsumerInv(failed)
    BY DEF IsSession, Fields, ConsumerInv
  <2> HIDE DEF failed
  <2> QED
    BY <1>4, <2>1, UpdateKeeps, CodesAreProper
<1> QED
  BY <1>2, <1>3, <1>4 DEF PostConfigure

LEMMA ConfigureBuffersKeeps ==
    ASSUME IInv, NEW t \in Threads, NEW h, ConfigureBuffers(t, h)
    PROVE  IInv'
<1> DEFINE s == sessions[h]
           c == [s EXCEPT !.autoQueueRx = TRUE]
           failed == [c EXCEPT !.failed = @ \cup {"internal"}]
           configured == [c EXCEPT !.transferBuffers = "internal"]
<1>1. h \in Handles /\ IsSession(s) /\ ConsumerInv(s)
  BY OpenSession DEF ConfigureBuffers
<1>2. CASE \E code \in {"InvalidOperation", "AlreadyConfigured", "NotConnected"} :
              Fails(t, Error(code))
  BY <1>2, FailsKeeps, CodesAreProper
<1>3. CASE s.transferBuffers = "none" /\ Update(t, h, failed, Error("OutOfMemory"))
  <2>1. IsSession(failed) /\ ConsumerInv(failed)
    BY <1>1, <1>3 DEF IsSession, Fields, ConsumerInv
  <2> HIDE DEF failed
  <2> QED
    BY <1>1, <1>3, <2>1, UpdateKeeps, CodesAreProper
<1>4. CASE s.transferBuffers = "none" /\ PostConfigure(t, h, configured, "internal")
  <2>1. /\ IsSession(configured) /\ configured.transferBuffers = "internal"
        /\ configured.handler = "none" /\ ~configured.autoQueued
        /\ configured.connected => configured.everConnected
        /\ configured.usePolling => /\ platform.linux /\ configured.everConnected
                                    /\ configured.direction = "Receive"
    BY <1>1, <1>4 DEF IsSession, Fields, ConsumerInv
  <2> HIDE DEF configured
  <2> QED
    BY <1>1, <1>4, <2>1, PostConfigureKeeps
<1> QED
  BY <1>2, <1>3, <1>4 DEF ConfigureBuffers

LEMMA ConfigureExternalBufferKeeps ==
    ASSUME IInv, NEW t \in Threads, NEW h, ConfigureExternalBuffer(t, h)
    PROVE  IInv'
<1> DEFINE s == sessions[h]
           failed == [s EXCEPT !.failed = @ \cup {"external"}]
           configured == [s EXCEPT !.transferBuffers = "external"]
<1>1. h \in Handles /\ IsSession(s) /\ ConsumerInv(s)
  BY OpenSession DEF ConfigureExternalBuffer
<1>2. CASE \E code \in {"InvalidOperation", "AlreadyConfigured", "OperationNotSupported"} :
              Fails(t, Error(code))
  BY <1>2, FailsKeeps, CodesAreProper
<1>3. CASE /\ s.transferBuffers = "none"
           /\ Update(t, h, failed, OsError("OperatingSystemError"))
  <2>1. IsSession(failed) /\ ConsumerInv(failed)
    BY <1>1, <1>3 DEF IsSession, Fields, ConsumerInv
  <2> HIDE DEF failed
  <2> QED
    BY <1>1, <1>3, <2>1, UpdateKeeps, CodesAreProper
<1>4. CASE s.transferBuffers = "none" /\ PostConfigure(t, h, configured, "external")
  <2>1. /\ IsSession(configured) /\ configured.transferBuffers = "external"
        /\ configured.handler = "none" /\ ~configured.autoQueued
        /\ configured.connected => configured.everConnected
        /\ configured.usePolling => /\ platform.linux /\ configured.everConnected
                                    /\ configured.direction = "Receive"
        /\ configured.autoQueueRx => "internal" \in configured.failed
    BY <1>1, <1>4 DEF IsSession, Fields, ConsumerInv
  <2> HIDE DEF configured
  <2> QED
    BY <1>1, <1>4, <2>1, PostConfigureKeeps
<1> QED
  BY <1>2, <1>3, <1>4 DEF ConfigureExternalBuffer

LEMMA GetPropertyKeeps ==
    ASSUME IInv, NEW t \in Threads, NEW h, NEW property, NEW fits,
           GetProperty(t, h, property, fits)
    PROVE  IInv'
<1> DEFINE c == ReadFails(sessions[h], property)
<1>1. c # "none"
  BY DEF ReadFails
<1> HIDE DEF c
<1>2. Fails(t, IF c # "Success" THEN Error(c)
               ELSE IF fits THEN NoError ELSE Error("InvalidSize"))
  BY DEF GetProperty, c
<1> QED
  BY <1>1, <1>2, FailsKeeps, CodesAreProper, ErrorsDiffer

LEMMA SetPropertyKeeps ==
    ASSUME IInv, NEW t \in Threads, NEW h, NEW property, NEW value \in BOOLEAN,
           SetProperty(t, h, property, value)
    PROVE  IInv'
<1> DEFINE s == sessions[h]
           set == [s EXCEPT !.usePolling = value]
           c == SetPollingFails(s, value)
<1>1. h \in Handles /\ IsSession(s) /\ ConsumerInv(s)
  BY OpenSession DEF SetProperty
<1>2. CASE Fails(t, SetListenerProperty(property))
  BY <1>2, FailsKeeps, CodesAreProper, ErrorsDiffer DEF SetListenerProperty
<1>3. CASE c # "Success" /\ Fails(t, Error(c))
  <2>1. c # "none"
    BY DEF SetPollingFails
  <2> HIDE DEF c
  <2> QED
    BY <1>3, <2>1, FailsKeeps, CodesAreProper
<1>4. CASE c = "Success" /\ Update(t, h, set, NoError)
  <2>1. /\ s.connected /\ s.transferBuffers = "none"
        /\ value => platform.linux /\ s.direction = "Receive"
    BY <1>4 DEF SetPollingFails
  <2>2. IsSession(set) /\ ConsumerInv(set)
    BY <1>1, <2>1 DEF IsSession, Fields, ConsumerInv
  <2> HIDE DEF set
  <2> QED
    BY <1>1, <1>4, <2>2, UpdateKeeps, ErrorsDiffer
<1> QED
  BY <1>2, <1>3, <1>4 DEF SetProperty

LEMMA CallOnSessionKeeps ==
    ASSUME IInv, NEW t \in Threads, NEW h, CallOnSession(t, h)
    PROVE  IInv'
  BY NoSessionKeeps, CloseSessionKeeps, AbortSessionKeeps, AcceptKeeps, ConnectKeeps,
     GetAddressKeeps, ConfigureBuffersKeeps, ConfigureExternalBufferKeeps,
     GetPropertyKeeps, SetPropertyKeeps
     DEF CallOnSession

-----------------------------------------------------------------------------
(* The theorems                                                            *)

LEMMA InitInv == Init => IInv
<1> SUFFICES ASSUME Init PROVE IInv
  OBVIOUS
<1>1. {t \in Threads : lastError[t] # Unallocated} = {}
  BY DEF Init
<1>2. ErrorOfLastCall
  BY <1>1, FS_EmptySet DEF Init, ErrorOfLastCall
<1>3. ErrorInv
  BY <1>2, ErrorsDiffer DEF Init, ErrorInv
<1>4. SessionInv
  BY DEF Init, SessionInv, Handles
<1>5. AddressesSurvive
  BY DEF Init, AddressesSurvive
<1> QED
  BY <1>3, <1>4, <1>5 DEF IInv

LEMMA NextInv == IInv /\ [Next]_vars => IInv'
<1> SUFFICES ASSUME IInv, [Next]_vars PROVE IInv'
  OBVIOUS
<1>1. ASSUME NEW t \in Threads, ErrorCall(t) \/ CallbacksDone(t) \/ ThreadExits(t)
      PROVE  IInv'
  BY <1>1, ErrorCallKeeps, CallbacksDoneKeeps, ThreadExitsKeeps
<1>2. ASSUME NEW t \in Threads, CallWithoutSession(t) PROVE IInv'
  BY <1>2, CallWithoutSessionKeeps
<1>3. ASSUME NEW t \in Threads, NEW h \in 1 .. MaxSessions, CallOnSession(t, h) PROVE IInv'
  BY <1>3, CallOnSessionKeeps
<1>4. ASSUME NEW h \in Handles, PeerDisconnects(h) PROVE IInv'
  BY <1>4, PeerDisconnectsKeeps
<1>5. ASSUME NEW h \in Handles, HandlerBegins(h) \/ HandlerEnds(h) PROVE IInv'
  BY <1>5, HandlerKeeps
<1>6. CASE UNCHANGED vars
  <2>1. ErrorInv' /\ SessionInv'
    BY <1>6, SameErrors, TableKeepsSessions DEF IInv, vars, error, table
  <2> QED
    BY <1>6, <2>1 DEF IInv, vars, AddressesSurvive, Survives, Reachable
<1> QED
  BY <1>1, <1>2, <1>3, <1>4, <1>5, <1>6 DEF Next, Runs

THEOREM Invariance == Spec => []IInv
  BY InitInv, NextInv, PTL DEF Spec

\* For any threads: the last error of a thread is that of the call that returned last in
\* it, whatever calls other threads, and callbacks of the same one, have made.
\* (PopulateLastRdmaError, errorhandling.cpp)
THEOREM LastErrors == Spec => []ErrorOfLastCall
<1>1. IInv => ErrorOfLastCall
  BY DEF IInv, ErrorInv
<1> QED
  BY <1>1, Invariance, PTL

\* For any interfaces and strings of callers: the strings that the library gives out are
\* accepted back and name the same host and interface, as far as the connection manager
\* has given the interface.
\* (RdmaAddress.h, RdmaEnumeration.cpp)
THEOREM AddressStrings == Spec => []AddressesSurvive
<1>1. IInv => AddressesSurvive
  BY DEF IInv
<1> QED
  BY <1>1, Invariance, PTL

\* A receiver that is connected when it is configured has one consumer of its completions
\* as long as it is connected and its queue unbroken, or its configuration has reported an
\* error: whatever calls come before and after, and whenever the thread of the handler
\* begins.  (SetProperty, RdmaConnectedSessionBase.cpp; PostConfigure,
\* linux/RdmaConnectedSession.cpp)
THEOREM Consumers == Spec => []OneConsumer
<1>1. IInv => OneConsumer
  BY DEF IInv, SessionInv, ConsumerInv, OneConsumer, Handled
<1> QED
  BY <1>1, Invariance, PTL

\* External buffers are queued by the client only, but after a ConfigureBuffers that
\* failed.  (ConfigureExternalBuffer, RdmaConnectedSessionBase.cpp)
THEOREM ExternalBuffers == Spec => []ExternalNotAutoQueued
<1>1. IInv => ExternalNotAutoQueued
  BY DEF IInv, SessionInv, ConsumerInv, ExternalNotAutoQueued
<1> QED
  BY <1>1, Invariance, PTL

=============================================================================
