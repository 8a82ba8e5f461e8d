-------------------------- MODULE ConnectionProofs --------------------------
(***************************************************************************)
(* Theorems about Connection, for every set of threads that connect or     *)
(* accept and all connection data that users may set: one thread waits for *)
(* the events of an id, a session outlives the threads that use it, and an *)
(* end becomes connected only to its counterpart.                          *)
(***************************************************************************)
EXTENDS Connection, FiniteSetTheorems, TLAPS

-----------------------------------------------------------------------------
(* The inductive invariant                                                 *)

\* Where a Connect is that has set connectInProgress, where it has access to the
\* session, and where it has made the queue pair
Inside    == {"setup", "addr", "route", "connect", "connected", "start", "ever", "clear",
              "unwind", "catch", "join"}
HasAccess == {"test", "setup", "catch", "join"}
Made      == {"addr", "route", "connect", "connected", "start", "ever", "clear", "unwind"}

\* Where an Accept is that has set acceptInProgress
InAccept == {"request", "validate", "established", "connected", "start", "accepted", "failed"}

Queues   == [inMap : BOOLEAN, events : Seq(Events), waitAborted : BOOLEAN]
Destroys == {"no", "aborting", "closing", "released", "disconnected", "aborted",
             "idDestroyed", "gone"}
Sessions == [direction : Directions \cup {"Unknown"}, connectionData : Data \cup {"none"},
             peerData : Data \cup {"none"}, createdQp : BOOLEAN,
             creditBuffers : {"none", "live", "aborted"},
             ackHandler : {"none", "running", "ended"}, connected : BOOLEAN,
             completions : {"none", "running", "ended"}, pollerCancelled : BOOLEAN,
             destroy : Destroys]
Flags    == [everConnected : BOOLEAN, connectInProgress : BOOLEAN, acceptInProgress : BOOLEAN]
Places   == Inside \cup InAccept
            \cup {"idle", "test", "resume", "done", "none", "handle", "ended", "crashed"}

PlaceInv ==
    /\ pc \in [Threads -> Places]
    /\ \A t \in Connectors : pc[t] \in Inside \cup {"idle", "test", "resume", "done"}
    /\ \A t \in Acceptors : pc[t] \in InAccept \cup {"idle", "done"}
    /\ \A e \in Ends : pc[e] \in {"none", "handle", "ended", "crashed"}

TypeInv ==
    /\ queue \in [Ids -> Queues]
    /\ session \in [Ends -> Sessions]
    /\ flags \in Flags
    /\ PlaceInv
    /\ channel \in [Ids -> Seq(Events)]

\* Destroy has not begun: it waits for the Connects that are under way.
Early == {"no", "aborting", "closing", "released"}

\* One Connect at a time is under way, and access goes with the place in the call.
AccessInv ==
    /\ \A t \in Connectors : holder = t <=> pc[t] \in HasAccess
    /\ holder = "canceller" <=> session["conn"].destroy \in {"aborting", "closing"}
    /\ \A t, u \in Connectors : pc[t] \in Inside /\ pc[u] \in Inside => t = u
    /\ \A t \in Connectors : pc[t] \in Inside => flags.connectInProgress
    /\ \A t \in Connectors :
          pc[t] \notin {"idle", "done"} => session["conn"].destroy \in Early

\* A Connect that failed at the start of a thread may leave the handler behind, and then
\* aborts the waits.
Aborted == queue["conn"].waitAborted

\* The handler of the connector's session starts when the Connect under way has no
\* wait left, and a later Connect finds the queue pair of that one or aborted waits.
ConnectInv ==
    /\ \A t \in Connectors : pc[t] \in Made => session["conn"].createdQp
    /\ \A t \in Connectors :
          pc[t] \in {"route", "connect", "connected", "start"} => pc["conn"] = "none"
    /\ \A t \in Connectors : pc[t] = "addr" => pc["conn"] = "none" \/ Aborted
    /\ \A t \in Connectors :
          pc[t] \in {"test", "setup"} /\ pc["conn"] # "none" => session["conn"].createdQp \/ Aborted
    /\ \A t \in Connectors : pc[t] = "join" => Aborted
    /\ \/ pc["conn"] = "none" \/ flags.everConnected \/ Aborted \/ ~queue["conn"].inMap
       \/ \E t \in Connectors : pc[t] \in {"ever", "unwind", "catch"}

\* One Accept at a time is under way, and it makes the accepted session.
AcceptInv ==
    /\ \A t, u \in Acceptors : pc[t] \in InAccept /\ pc[u] \in InAccept => t = u
    /\ \A t \in Acceptors : pc[t] \in InAccept => flags.acceptInProgress
    /\ \A t \in Acceptors :
          pc[t] = "request" => session["acc"].direction = "Unknown" /\ queue["listen"].inMap
    /\ session["acc"].direction = "Unknown" =>
          /\ pc["acc"] = "none" /\ session["acc"].destroy = "no"
          /\ \A t \in Acceptors : pc[t] \in {"idle", "request", "done"}
    /\ \A t \in Acceptors :
          pc[t] \in {"validate", "established", "connected", "start"} =>
              pc["acc"] = "none" /\ session["acc"].destroy = "no"

\* The threads that Destroy has joined
JoinedInv(e) ==
    /\ session[e].destroy \in {"aborted", "idDestroyed", "gone"}
          => session[e].completions # "running"
    /\ session[e].destroy \in {"idDestroyed", "gone"} => HandlerIsOver(e)
    /\ session[e].destroy = "gone" => session[e].ackHandler # "running"

\* The queues of the ids live as long as the ids.
DestroyInv ==
    /\ queue["conn"].inMap <=> session["conn"].destroy \notin {"idDestroyed", "gone"}
    /\ queue["acc"].inMap <=>
          /\ session["acc"].direction # "Unknown"
          /\ session["acc"].destroy \notin {"idDestroyed", "gone"}
    /\ \A e \in Ends : JoinedInv(e)

\* Events of that type in s carry the data d.
Carries(s, type, d) ==
    \A i \in 1 .. Len(s) : s[i].type = type => s[i].data = d /\ d # "none"

\* Events carry the connection data of their sender ...
EventInv ==
    /\ Carries(queue["listen"].events, "CONNECT_REQUEST", session["conn"].connectionData)
    /\ Carries(channel["listen"], "CONNECT_REQUEST", session["conn"].connectionData)
    /\ Carries(queue["conn"].events, "ESTABLISHED", session["acc"].connectionData)
    /\ Carries(channel["conn"], "ESTABLISHED", session["acc"].connectionData)

\* ... and the receiver has compared them with its own direction.
DataInv ==
    /\ \A t \in Connectors :
          pc[t] \in {"addr", "route", "connect"} => session["conn"].connectionData # "none"
    /\ \A t \in Acceptors :
          pc[t] \in {"validate", "established", "connected"} =>
              /\ session["acc"].peerData = session["conn"].connectionData
              /\ session["acc"].peerData # "none" /\ session["acc"].connectionData # "none"
              /\ session["acc"].direction # "Unknown"
    /\ \A t \in Acceptors :
          pc[t] \in {"established", "connected"} =>
              session["acc"].peerData = Opposite[session["acc"].direction]
    /\ \A t \in Connectors :
          pc[t] = "connected" =>
              /\ session["acc"].connectionData = Opposite[session["conn"].direction]
              /\ session["acc"].connectionData # "none"

IInv == TypeInv /\ AccessInv /\ ConnectInv /\ AcceptInv /\ DestroyInv /\ EventInv /\ DataInv

-----------------------------------------------------------------------------
(* Types                                                                   *)

\* The threads of the three kinds are different ones.
LEMMA Names ==
    /\ Ends = {"conn", "acc"} /\ "conn" # "acc"
    /\ Connectors \cap Acceptors = {} /\ Connectors \cap Ends = {} /\ Acceptors \cap Ends = {}
    /\ NoThread \notin Connectors /\ "canceller" \notin Connectors /\ NoThread # "canceller"
    /\ Connectors \subseteq Threads /\ Acceptors \subseteq Threads /\ Ends \subseteq Threads
  BY ConnectionAssumption DEF Ends, Threads

\* What a session is after the helpers of the module
SameBut(s, r, F) ==
    /\ s \in Sessions
    /\ "direction" \notin F => s.direction = r.direction
    /\ "connectionData" \notin F => s.connectionData = r.connectionData
    /\ "peerData" \notin F => s.peerData = r.peerData
    /\ "createdQp" \notin F => s.createdQp = r.createdQp
    /\ "ackHandler" \notin F => s.ackHandler = r.ackHandler
    /\ "connected" \notin F => s.connected = r.connected
    /\ "completions" \notin F => s.completions = r.completions
    /\ "destroy" \notin F => s.destroy = r.destroy

LEMMA PreparedFields ==
    ASSUME TypeInv, NEW e \in Ends, NEW d \in Directions
    PROVE  /\ SameBut(Prepared(e, d), session[e], {"direction", "connectionData"})
           /\ Prepared(e, d).direction = d
           /\ Prepared(e, d).connectionData # "none"
           /\ session[e].connectionData # "none" =>
                 Prepared(e, d).connectionData = session[e].connectionData
<1> DEFINE r == session[e]
           c == IF r.connectionData = "none" THEN d ELSE r.connectionData
           s == [r EXCEPT !.direction = d, !.connectionData = c]
<1>1. r \in Sessions
  BY DEF TypeInv
<1>2. Prepared(e, d) = s
  BY <1>1 DEF Prepared, Sessions
<1> HIDE DEF r
<1>3. /\ c \in Data \cup {"none"} /\ c # "none" /\ d \in Directions \cup {"Unknown"}
      /\ r.connectionData # "none" => c = r.connectionData
  BY <1>1 DEF Sessions, Data, Directions
<1> HIDE DEF c
<1>4. /\ s \in Sessions /\ s.direction = d /\ s.connectionData = c
      /\ s.createdQp = r.createdQp /\ s.ackHandler = r.ackHandler
      /\ s.peerData = r.peerData /\ s.connected = r.connected
      /\ s.completions = r.completions /\ s.destroy = r.destroy
  BY <1>1, <1>3 DEF Sessions
<1> QED
  BY <1>2, <1>3, <1>4 DEF SameBut, r

LEMMA PreConnectedFields ==
    ASSUME TypeInv, NEW e \in Ends, NEW d \in Directions
    PROVE  /\ SameBut(PreConnected(e, d), session[e],
                      {"direction", "connectionData", "createdQp", "ackHandler"})
           /\ PreConnected(e, d).direction = d
           /\ PreConnected(e, d).createdQp = TRUE
           /\ PreConnected(e, d).connectionData # "none"
           /\ session[e].connectionData # "none" =>
                 PreConnected(e, d).connectionData = session[e].connectionData
<1> DEFINE p == Prepared(e, d)
           h == IF d = "Send" THEN "running" ELSE p.ackHandler
           s == [p EXCEPT !.createdQp = TRUE, !.creditBuffers = "live", !.ackHandler = h]
<1>1. /\ SameBut(p, session[e], {"direction", "connectionData"})
      /\ p.direction = d /\ p.connectionData # "none"
      /\ session[e].connectionData # "none" => p.connectionData = session[e].connectionData
  BY PreparedFields
<1>2. p \in Sessions
  BY <1>1 DEF SameBut
<1>3. PreConnected(e, d) = s
  BY DEF PreConnected
<1> HIDE DEF p
<1>4. h \in {"none", "running", "ended"}
  BY <1>2 DEF Sessions
<1> HIDE DEF h
<1>5. /\ s \in Sessions /\ s.createdQp = TRUE
      /\ s.direction = p.direction /\ s.connectionData = p.connectionData
      /\ s.peerData = p.peerData /\ s.connected = p.connected
      /\ s.completions = p.completions /\ s.destroy = p.destroy
  BY <1>2, <1>4 DEF Sessions
<1> QED
  BY <1>1, <1>3, <1>5 DEF SameBut

LEMMA AbortedFields ==
    ASSUME NEW s \in Sessions
    PROVE  /\ SameBut(CreditsAborted(s), s, {}) /\ SameBut(Disconnected(s), s, {"connected"})
           /\ ~Disconnected(s).connected
<1> DEFINE c == IF s.creditBuffers = "none" THEN "none" ELSE "aborted"
           r == [s EXCEPT !.creditBuffers = c]
<1>1. CreditsAborted(s) = r
  BY DEF CreditsAborted, Sessions
<1>2. c \in {"none", "live", "aborted"}
  OBVIOUS
<1> HIDE DEF c
<1>3. /\ r \in Sessions
      /\ r.direction = s.direction /\ r.connectionData = s.connectionData
      /\ r.peerData = s.peerData /\ r.createdQp = s.createdQp
      /\ r.ackHandler = s.ackHandler /\ r.connected = s.connected
      /\ r.completions = s.completions /\ r.destroy = s.destroy
  BY <1>2 DEF Sessions
<1>4. SameBut(CreditsAborted(s), s, {})
  BY <1>1, <1>3 DEF SameBut
<1> DEFINE q == [r EXCEPT !.connected = FALSE]
<1>5. Disconnected(s) = q
  BY <1>1 DEF Disconnected
<1> HIDE DEF r
<1>6. /\ q \in Sessions /\ ~q.connected
      /\ q.direction = r.direction /\ q.connectionData = r.connectionData
      /\ q.peerData = r.peerData /\ q.createdQp = r.createdQp
      /\ q.ackHandler = r.ackHandler
      /\ q.completions = r.completions /\ q.destroy = r.destroy
  BY <1>3 DEF Sessions
<1>7. SameBut(Disconnected(s), s, {"connected"})
  BY <1>3, <1>5, <1>6 DEF SameBut
<1> QED
  BY <1>4, <1>5, <1>6, <1>7

\* The session of e changes in the fields F at most, that of the other end does not.
Updates(e, F) ==
    /\ session' \in [Ends -> Sessions]
    /\ \A f \in Ends \ {e} : session'[f] = session[f]
    /\ SameBut(session'[e], session[e], F)

LEMMA UpdateOne ==
    ASSUME TypeInv, NEW e \in Ends, NEW s, NEW F, SameBut(s, session[e], F),
           session' = [session EXCEPT ![e] = s]
    PROVE  Updates(e, F) /\ session'[e] = s
<1>1. session \in [Ends -> Sessions] /\ s \in Sessions
  BY DEF TypeInv, SameBut
<1>2. session' \in [Ends -> Sessions] /\ session'[e] = s
  BY <1>1
<1>3. \A f \in Ends \ {e} : session'[f] = session[f]
  BY <1>1
<1> QED
  BY <1>2, <1>3 DEF Updates

\* The ids' queues stay, and at most one of them loses its oldest event.
Shrinks ==
    /\ queue' \in [Ids -> Queues]
    /\ \A id \in Ids :
        /\ queue'[id].inMap = queue[id].inMap
        /\ queue[id].waitAborted => queue'[id].waitAborted
        /\ \/ queue'[id].events = queue[id].events
           \/ queue[id].events # <<>> /\ queue'[id].events = Tail(queue[id].events)

LEMMA IdOfThread ==
    ASSUME NEW t \in Threads
    PROVE  IdOf(t) \in Ids /\ EndOf(t) \in Ends
  BY DEF IdOf, EndOf, Ids, Ends

LEMMA TailType ==
    ASSUME NEW S, NEW s \in Seq(S), s # <<>>
    PROVE  Tail(s) \in Seq(S) /\ Head(s) \in S
  OBVIOUS

LEMMA TakesEvent ==
    ASSUME TypeInv, NEW t \in Threads, Receives(t), TakeEvent(t)
    PROVE  Shrinks
<1> DEFINE i == IdOf(t)
           q == queue[i]
           r == [q EXCEPT !.events = Tail(q.events)]
<1>1. i \in Ids /\ queue \in [Ids -> Queues] /\ q \in Queues
  BY IdOfThread DEF TypeInv
<1>2. q.events # <<>> /\ q.events \in Seq(Events)
  BY <1>1 DEF Receives, Queues
<1>3. queue' = [queue EXCEPT ![i] = r]
  BY <1>1 DEF TakeEvent, Queues
<1> HIDE DEF q
<1>4. /\ r \in Queues /\ r.events = Tail(q.events)
      /\ r.inMap = q.inMap /\ r.waitAborted = q.waitAborted
  BY <1>1, <1>2, TailType DEF Queues
<1> HIDE DEF i, r
<1>5. queue' \in [Ids -> Queues] /\ \A id \in Ids : queue'[id] = IF id = i THEN r ELSE queue[id]
  BY <1>1, <1>3, <1>4
<1> QED
  BY <1>2, <1>4, <1>5 DEF Shrinks, q

LEMMA Kept == ASSUME TypeInv, UNCHANGED queue PROVE Shrinks
  BY DEF TypeInv, Shrinks

LEMMA WaitShrinks ==
    ASSUME TypeInv, NEW t \in Threads, WaitFails(t) \/ TimesOut(t)
    PROVE  Shrinks
<1>1. CASE UNCHANGED queue
  BY <1>1, Kept
<1>2. CASE Receives(t) /\ TakeEvent(t)
  BY <1>2, TakesEvent
<1> QED
  BY <1>1, <1>2 DEF WaitFails, TimesOut

LEMMA AbortShrinks ==
    ASSUME TypeInv, NEW i \in Ids, AbortWaits(i)
    PROVE  Shrinks
<1> DEFINE r == [queue[i] EXCEPT !.waitAborted = TRUE]
<1>1. queue \in [Ids -> Queues] /\ queue[i] \in Queues
  BY DEF TypeInv
<1>2. /\ r \in Queues /\ r.events = queue[i].events
      /\ r.inMap = queue[i].inMap /\ r.waitAborted
  BY <1>1 DEF Queues
<1>3. queue' = [queue EXCEPT ![i] = r]
  BY <1>1 DEF AbortWaits
<1> HIDE DEF r
<1>4. queue' \in [Ids -> Queues] /\ \A id \in Ids : queue'[id] = IF id = i THEN r ELSE queue[id]
  BY <1>1, <1>2, <1>3
<1> QED
  BY <1>2, <1>4 DEF Shrinks

-----------------------------------------------------------------------------
(* What each action does to the sessions                                   *)

LEMMA SetMember ==
    ASSUME NEW s \in Sessions
    PROVE  /\ \A b \in BOOLEAN : LET r == [s EXCEPT !.connected = b]
                                 IN  SameBut(r, s, {"connected"}) /\ r.connected = b
           /\ \A b \in BOOLEAN : LET r == [s EXCEPT !.createdQp = b]
                                 IN  SameBut(r, s, {"createdQp"}) /\ r.createdQp = b
           /\ SameBut([s EXCEPT !.pollerCancelled = TRUE], s, {})
           /\ \A d \in Data \cup {"none"} : LET r == [s EXCEPT !.peerData = d]
                                             IN  SameBut(r, s, {"peerData"}) /\ r.peerData = d
           /\ \A d \in Destroys : LET r == [s EXCEPT !.destroy = d]
                                  IN  SameBut(r, s, {"destroy"}) /\ r.destroy = d
           /\ \A c \in {"none", "running", "ended"} :
                 LET r == [s EXCEPT !.completions = c]
                 IN  SameBut(r, s, {"completions"}) /\ r.completions = c
           /\ \A c \in {"none", "running", "ended"} :
                 LET r == [s EXCEPT !.ackHandler = c]
                 IN  SameBut(r, s, {"ackHandler"}) /\ r.ackHandler = c
<1>1. ASSUME NEW b \in BOOLEAN
      PROVE  /\ SameBut([s EXCEPT !.connected = b], s, {"connected"})
             /\ [s EXCEPT !.connected = b].connected = b
  BY DEF SameBut, Sessions
<1>2. ASSUME NEW b \in BOOLEAN
      PROVE  /\ SameBut([s EXCEPT !.createdQp = b], s, {"createdQp"})
             /\ [s EXCEPT !.createdQp = b].createdQp = b
  BY DEF SameBut, Sessions
<1>3. SameBut([s EXCEPT !.pollerCancelled = TRUE], s, {})
  BY DEF SameBut, Sessions
<1>4. ASSUME NEW d \in Data \cup {"none"}
      PROVE  /\ SameBut([s EXCEPT !.peerData = d], s, {"peerData"})
             /\ [s EXCEPT !.peerData = d].peerData = d
  BY DEF SameBut, Sessions
<1>5. ASSUME NEW d \in Destroys
      PROVE  /\ SameBut([s EXCEPT !.destroy = d], s, {"destroy"})
             /\ [s EXCEPT !.destroy = d].destroy = d
  BY DEF SameBut, Sessions
<1>6. ASSUME NEW c \in {"none", "running", "ended"}
      PROVE  /\ SameBut([s EXCEPT !.completions = c], s, {"completions"})
             /\ [s EXCEPT !.completions = c].completions = c
  BY DEF SameBut, Sessions
<1>7. ASSUME NEW c \in {"none", "running", "ended"}
      PROVE  /\ SameBut([s EXCEPT !.ackHandler = c], s, {"ackHandler"})
             /\ [s EXCEPT !.ackHandler = c].ackHandler = c
  BY DEF SameBut, Sessions
<1> QED
  BY <1>1, <1>2, <1>3, <1>4, <1>5, <1>6, <1>7

LEMMA SameTwice ==
    ASSUME NEW r, NEW s, NEW u, NEW F, NEW G, SameBut(s, r, F), SameBut(u, s, G)
    PROVE  SameBut(u, r, F \cup G)
  BY DEF SameBut

LEMMA Stays ==
    ASSUME TypeInv, NEW e \in Ends, UNCHANGED session
    PROVE  Updates(e, {})
  BY DEF TypeInv, Updates, SameBut

LEMMA SetUpEffect ==
    ASSUME TypeInv, NEW t \in Connectors, NEW d \in Directions, SetUp(t, d)
    PROVE  /\ Updates("conn", {"direction", "connectionData", "createdQp", "ackHandler"})
           /\ session'["conn"].direction = d
           /\ session'["conn"].connectionData # "none"
           /\ session["conn"].connectionData # "none" =>
                 session'["conn"].connectionData = session["conn"].connectionData
           /\ session'["conn"].createdQp <=> session["conn"].createdQp \/ pc'[t] # "catch"
           /\ session["conn"].createdQp => pc'[t] = "catch"
<1> DEFINE F == {"direction", "connectionData", "createdQp", "ackHandler"}
<1>0. "conn" \in Ends /\ pc \in [Threads -> Places] /\ t \in Threads
      /\ session["conn"].createdQp \in BOOLEAN
  BY Names DEF TypeInv, PlaceInv, Sessions
<1>1. CASE session' = [session EXCEPT !["conn"] = Prepared("conn", d)] /\ GoTo(t, "catch")
  <2>1. SameBut(Prepared("conn", d), session["conn"], F)
    BY <1>0, PreparedFields DEF SameBut
  <2>2. Updates("conn", F) /\ session'["conn"] = Prepared("conn", d)
    BY <1>0, <1>1, <2>1, UpdateOne
  <2>3. session'["conn"].createdQp = session["conn"].createdQp
    BY <1>0, <2>2, PreparedFields DEF SameBut
  <2>4. pc'[t] = "catch"
    BY <1>0, <1>1 DEF GoTo
  <2> QED
    BY <1>0, <2>2, <2>3, <2>4, PreparedFields
<1> DEFINE s == PreConnected("conn", d)
<1>2. /\ SameBut(s, session["conn"], F)
      /\ s.direction = d /\ s.createdQp = TRUE /\ s.connectionData # "none"
      /\ session["conn"].connectionData # "none" =>
            s.connectionData = session["conn"].connectionData
  BY <1>0, PreConnectedFields
<1> HIDE DEF s
<1>3. CASE /\ ~session["conn"].createdQp
           /\ session' = [session EXCEPT !["conn"] = s]
           /\ GoTo(t, "addr") \/ GoTo(t, "unwind")
  <2>2. Updates("conn", F) /\ session'["conn"] = s
    BY <1>0, <1>2, <1>3, UpdateOne
  <2>3. session'["conn"].createdQp = TRUE /\ session'["conn"].direction = d
    BY <1>2, <2>2
  <2>4. pc'[t] # "catch"
    BY <1>0, <1>3 DEF GoTo
  <2>5. /\ session'["conn"].connectionData # "none"
        /\ session["conn"].connectionData # "none" =>
              session'["conn"].connectionData = session["conn"].connectionData
    BY <1>2, <2>2
  <2>6. session'["conn"].createdQp <=> session["conn"].createdQp \/ pc'[t] # "catch"
    BY <2>3, <2>4
  <2>7. session["conn"].createdQp => pc'[t] = "catch"
    BY <1>3
  <2> QED
    BY <2>2, <2>3, <2>5, <2>6, <2>7
<1> QED
  BY <1>1, <1>3 DEF SetUp, s

LEMMA PostConnectEffect ==
    ASSUME TypeInv, NEW t \in Threads, PostConnect(t)
    PROVE  Updates(EndOf(t), {"connected"})
<1> DEFINE e == EndOf(t)
           s == [session[e] EXCEPT !.connected = TRUE]
<1>1. e \in Ends /\ session[e] \in Sessions
  BY IdOfThread DEF TypeInv
<1>2. session' = [session EXCEPT ![e] = s]
  BY <1>1 DEF PostConnect
<1>3. SameBut(s, session[e], {"connected"})
  BY <1>1, SetMember
<1> HIDE DEF e, s
<1>4. Updates(e, {"connected"})
  BY <1>1, <1>2, <1>3, UpdateOne
<1> QED
  BY <1>4 DEF e

LEMMA StartThreadsEffect ==
    ASSUME TypeInv, NEW t \in Threads, StartThreads(t)
    PROVE  Updates(EndOf(t), {"completions"})
<1> DEFINE e == EndOf(t)
           s == [session[e] EXCEPT !.completions = "running"]
<1>1. e \in Ends /\ session[e] \in Sessions
  BY IdOfThread DEF TypeInv
<1>2. session' = [session EXCEPT ![e] = s]
  BY <1>1 DEF StartThreads
<1>3. SameBut(s, session[e], {"completions"})
  BY <1>1, SetMember
<1> HIDE DEF e, s
<1>4. Updates(e, {"completions"})
  BY <1>1, <1>2, <1>3, UpdateOne
<1> QED
  BY <1>4 DEF e

LEMMA CancelConnectEffect ==
    ASSUME TypeInv, NEW t, CancelConnect(t)
    PROVE  Updates("conn", {})
<1>1. "conn" \in Ends /\ session["conn"] \in Sessions
  BY Names DEF TypeInv
<1> DEFINE s == CreditsAborted(session["conn"])
<1>2. session' = [session EXCEPT !["conn"] = s]
  BY DEF CancelConnect
<1>3. SameBut(s, session["conn"], {})
  BY <1>1, AbortedFields
<1> QED
  BY <1>1, <1>2, <1>3, UpdateOne

LEMMA JoinAckHandlerEffect ==
    ASSUME TypeInv, NEW t, JoinAckHandler(t)
    PROVE  /\ Updates("conn", {"ackHandler", "createdQp"})
           /\ session'["conn"].ackHandler = "none"
<1> DEFINE r == session["conn"]
           s == [r EXCEPT !.ackHandler = "none"]
           u == [s EXCEPT !.createdQp = FALSE]
<1>1. "conn" \in Ends /\ r \in Sessions /\ session \in [Ends -> Sessions]
  BY Names DEF TypeInv
<1>2. session' = [session EXCEPT !["conn"] = u]
  BY <1>1 DEF JoinAckHandler
<1>3. SameBut(s, r, {"ackHandler"}) /\ s.ackHandler = "none"
  BY <1>1, SetMember
<1> HIDE DEF s
<1>4. SameBut(u, s, {"createdQp"})
  <2>1. s \in Sessions
    BY <1>3 DEF SameBut
  <2> QED
    BY <2>1, SetMember
<1>5. u.ackHandler = s.ackHandler
  BY <1>4 DEF SameBut
<1> HIDE DEF u
<1>6. SameBut(u, r, {"ackHandler", "createdQp"})
  BY <1>3, <1>4 DEF SameBut
<1> QED
  BY <1>1, <1>2, <1>3, <1>5, <1>6, UpdateOne

LEMMA ReleaseEffect ==
    ASSUME TypeInv, session' = [session EXCEPT !["acc"].destroy = "released"]
    PROVE  Updates("acc", {"destroy"}) /\ session'["acc"].destroy = "released"
<1> DEFINE r == session["acc"]
           s == [r EXCEPT !.destroy = "released"]
<1>1. "acc" \in Ends /\ r \in Sessions
  BY Names DEF TypeInv
<1>2. session' = [session EXCEPT !["acc"] = s]
  BY <1>1
<1>3. SameBut(s, r, {"destroy"}) /\ s.destroy = "released"
  BY <1>1, SetMember DEF Destroys
<1> HIDE DEF s
<1> QED
  BY <1>1, <1>2, <1>3, UpdateOne

LEMMA ReceivedType ==
    ASSUME TypeInv, NEW t \in Threads, Receives(t)
    PROVE  /\ IdOf(t) \in Ids /\ queue[IdOf(t)].events \in Seq(Events)
           /\ queue[IdOf(t)].events # <<>>
           /\ Received(t) \in Events /\ Received(t).data \in Data \cup {"none"}
<1>1. IdOf(t) \in Ids /\ queue[IdOf(t)] \in Queues
  BY IdOfThread DEF TypeInv
<1>2. queue[IdOf(t)].events \in Seq(Events) /\ queue[IdOf(t)].events # <<>>
  BY <1>1 DEF Queues, Receives
<1>3. Received(t) \in Events
  BY <1>2, TailType DEF Received
<1> QED
  BY <1>1, <1>2, <1>3 DEF Events

LEMMA ConstructEffect ==
    ASSUME TypeInv, NEW t \in Acceptors, NEW d \in Directions, Construct(t, d)
    PROVE  /\ Updates("acc", {"direction", "connectionData", "peerData", "createdQp",
                              "ackHandler", "destroy"})
           /\ session'["acc"].direction = d
           /\ session'["acc"].connectionData # "none"
           /\ session["acc"].connectionData # "none" =>
                 session'["acc"].connectionData = session["acc"].connectionData
           /\ \/ /\ pc' = [pc EXCEPT ![t] = "validate"]
                 /\ session'["acc"].destroy = session["acc"].destroy
                 /\ session'["acc"].peerData = Received(t).data
              \/ /\ pc' = [pc EXCEPT ![t] = "failed"]
                 /\ session'["acc"].destroy = "released"
<1> DEFINE F == {"direction", "connectionData", "peerData", "createdQp", "ackHandler", "destroy"}
           r == session["acc"]
           p == PreConnected("acc", d)
           v == Received(t).data
           s == [p EXCEPT !.peerData = v]
           q == Prepared("acc", d)
           u == [q EXCEPT !.destroy = "released"]
<1>0. /\ "acc" \in Ends /\ t \in Threads /\ r \in Sessions
      /\ v \in Data \cup {"none"}
  BY Names, ReceivedType DEF TypeInv, Construct, Gets
<1>1. /\ SameBut(p, r, {"direction", "connectionData", "createdQp", "ackHandler"})
      /\ p.direction = d /\ p.connectionData # "none"
      /\ r.connectionData # "none" => p.connectionData = r.connectionData
  BY <1>0, PreConnectedFields
<1>2. /\ SameBut(q, r, {"direction", "connectionData"})
      /\ q.direction = d /\ q.connectionData # "none"
      /\ r.connectionData # "none" => q.connectionData = r.connectionData
  BY <1>0, PreparedFields
<1> HIDE DEF p, q, v
<1>3. p \in Sessions /\ q \in Sessions
  BY <1>1, <1>2 DEF SameBut
<1>4. SameBut(s, p, {"peerData"}) /\ s.peerData = v
  <2>1. p \in Sessions /\ v \in Data \cup {"none"}
    BY <1>0, <1>3
  <2> QED
    BY <2>1, SetMember
<1>5. SameBut(u, q, {"destroy"}) /\ u.destroy = "released"
  BY <1>3, SetMember DEF Destroys
<1>6. \/ /\ session' = [session EXCEPT !["acc"] = s]
         /\ pc' = [pc EXCEPT ![t] = "validate"]
      \/ /\ session' = [session EXCEPT !["acc"] = u]
         /\ pc' = [pc EXCEPT ![t] = "failed"]
  BY DEF Construct, GoTo, p, q, v
<1> HIDE DEF s, u
<1>7. SameBut(s, r, F) /\ s.destroy = r.destroy
  BY <1>1, <1>4 DEF SameBut
<1>8. SameBut(u, r, F)
  BY <1>2, <1>5 DEF SameBut
<1>9. /\ s.direction = p.direction /\ s.connectionData = p.connectionData
      /\ u.direction = q.direction /\ u.connectionData = q.connectionData
  BY <1>4, <1>5 DEF SameBut
<1> HIDE DEF r, F
<1>10. CASE /\ session' = [session EXCEPT !["acc"] = s]
            /\ pc' = [pc EXCEPT ![t] = "validate"]
  <2>1. Updates("acc", F) /\ session'["acc"] = s
    BY <1>0, <1>7, <1>10, UpdateOne DEF r
  <2> QED
    BY <1>1, <1>4, <1>7, <1>9, <1>10, <2>1 DEF r, F, v
<1>11. CASE /\ session' = [session EXCEPT !["acc"] = u]
            /\ pc' = [pc EXCEPT ![t] = "failed"]
  <2>1. Updates("acc", F) /\ session'["acc"] = u
    BY <1>0, <1>8, <1>11, UpdateOne DEF r
  <2> QED
    BY <1>2, <1>5, <1>9, <1>11, <2>1 DEF r, F
<1> QED
  BY <1>6, <1>10, <1>11

LEMMA HandleEventEffect ==
    ASSUME TypeInv, NEW e \in Ends, HandleEvent(e)
    PROVE  /\ Updates(e, {"connected"})
           /\ session'[e].connected => session[e].connected
<1> DEFINE s == IF Gets(e) THEN Disconnected(session[e]) ELSE session[e]
<1>1. session[e] \in Sessions
  BY DEF TypeInv
<1>2. session' = [session EXCEPT ![e] = s]
  BY DEF HandleEvent
<1>3. SameBut(s, session[e], {"connected"})
  BY <1>1, AbortedFields DEF SameBut
<1>4. s.connected => session[e].connected
  BY <1>1, AbortedFields
<1> HIDE DEF s
<1> QED
  BY <1>2, <1>3, <1>4, UpdateOne

LEMMA AckHandlerEndsEffect ==
    ASSUME TypeInv, NEW e \in Ends, AckHandlerEnds(e)
    PROVE  Updates(e, {"ackHandler"}) /\ session'[e].ackHandler = "ended"
<1> DEFINE s == [session[e] EXCEPT !.ackHandler = "ended"]
<1>1. session[e] \in Sessions
  BY DEF TypeInv
<1>2. session' = [session EXCEPT ![e] = s]
  BY <1>1 DEF AckHandlerEnds
<1>3. SameBut(s, session[e], {"ackHandler"}) /\ s.ackHandler = "ended"
  BY <1>1, SetMember
<1> HIDE DEF s
<1> QED
  BY <1>2, <1>3, UpdateOne

LEMMA CompletionsCancelledEffect ==
    ASSUME TypeInv, NEW e \in Ends, CompletionsCancelled(e)
    PROVE  Updates(e, {"completions"}) /\ session'[e].completions = "ended"
<1> DEFINE s == [session[e] EXCEPT !.completions = "ended"]
<1>1. session[e] \in Sessions
  BY DEF TypeInv
<1>2. session' = [session EXCEPT ![e] = s]
  BY <1>1 DEF CompletionsCancelled
<1>3. SameBut(s, session[e], {"completions"}) /\ s.completions = "ended"
  BY <1>1, SetMember
<1> HIDE DEF s
<1> QED
  BY <1>2, <1>3, UpdateOne

\* An action that ends in DestroyGoesTo
LEMMA DestroyEffect ==
    ASSUME TypeInv, NEW e \in Ends, NEW d \in Destroys, NEW s, NEW F,
           SameBut(s, session[e], F), DestroyGoesTo(e, d, s)
    PROVE  /\ Updates(e, F \cup {"destroy"}) /\ session'[e].destroy = d
           /\ session'[e].ackHandler = s.ackHandler
           /\ session'[e].completions = s.completions
           /\ session'[e].connected = s.connected
<1> DEFINE r == [s EXCEPT !.destroy = d]
<1>1. s \in Sessions
  BY DEF SameBut
<1>2. SameBut(r, s, {"destroy"}) /\ r.destroy = d
  BY <1>1, SetMember
<1>3. session' = [session EXCEPT ![e] = r]
  BY DEF DestroyGoesTo
<1> HIDE DEF r
<1>4. SameBut(r, session[e], F \cup {"destroy"})
  BY <1>2, SameTwice
<1>5. Updates(e, F \cup {"destroy"}) /\ session'[e] = r
  BY <1>3, <1>4, UpdateOne
<1>6. r.ackHandler = s.ackHandler /\ r.completions = s.completions /\ r.connected = s.connected
  BY <1>2 DEF SameBut
<1> QED
  BY <1>2, <1>5, <1>6

LEMMA CancelSessionEffect ==
    ASSUME TypeInv, NEW e \in Ends, NEW d \in Destroys, CancelSession(e, d)
    PROVE  Updates(e, {"destroy"}) /\ session'[e].destroy = d
<1> DEFINE s == CreditsAborted(session[e])
<1>1. SameBut(s, session[e], {})
  BY AbortedFields DEF TypeInv
<1>2. DestroyGoesTo(e, d, s)
  BY DEF CancelSession
<1> HIDE DEF s
<1>3. Updates(e, {} \cup {"destroy"}) /\ session'[e].destroy = d
  BY <1>1, <1>2, DestroyEffect
<1> QED
  BY <1>3 DEF Updates, SameBut

LEMMA CancelJoinsEffect ==
    ASSUME TypeInv, NEW e \in Ends, CancelJoins(e)
    PROVE  /\ Updates(e, {"ackHandler", "destroy"})
           /\ session'[e].destroy =
                 IF session[e].destroy = "aborting" THEN "no" ELSE "released"
<1> DEFINE s == [session[e] EXCEPT !.ackHandler = "none"]
           d == IF session[e].destroy = "aborting" THEN "no" ELSE "released"
<1>1. SameBut(s, session[e], {"ackHandler"})
  BY SetMember DEF TypeInv
<1>2. DestroyGoesTo(e, d, s) /\ d \in Destroys
  BY DEF CancelJoins, Destroys
<1> HIDE DEF s, d
<1>3. Updates(e, {"ackHandler"} \cup {"destroy"}) /\ session'[e].destroy = d
  BY <1>1, <1>2, DestroyEffect
<1> QED
  BY <1>3 DEF Updates, SameBut, d

LEMMA DisconnectEffect ==
    ASSUME TypeInv, NEW e \in Ends, Disconnect(e)
    PROVE  Updates(e, {"destroy"}) /\ session'[e].destroy = "disconnected"
<1> DEFINE s == [session[e] EXCEPT !.pollerCancelled = TRUE]
<1>1. SameBut(s, session[e], {})
  BY SetMember DEF TypeInv
<1>2. DestroyGoesTo(e, "disconnected", s) /\ "disconnected" \in Destroys
  BY DEF Disconnect, Destroys
<1> HIDE DEF s
<1>3. Updates(e, {} \cup {"destroy"}) /\ session'[e].destroy = "disconnected"
  BY <1>1, <1>2, DestroyEffect
<1> QED
  BY <1>3 DEF Updates, SameBut

LEMMA JoinCompletionsEffect ==
    ASSUME TypeInv, NEW e \in Ends, JoinCompletions(e)
    PROVE  /\ Updates(e, {"completions", "destroy"})
           /\ session'[e].destroy = "aborted" /\ session'[e].completions = "none"
<1> DEFINE s == [session[e] EXCEPT !.completions = "none"]
<1>1. SameBut(s, session[e], {"completions"}) /\ s.completions = "none"
  BY SetMember DEF TypeInv
<1>2. DestroyGoesTo(e, "aborted", s) /\ "aborted" \in Destroys
  BY DEF JoinCompletions, Destroys
<1> HIDE DEF s
<1>3. /\ Updates(e, {"completions"} \cup {"destroy"})
      /\ session'[e].destroy = "aborted" /\ session'[e].completions = "none"
  BY <1>1, <1>2, DestroyEffect
<1> QED
  BY <1>3 DEF Updates, SameBut

LEMMA JoinHandlerEffect ==
    ASSUME TypeInv, NEW e \in Ends, JoinHandler(e)
    PROVE  /\ Updates(e, {"connected", "createdQp", "destroy"})
           /\ session'[e].destroy = "idDestroyed" /\ ~session'[e].connected
<1> DEFINE p == Disconnected(session[e])
           s == [p EXCEPT !.createdQp = FALSE]
<1>1. SameBut(p, session[e], {"connected"}) /\ ~p.connected
  BY AbortedFields DEF TypeInv
<1>2. DestroyGoesTo(e, "idDestroyed", s) /\ "idDestroyed" \in Destroys
  BY DEF JoinHandler, Destroys
<1> HIDE DEF p
<1>3. p \in Sessions
  BY <1>1 DEF SameBut
<1>4. SameBut(s, p, {"createdQp"})
  BY <1>3, SetMember
<1> HIDE DEF s
<1>5. s.connected = p.connected
  BY <1>4 DEF SameBut
<1>6. SameBut(s, session[e], {"connected"} \cup {"createdQp"})
  BY <1>1, <1>4, SameTwice
<1>7. /\ Updates(e, ({"connected"} \cup {"createdQp"}) \cup {"destroy"})
      /\ session'[e].destroy = "idDestroyed" /\ session'[e].connected = s.connected
  BY <1>2, <1>6, DestroyEffect
<1> QED
  BY <1>1, <1>5, <1>7 DEF Updates, SameBut

LEMMA DestroyBaseEffect ==
    ASSUME TypeInv, NEW e \in Ends, DestroyBase(e)
    PROVE  /\ Updates(e, {"ackHandler", "destroy"})
           /\ session'[e].destroy = "gone" /\ session'[e].ackHandler = "none"
<1> DEFINE p == CreditsAborted(session[e])
           s == [p EXCEPT !.ackHandler = "none"]
<1>1. SameBut(p, session[e], {})
  BY AbortedFields DEF TypeInv
<1>2. DestroyGoesTo(e, "gone", s) /\ "gone" \in Destroys
  BY DEF DestroyBase, Destroys
<1> HIDE DEF p
<1>3. p \in Sessions
  BY <1>1 DEF SameBut
<1>4. SameBut(s, p, {"ackHandler"}) /\ s.ackHandler = "none"
  BY <1>3, SetMember
<1> HIDE DEF s
<1>5. SameBut(s, session[e], {} \cup {"ackHandler"})
  BY <1>1, <1>4, SameTwice
<1>6. /\ Updates(e, ({} \cup {"ackHandler"}) \cup {"destroy"})
      /\ session'[e].destroy = "gone" /\ session'[e].ackHandler = "none"
  BY <1>2, <1>4, <1>5, DestroyEffect
<1> QED
  BY <1>6 DEF Updates, SameBut

-----------------------------------------------------------------------------
(* The types are kept                                                      *)

LEMMA ConnectorGoes ==
    ASSUME TypeInv, NEW t \in Connectors,
           NEW p \in Inside \cup {"idle", "test", "resume", "done"}, GoTo(t, p)
    PROVE  PlaceInv' /\ pc'[t] = p /\ \A u \in Threads \ {t} : pc'[u] = pc[u]
<1>1. pc \in [Threads -> Places] /\ p \in Places /\ t \in Threads
  BY Names DEF TypeInv, PlaceInv, Places
<1>2. pc' \in [Threads -> Places] /\ pc'[t] = p /\ \A u \in Threads \ {t} : pc'[u] = pc[u]
  BY <1>1 DEF GoTo
<1> QED
  BY <1>2, Names DEF TypeInv, PlaceInv

LEMMA AcceptorGoes ==
    ASSUME TypeInv, NEW t \in Acceptors, NEW p \in InAccept \cup {"idle", "done"}, GoTo(t, p)
    PROVE  PlaceInv' /\ pc'[t] = p /\ \A u \in Threads \ {t} : pc'[u] = pc[u]
<1>1. pc \in [Threads -> Places] /\ p \in Places /\ t \in Threads
  BY Names DEF TypeInv, PlaceInv, Places
<1>2. pc' \in [Threads -> Places] /\ pc'[t] = p /\ \A u \in Threads \ {t} : pc'[u] = pc[u]
  BY <1>1 DEF GoTo
<1> QED
  BY <1>2, Names DEF TypeInv, PlaceInv

LEMMA HandlerGoes ==
    ASSUME TypeInv, NEW e \in Ends, NEW p \in {"none", "handle", "ended", "crashed"}, GoTo(e, p)
    PROVE  PlaceInv' /\ pc'[e] = p /\ \A u \in Threads \ {e} : pc'[u] = pc[u]
<1>1. pc \in [Threads -> Places] /\ p \in Places /\ e \in Threads
  BY Names DEF TypeInv, PlaceInv, Places
<1>2. pc' \in [Threads -> Places] /\ pc'[e] = p /\ \A u \in Threads \ {e} : pc'[u] = pc[u]
  BY <1>1 DEF GoTo
<1> QED
  BY <1>2, Names DEF TypeInv, PlaceInv

LEMMA StartThreadsGoes ==
    ASSUME TypeInv, NEW t \in Connectors \cup Acceptors, StartThreads(t)
    PROVE  /\ PlaceInv' /\ EndOf(t) \in Ends
           /\ pc'[EndOf(t)] = "handle"
           /\ pc'[t] = IF t \in Connectors THEN "ever" ELSE "accepted"
           /\ \A u \in Threads \ {t, EndOf(t)} : pc'[u] = pc[u]
<1> DEFINE e == EndOf(t)
           p == IF t \in Connectors THEN "ever" ELSE "accepted"
<1>1. pc \in [Threads -> Places] /\ t \in Threads /\ e \in Ends /\ e \in Threads /\ t # e
  BY Names, IdOfThread DEF TypeInv, PlaceInv
<1>2. p \in Places /\ "handle" \in Places
  BY DEF Places, Inside, InAccept
<1>3. pc' = [pc EXCEPT ![e] = "handle", ![t] = p]
  BY DEF StartThreads
<1>4. t \in Connectors => p = "ever"
  OBVIOUS
<1>5. t \in Acceptors => p = "accepted"
  BY Names
<1> HIDE DEF e, p
<1>6. /\ pc' \in [Threads -> Places] /\ pc'[e] = "handle" /\ pc'[t] = p
      /\ \A u \in Threads \ {t, e} : pc'[u] = pc[u]
  BY <1>1, <1>2, <1>3
<1>7. PlaceInv'
  <2>1. \A u \in Connectors : pc'[u] \in Inside \cup {"idle", "test", "resume", "done"}
    BY <1>1, <1>4, <1>6, Names DEF TypeInv, PlaceInv, Inside
  <2>2. \A u \in Acceptors : pc'[u] \in InAccept \cup {"idle", "done"}
    BY <1>1, <1>5, <1>6, Names DEF TypeInv, PlaceInv, InAccept
  <2>3. \A f \in Ends : pc'[f] \in {"none", "handle", "ended", "crashed"}
    BY <1>1, <1>6, Names DEF TypeInv, PlaceInv
  <2> QED
    BY <1>6, <2>1, <2>2, <2>3 DEF PlaceInv
<1> QED
  BY <1>1, <1>6, <1>7 DEF e, p

LEMMA StartFailsGoes ==
    ASSUME TypeInv, NEW t \in Connectors \cup Acceptors, ThreadStartFails(t)
    PROVE  /\ PlaceInv' /\ EndOf(t) \in Ends
           /\ pc'[EndOf(t)] = pc[EndOf(t)] \/ pc'[EndOf(t)] = "handle"
           /\ pc'[t] = IF t \in Connectors THEN "unwind" ELSE "failed"
           /\ \A u \in Threads \ {t, EndOf(t)} : pc'[u] = pc[u]
<1> DEFINE e == EndOf(t)
           p == IF t \in Connectors THEN "unwind" ELSE "failed"
<1>1. pc \in [Threads -> Places] /\ t \in Threads /\ e \in Ends /\ e \in Threads /\ t # e
  BY Names, IdOfThread DEF TypeInv, PlaceInv
<1>2. p \in Places
  BY DEF Places, Inside, InAccept
<1>3. PICK h \in {pc[e], "handle"} : pc' = [pc EXCEPT ![e] = h, ![t] = p]
  BY DEF ThreadStartFails
<1>4. /\ t \in Connectors => p = "unwind"
      /\ t \in Acceptors => p = "failed"
  BY Names
<1>5. h \in {"none", "handle", "ended", "crashed"} /\ h \in Places
  BY <1>1, <1>3 DEF TypeInv, PlaceInv, Places
<1> HIDE DEF e, p
<1>6. /\ pc' \in [Threads -> Places] /\ pc'[e] = h /\ pc'[t] = p
      /\ \A u \in Threads \ {t, e} : pc'[u] = pc[u]
  BY <1>1, <1>2, <1>3, <1>5
<1>7. PlaceInv'
  <2>1. \A u \in Connectors : pc'[u] \in Inside \cup {"idle", "test", "resume", "done"}
    BY <1>1, <1>4, <1>6, Names DEF TypeInv, PlaceInv, Inside
  <2>2. \A u \in Acceptors : pc'[u] \in InAccept \cup {"idle", "done"}
    BY <1>1, <1>4, <1>6, Names DEF TypeInv, PlaceInv, InAccept
  <2>3. \A f \in Ends : pc'[f] \in {"none", "handle", "ended", "crashed"}
    BY <1>1, <1>5, <1>6, Names DEF TypeInv, PlaceInv
  <2> QED
    BY <1>6, <2>1, <2>2, <2>3 DEF PlaceInv
<1> QED
  BY <1>1, <1>3, <1>6, <1>7 DEF e, p

\* A Connect whose threads fail leaves the sessions to its catch block.
LEMMA StartFailsEffect ==
    ASSUME NEW t, ThreadStartFails(t)
    PROVE  /\ pc[t] = "start" /\ UNCHANGED <<queue, flags, holder, wait, channel, link>>
           /\ t \in Connectors => UNCHANGED session
           /\ t \in Acceptors => session' = [session EXCEPT !["acc"].destroy = "released"]
  BY Names DEF ThreadStartFails

LEMMA StaysPut == ASSUME TypeInv, UNCHANGED pc PROVE PlaceInv'
  BY DEF TypeInv, PlaceInv

LEMMA AppendType ==
    ASSUME NEW S, NEW s \in Seq(S), NEW x \in S
    PROVE  Append(s, x) \in Seq(S)
  OBVIOUS

LEMMA PostType ==
    ASSUME NEW ch \in [Ids -> Seq(Events)], NEW i \in Ids, NEW event \in Events
    PROVE  Post(ch, i, event) \in [Ids -> Seq(Events)]
  BY AppendType DEF Post

LEMMA EventType ==
    /\ \A type \in {"ADDR_RESOLVED", "ROUTE_RESOLVED", "ESTABLISHED", "CONNECT_REQUEST",
                    "DISCONNECTED", "FAILED"} :
          \A d \in Data \cup {"none"} : Event(type, d) \in Events
  BY DEF Events, Event, Waits, Expected

LEMMA SignalQueues ==
    ASSUME TypeInv, NEW id \in Ids, NEW event \in Events, SignalEvent(id, event)
    PROVE  /\ queue' \in [Ids -> Queues]
           /\ \A i \in Ids :
                /\ queue'[i].inMap = queue[i].inMap
                /\ \/ queue'[i].events = queue[i].events
                   \/ i = id /\ queue'[i].events = Append(queue[i].events, event)
<1>1. CASE UNCHANGED queue
  BY <1>1 DEF TypeInv
<1>2. CASE queue' = [queue EXCEPT ![id].events = Append(@, event)]
  <2> DEFINE q == queue[id]
             r == [q EXCEPT !.events = Append(q.events, event)]
  <2>1. queue \in [Ids -> Queues] /\ q \in Queues
    BY DEF TypeInv
  <2>2. queue' = [queue EXCEPT ![id] = r]
    BY <1>2, <2>1 DEF Queues
  <2> HIDE DEF q
  <2>3. Append(q.events, event) \in Seq(Events)
    BY <2>1, AppendType DEF Queues
  <2>4. r \in Queues /\ r.events = Append(q.events, event) /\ r.inMap = q.inMap
    BY <2>1, <2>3 DEF Queues
  <2> HIDE DEF r
  <2>5. queue' \in [Ids -> Queues] /\ \A i \in Ids : queue'[i] = IF i = id THEN r ELSE queue[i]
    BY <2>1, <2>2, <2>4
  <2> QED
    BY <2>4, <2>5 DEF q
<1> QED
  BY <1>1, <1>2 DEF SignalEvent

LEMMA NewQueueFields ==
    /\ NewQueue \in Queues /\ NewQueue.inMap = TRUE /\ NewQueue.events = <<>>
    /\ NoQueue \in Queues /\ NoQueue.inMap = FALSE /\ NoQueue.events = <<>>
<1>1. <<>> \in Seq(Events)
  OBVIOUS
<1>2. NewQueue \in Queues /\ NewQueue.inMap = TRUE /\ NewQueue.events = <<>>
  BY <1>1 DEF NewQueue, Queues
<1>3. NoQueue \in Queues /\ NoQueue.inMap = FALSE /\ NoQueue.events = NewQueue.events
  BY <1>2 DEF NoQueue, Queues
<1> QED
  BY <1>2, <1>3

LEMMA ConstructQueues ==
    ASSUME TypeInv, NEW t \in Acceptors, NEW d, Construct(t, d)
    PROVE  /\ queue' \in [Ids -> Queues]
           /\ queue'["conn"] = queue["conn"] /\ queue'["acc"] = NewQueue
           /\ queue'["listen"].inMap = queue["listen"].inMap
           /\ queue["listen"].events # <<>>
           /\ queue'["listen"].events = Tail(queue["listen"].events)
           /\ Received(t) = Head(queue["listen"].events)
           /\ Received(t).type = "CONNECT_REQUEST"
<1> DEFINE q == queue["listen"]
           r == [q EXCEPT !.events = Tail(q.events)]
<1>1. /\ queue \in [Ids -> Queues] /\ q \in Queues /\ t \in Threads
      /\ "listen" \in Ids /\ "acc" \in Ids /\ "conn" \in Ids
  BY Names DEF TypeInv, Ids
<1>2. IdOf(t) = "listen"
  BY DEF Construct, IdOf
<1>3. q.events # <<>> /\ q.events \in Seq(Events) /\ Received(t) = Head(q.events)
  BY <1>1, <1>2, ReceivedType DEF Construct, Gets, Received
<1>4. queue' = [queue EXCEPT !["listen"] = r, !["acc"] = NewQueue]
  BY <1>1 DEF Construct
<1>5. Received(t).type = "CONNECT_REQUEST"
  BY DEF Construct, Gets, Expected
<1> HIDE DEF q
<1>6. r \in Queues /\ r.events = Tail(q.events) /\ r.inMap = q.inMap
  BY <1>1, <1>3, TailType DEF Queues
<1> HIDE DEF r
<1>7. /\ queue' \in [Ids -> Queues] /\ queue'["listen"] = r /\ queue'["acc"] = NewQueue
      /\ queue'["conn"] = queue["conn"]
  BY <1>1, <1>4, <1>6, NewQueueFields
<1> QED
  BY <1>3, <1>5, <1>6, <1>7 DEF q

LEMMA RemovedQueue ==
    ASSUME TypeInv, NEW i \in Ids, queue' = [queue EXCEPT ![i] = NoQueue]
    PROVE  /\ queue' \in [Ids -> Queues] /\ queue'[i] = NoQueue
           /\ \A j \in Ids \ {i} : queue'[j] = queue[j]
  BY NewQueueFields DEF TypeInv

\* What the actions of the three kinds of thread and of rdma_cm do to the channel
LEMMA ChannelType ==
    ASSUME TypeInv, Next
    PROVE  channel' \in [Ids -> Seq(Events)]
<1> USE DEF TypeInv
<1>0. /\ "conn" \in Ids /\ "acc" \in Ids /\ "listen" \in Ids
      /\ channel \in [Ids -> Seq(Events)]
  BY DEF Ids, Ends
<1>1. ASSUME NEW i \in Ids, NEW event \in Events, channel' = Post(channel, i, event)
      PROVE  channel' \in [Ids -> Seq(Events)]
  BY <1>0, <1>1, PostType
<1>2. ASSUME NEW x \in Events, NEW y \in Events,
             channel' = [channel EXCEPT !["conn"] = Append(@, x), !["acc"] = Append(@, y)]
      PROVE  channel' \in [Ids -> Seq(Events)]
  BY <1>0, <1>2, AppendType
<1>3. /\ session["conn"].connectionData \in Data \cup {"none"}
      /\ session["acc"].connectionData \in Data \cup {"none"}
  BY Names DEF Sessions
<1>4. ASSUME NEW id \in Ids, EventChannelThread(id)
      PROVE  channel' \in [Ids -> Seq(Events)]
  BY <1>0, <1>4, TailType DEF EventChannelThread
<1>5. ASSUME NEW t, RequestConnection(t) PROVE channel' \in [Ids -> Seq(Events)]
  <2>1. CASE channel' = Post(channel, "listen",
                             Event("CONNECT_REQUEST", session["conn"].connectionData))
    BY <1>0, <1>1, <1>3, <2>1, EventType
  <2>2. CASE channel' = Post(channel, "conn", Event("FAILED", "none"))
    BY <1>0, <1>1, <2>2, EventType
  <2> QED
    BY <1>0, <1>5, <2>1, <2>2 DEF RequestConnection
<1>6. ASSUME NEW t, Answer(t) PROVE channel' \in [Ids -> Seq(Events)]
  <2>1. CASE channel' = [channel EXCEPT
                !["conn"] = Append(@, Event("ESTABLISHED", session["acc"].connectionData)),
                !["acc"]  = Append(@, Event("ESTABLISHED", "none"))]
    BY <1>0, <1>2, <1>3, <2>1, EventType
  <2>2. CASE channel' = Post(channel, "conn", Event("FAILED", "none"))
    BY <1>0, <1>1, <2>2, EventType
  <2> QED
    BY <1>0, <1>6, <2>1, <2>2 DEF Answer
<1>7. ASSUME NEW t, NEW type \in {"ADDR_RESOLVED", "ROUTE_RESOLVED", "FAILED"},
             channel' = Post(channel, "conn", Event(type, "none"))
      PROVE  channel' \in [Ids -> Seq(Events)]
  BY <1>0, <1>1, <1>7, EventType
<1>8. ASSUME NEW e \in Ends, rdma_disconnect(e) PROVE channel' \in [Ids -> Seq(Events)]
  <2>1. CASE channel' = [channel EXCEPT !["conn"] = Append(@, Event("DISCONNECTED", "none")),
                                        !["acc"]  = Append(@, Event("DISCONNECTED", "none"))]
    BY <1>0, <1>2, <2>1, EventType
  <2>2. CASE channel' = Post(channel, Other(e), Event("FAILED", "none"))
    <3>1. Other(e) \in Ids
      BY DEF Other, Ends, Ids
    <3> QED
      BY <1>0, <1>1, <2>2, <3>1, EventType
  <2> QED
    BY <1>0, <1>8, <2>1, <2>2 DEF rdma_disconnect
<1>9. ASSUME NEW i \in Ids, channel' = [channel EXCEPT ![i] = <<>>]
      PROVE  channel' \in [Ids -> Seq(Events)]
  BY <1>0, <1>9
<1>10. ASSUME NEW t, SetUp(t, "Send") \/ SetUp(t, "Receive") \/ ResolveRoute(t)
       PROVE  channel' \in [Ids -> Seq(Events)]
  BY <1>0, <1>7, <1>10 DEF SetUp, ResolveRoute
<1>11. ASSUME NEW e \in Ends, JoinHandler(e) \/ DestroyListener
       PROVE  channel' \in [Ids -> Seq(Events)]
  BY <1>0, <1>9, <1>11, Names DEF JoinHandler, DestroyListener, Ids
<1>12. ASSUME NEW t \in Connectors, ConnectStep(t) PROVE channel' \in [Ids -> Seq(Events)]
  <2>1. CASE UNCHANGED channel
    BY <1>0, <2>1
  <2> QED
    BY <1>5, <1>10, <1>12, <2>1
       DEF ConnectStep, Sleep, TestInProgress, ConnectionEstablished, ConnectWaitFails,
           PostConnect, StartThreads,
           ThreadStartFails, SetEverConnected, ClearInProgress, Resume,
           CancelConnect, JoinAckHandler, Directions
<1>13. ASSUME NEW t \in Acceptors, AcceptStep(t) PROVE channel' \in [Ids -> Seq(Events)]
  <2>1. CASE UNCHANGED channel
    BY <1>0, <2>1
  <2> QED
    BY <1>6, <1>13, <2>1
       DEF AcceptStep, Sleep, Construct, AcceptEstablished, AcceptWaitFails,
           AcceptTimesOut, PostConnect, StartThreads, ThreadStartFails,
         AcceptReturns
<1>14. ASSUME NEW e \in Ends,
              \/ HandlerStep(e) \/ AckHandlerEnds(e) \/ CompletionsCancelled(e)
              \/ DestroyStep(e) \/ AbortSession(e) \/ CloseSession(e)
       PROVE  channel' \in [Ids -> Seq(Events)]
  <2>1. CASE UNCHANGED channel
    BY <1>0, <2>1
  <2> QED
    BY <1>8, <1>11, <1>14, <2>1
       DEF HandlerStep, Sleep, HandleEvent, HandlerEnds, AckHandlerEnds,
           CompletionsCancelled, DestroyStep, CancelJoins, Disconnect, JoinCompletions,
           DestroyBase, AbortSession, CloseSession, CancelSession
<1>15. ASSUME NEW t, Connect(t) \/ ConnectTimesOut(t) \/ Accept(t) \/ AcceptTimesOut(t)
                     \/ SpuriousWakeUp(t) \/ CancelListener
       PROVE  channel' \in [Ids -> Seq(Events)]
  BY <1>0, <1>15 DEF Connect, ConnectTimesOut, Accept, AcceptTimesOut, SpuriousWakeUp,
                     CancelListener
<1> QED
  BY <1>4, <1>11, <1>12, <1>13, <1>14, <1>15, Names DEF Next, Progress

\* The queues as the actions of a Connect, an Accept, a session and rdma_cm leave them
LEMMA ConnectorShrinks ==
    ASSUME TypeInv, NEW t \in Connectors, ConnectStep(t) \/ Connect(t) \/ ConnectTimesOut(t)
    PROVE  Shrinks
<1>1. t \in Threads /\ "conn" \in Ids
  BY Names DEF Ids
<1>2. CASE UNCHANGED queue
  BY <1>2, Kept
<1>3. CASE ResolveRoute(t) \/ RequestConnection(t) \/ ConnectionEstablished(t)
  BY <1>1, <1>3, TakesEvent DEF ResolveRoute, RequestConnection, ConnectionEstablished, Gets
<1>4. CASE ConnectWaitFails(t) \/ ConnectTimesOut(t)
  BY <1>1, <1>4, WaitShrinks DEF ConnectWaitFails, ConnectTimesOut
<1>5. CASE CancelConnect(t)
  BY <1>1, <1>5, AbortShrinks DEF CancelConnect
<1> QED
  BY <1>2, <1>3, <1>4, <1>5
     DEF ConnectStep, Connect, Sleep, TestInProgress, SetUp, PostConnect, StartThreads,
         ThreadStartFails,
         SetEverConnected, ClearInProgress, Resume, JoinAckHandler

LEMMA AcceptorShrinks ==
    ASSUME TypeInv, NEW t \in Acceptors, AcceptStep(t) \/ Accept(t) \/ AcceptTimesOut(t),
           \A d \in Directions : ~Construct(t, d)
    PROVE  Shrinks
<1>1. t \in Threads
  BY Names
<1>2. CASE UNCHANGED queue
  BY <1>2, Kept
<1>3. CASE AcceptEstablished(t)
  BY <1>1, <1>3, TakesEvent DEF AcceptEstablished, Gets
<1>4. CASE AcceptWaitFails(t) \/ AcceptTimesOut(t)
  BY <1>1, <1>4, WaitShrinks DEF AcceptWaitFails, AcceptTimesOut
<1> QED
  BY <1>2, <1>3, <1>4 DEF AcceptStep, Accept, Sleep, Answer, PostConnect, StartThreads,
                          ThreadStartFails, AcceptReturns

LEMMA SessionShrinks ==
    ASSUME TypeInv, NEW e \in Ends, ~JoinHandler(e),
           \/ HandlerStep(e) \/ AckHandlerEnds(e) \/ CompletionsCancelled(e)
           \/ DestroyStep(e) \/ AbortSession(e) \/ CloseSession(e) \/ CancelListener
    PROVE  Shrinks
<1>1. e \in Threads /\ e \in Ids /\ "listen" \in Ids /\ "conn" \in Ids
  BY Names DEF Ids
<1>2. CASE UNCHANGED queue
  BY <1>2, Kept
<1>3. CASE HandleEvent(e)
  BY <1>1, <1>3, TakesEvent DEF HandleEvent
<1>4. CASE JoinCompletions(e)
  BY <1>1, <1>4, AbortShrinks DEF JoinCompletions
<1>5. CASE AbortWaits("conn") \/ AbortWaits("listen")
  BY <1>1, <1>5, AbortShrinks
<1> QED
  BY <1>2, <1>3, <1>4, <1>5
     DEF HandlerStep, Sleep, HandlerEnds, AckHandlerEnds, CompletionsCancelled, DestroyStep,
         CancelJoins, Disconnect, DestroyBase, AbortSession, CloseSession, CancelSession,
         CancelListener

LEMMA QueueType ==
    ASSUME TypeInv, Next
    PROVE  queue' \in [Ids -> Queues]
<1>0. "listen" \in Ids /\ Ends \subseteq Ids
  BY DEF Ids
<1>1. ASSUME Shrinks PROVE queue' \in [Ids -> Queues]
  BY <1>1 DEF Shrinks
<1>2. ASSUME NEW t \in Connectors, ConnectStep(t) \/ Connect(t) \/ ConnectTimesOut(t)
      PROVE  Shrinks
  BY <1>2, ConnectorShrinks
<1>3. ASSUME NEW t \in Acceptors, AcceptStep(t) \/ Accept(t) \/ AcceptTimesOut(t)
      PROVE  queue' \in [Ids -> Queues]
  BY <1>1, <1>3, AcceptorShrinks, ConstructQueues
<1>4. ASSUME NEW e \in Ends,
             \/ HandlerStep(e) \/ AckHandlerEnds(e) \/ CompletionsCancelled(e)
             \/ DestroyStep(e) \/ AbortSession(e) \/ CloseSession(e) \/ CancelListener
      PROVE  queue' \in [Ids -> Queues]
  <2>1. CASE JoinHandler(e)
    BY <1>0, <2>1, RemovedQueue DEF JoinHandler
  <2> QED
    BY <1>1, <1>4, <2>1, SessionShrinks
<1>5. ASSUME DestroyListener PROVE queue' \in [Ids -> Queues]
  BY <1>0, <1>5, RemovedQueue DEF DestroyListener
<1>6. ASSUME NEW id \in Ids, EventChannelThread(id) PROVE queue' \in [Ids -> Queues]
  <2>1. Head(channel[id]) \in Events
    BY <1>6, TailType DEF TypeInv, EventChannelThread
  <2> QED
    BY <1>6, <2>1, SignalQueues DEF EventChannelThread
<1>7. ASSUME NEW t, SpuriousWakeUp(t) PROVE queue' \in [Ids -> Queues]
  BY <1>7 DEF SpuriousWakeUp, TypeInv
<1> QED
  BY <1>1, <1>2, <1>3, <1>4, <1>5, <1>6, <1>7, Names DEF Next, Progress

\* The effects together
LEMMA SessionType ==
    ASSUME TypeInv, Next
    PROVE  session' \in [Ends -> Sessions]
<1>0. "conn" \in Ends /\ "acc" \in Ends
  BY Names
<1>1. ASSUME NEW e, NEW F, Updates(e, F) PROVE session' \in [Ends -> Sessions]
  BY <1>1 DEF Updates
<1>2. ASSUME UNCHANGED session PROVE session' \in [Ends -> Sessions]
  BY <1>2 DEF TypeInv
<1>3. ASSUME NEW t \in Threads, PostConnect(t) \/ StartThreads(t)
      PROVE  session' \in [Ends -> Sessions]
  BY <1>1, <1>3, PostConnectEffect, StartThreadsEffect
<1>4. ASSUME NEW t \in Connectors, ConnectStep(t) \/ Connect(t) \/ ConnectTimesOut(t)
      PROVE  session' \in [Ends -> Sessions]
  <2>1. CASE \E d \in Directions : SetUp(t, d)
    BY <1>1, <2>1, SetUpEffect
  <2>2. CASE CancelConnect(t) \/ JoinAckHandler(t)
    BY <1>1, <2>2, CancelConnectEffect, JoinAckHandlerEffect
  <2> QED
    BY <1>2, <1>3, <1>4, <2>1, <2>2, Names, StartFailsEffect
       DEF ConnectStep, Connect, ConnectTimesOut, Sleep, TestInProgress, ResolveRoute,
           RequestConnection, ConnectionEstablished, ConnectWaitFails, SetEverConnected,
           ClearInProgress, Resume
<1>5. ASSUME NEW t \in Acceptors, AcceptStep(t) \/ Accept(t) \/ AcceptTimesOut(t)
      PROVE  session' \in [Ends -> Sessions]
  <2>1. CASE \E d \in Directions : Construct(t, d)
    BY <1>1, <2>1, ConstructEffect
  <2>2. CASE session' = [session EXCEPT !["acc"].destroy = "released"]
    BY <1>1, <2>2, ReleaseEffect
  <2> QED
    BY <1>2, <1>3, <1>5, <2>1, <2>2, Names, StartFailsEffect
       DEF AcceptStep, Accept, AcceptTimesOut, Sleep, Answer, AcceptEstablished,
           AcceptWaitFails, AcceptWaitFailed, AcceptReturns
<1>6. ASSUME NEW e \in Ends,
             \/ HandlerStep(e) \/ AckHandlerEnds(e) \/ CompletionsCancelled(e)
      PROVE  session' \in [Ends -> Sessions]
  BY <1>1, <1>2, <1>6, HandleEventEffect, AckHandlerEndsEffect, CompletionsCancelledEffect
     DEF HandlerStep, Sleep, HandlerEnds
<1>7. ASSUME NEW e \in Ends, AbortSession(e) \/ CloseSession(e)
      PROVE  session' \in [Ends -> Sessions]
  BY <1>1, <1>7, CancelSessionEffect DEF AbortSession, CloseSession, Destroys
<1>8. ASSUME NEW e \in Ends, DestroyStep(e) PROVE session' \in [Ends -> Sessions]
  BY <1>1, <1>8, CancelJoinsEffect, DisconnectEffect, JoinCompletionsEffect,
     JoinHandlerEffect, DestroyBaseEffect DEF DestroyStep
<1>9. ASSUME NEW t, \/ CancelListener \/ DestroyListener \/ SpuriousWakeUp(t)
                    \/ EventChannelThread(t)
      PROVE  session' \in [Ends -> Sessions]
  BY <1>2, <1>9 DEF CancelListener, DestroyListener, SpuriousWakeUp, EventChannelThread
<1> QED
  BY <1>4, <1>5, <1>6, <1>7, <1>8, <1>9 DEF Next, Progress

LEMMA FlagsType ==
    ASSUME TypeInv, Next
    PROVE  flags' \in Flags
<1> USE DEF TypeInv
<1>1. CASE UNCHANGED flags
  BY <1>1
<1>2. ASSUME NEW b \in BOOLEAN, \/ flags' = [flags EXCEPT !.everConnected = b]
                                \/ flags' = [flags EXCEPT !.connectInProgress = b]
                                \/ flags' = [flags EXCEPT !.acceptInProgress = b]
      PROVE  flags' \in Flags
  BY <1>2 DEF Flags
<1>3. ASSUME NEW t \in Connectors, ConnectStep(t) \/ Connect(t) \/ ConnectTimesOut(t)
      PROVE  flags' \in Flags
  BY <1>1, <1>2, <1>3
     DEF ConnectStep, Connect, ConnectTimesOut, Sleep, TestInProgress, SetUp, ResolveRoute,
         RequestConnection, ConnectionEstablished, ConnectWaitFails, PostConnect,
         StartThreads,
           ThreadStartFails, SetEverConnected, ClearInProgress, Resume, CancelConnect,
         JoinAckHandler
<1>4. ASSUME NEW t \in Acceptors, AcceptStep(t) \/ Accept(t) \/ AcceptTimesOut(t)
      PROVE  flags' \in Flags
  BY <1>1, <1>2, <1>4
     DEF AcceptStep, Accept, AcceptTimesOut, Sleep, Construct, Answer, AcceptEstablished,
         AcceptWaitFails, AcceptWaitFailed, PostConnect, StartThreads, ThreadStartFails,
         AcceptReturns
<1>5. ASSUME NEW e \in Ends,
             \/ HandlerStep(e) \/ AckHandlerEnds(e) \/ CompletionsCancelled(e)
             \/ DestroyStep(e) \/ AbortSession(e) \/ CloseSession(e)
      PROVE  UNCHANGED flags
  BY <1>5
     DEF HandlerStep, Sleep, HandleEvent, HandlerEnds, AckHandlerEnds, CompletionsCancelled,
         DestroyStep, CancelJoins, Disconnect, JoinCompletions, JoinHandler, DestroyBase,
         AbortSession, CloseSession, CancelSession
<1>6. ASSUME NEW t, \/ CancelListener \/ DestroyListener \/ SpuriousWakeUp(t)
                    \/ EventChannelThread(t)
      PROVE  UNCHANGED flags
  BY <1>6 DEF CancelListener, DestroyListener, SpuriousWakeUp, EventChannelThread
<1> QED
  BY <1>1, <1>3, <1>4, <1>5, <1>6 DEF Next, Progress

\* Where the steps of a Connect lead
LEMMA ConnectorPlaces ==
    ASSUME TypeInv, NEW t \in Connectors, ConnectStep(t) \/ Connect(t) \/ ConnectTimesOut(t)
    PROVE  PlaceInv'
<1>1. ASSUME UNCHANGED pc PROVE PlaceInv'
  BY <1>1, StaysPut
<1>2. ASSUME NEW p \in Inside \cup {"idle", "test", "resume", "done"}, GoTo(t, p)
      PROVE  PlaceInv'
  BY <1>2, ConnectorGoes
<1>3. \/ UNCHANGED pc \/ GoTo(t, "done") \/ GoTo(t, "test") \/ GoTo(t, "setup")
      \/ GoTo(t, "catch") \/ GoTo(t, "addr") \/ GoTo(t, "unwind") \/ GoTo(t, "route")
      \/ GoTo(t, "connect") \/ GoTo(t, "connected") \/ GoTo(t, "start")
      \/ GoTo(t, "clear") \/ GoTo(t, "resume") \/ GoTo(t, "join") \/ StartThreads(t)
      \/ ThreadStartFails(t)
  BY DEF ConnectStep, Connect, ConnectTimesOut, Sleep, TestInProgress, SetUp, ResolveRoute,
         RequestConnection, ConnectionEstablished, ConnectWaitFails, PostConnect,
         SetEverConnected, ClearInProgress, Resume, CancelConnect, JoinAckHandler
<1> QED
  BY <1>1, <1>2, <1>3, StartThreadsGoes, StartFailsGoes DEF Inside

LEMMA AcceptorPlaces ==
    ASSUME TypeInv, NEW t \in Acceptors, AcceptStep(t) \/ Accept(t) \/ AcceptTimesOut(t)
    PROVE  PlaceInv'
<1>1. ASSUME UNCHANGED pc PROVE PlaceInv'
  BY <1>1, StaysPut
<1>2. ASSUME NEW p \in InAccept \cup {"idle", "done"}, GoTo(t, p)
      PROVE  PlaceInv'
  BY <1>2, AcceptorGoes
<1>3. \/ UNCHANGED pc \/ GoTo(t, "done") \/ GoTo(t, "request") \/ GoTo(t, "validate")
      \/ GoTo(t, "failed") \/ GoTo(t, "established") \/ GoTo(t, "connected")
      \/ GoTo(t, "start") \/ StartThreads(t) \/ ThreadStartFails(t)
  BY DEF AcceptStep, Accept, AcceptTimesOut, Sleep, Construct, Answer, AcceptEstablished,
         AcceptWaitFails, AcceptWaitFailed, PostConnect, AcceptReturns
<1> QED
  BY <1>1, <1>2, <1>3, StartThreadsGoes, StartFailsGoes DEF InAccept

LEMMA PlaceType ==
    ASSUME TypeInv, Next
    PROVE  PlaceInv'
<1>1. ASSUME UNCHANGED pc PROVE PlaceInv'
  BY <1>1, StaysPut
<1>2. ASSUME NEW e \in Ends,
             \/ HandlerStep(e) \/ AckHandlerEnds(e) \/ CompletionsCancelled(e)
             \/ DestroyStep(e) \/ AbortSession(e) \/ CloseSession(e)
      PROVE  PlaceInv'
  <2>1. UNCHANGED pc \/ GoTo(e, "ended") \/ GoTo(e, "crashed")
    BY <1>2
       DEF HandlerStep, Sleep, HandleEvent, HandlerEnds, AckHandlerEnds,
           CompletionsCancelled, DestroyStep, CancelJoins, Disconnect, JoinCompletions,
           JoinHandler, DestroyBase, AbortSession, CloseSession, CancelSession
  <2> QED
    BY <1>1, <2>1, HandlerGoes
<1>3. ASSUME NEW t, \/ CancelListener \/ DestroyListener \/ SpuriousWakeUp(t)
                    \/ EventChannelThread(t)
      PROVE  UNCHANGED pc
  BY <1>3 DEF CancelListener, DestroyListener, SpuriousWakeUp, EventChannelThread
<1> QED
  BY <1>1, <1>2, <1>3, ConnectorPlaces, AcceptorPlaces DEF Next, Progress

LEMMA NextType == ASSUME TypeInv, Next PROVE TypeInv'
  BY QueueType, SessionType, FlagsType, PlaceType, ChannelType DEF TypeInv

-----------------------------------------------------------------------------
(* Access to the connector's session                                       *)

\* Steps that are no matter of access
LEMMA AccessFrame ==
    ASSUME AccessInv, UNCHANGED holder, flags'.connectInProgress = flags.connectInProgress,
           session'["conn"].destroy \in {"aborting", "closing"}
               <=> session["conn"].destroy \in {"aborting", "closing"},
           session["conn"].destroy \in Early => session'["conn"].destroy \in Early,
           \A t \in Connectors :
               /\ pc'[t] \in HasAccess <=> pc[t] \in HasAccess
               /\ pc'[t] \in Inside => pc[t] \in Inside
               /\ pc[t] \in {"idle", "done"} => pc'[t] \in {"idle", "done"}
    PROVE  AccessInv'
  BY DEF AccessInv

LEMMA ConnectorKeepsAccess ==
    ASSUME TypeInv, AccessInv, NEW t \in Connectors,
           ConnectStep(t) \/ Connect(t) \/ ConnectTimesOut(t)
    PROVE  AccessInv'
<1> USE DEF TypeInv
<1>0. /\ t \in Threads /\ "conn" \in Ends /\ EndOf(t) = "conn"
      /\ Connectors \subseteq Threads /\ "conn" \notin Connectors
      /\ pc \in [Threads -> Places] /\ flags \in Flags
      /\ NoThread \notin Connectors /\ "canceller" \notin Connectors /\ NoThread # "canceller"
  BY Names DEF EndOf, PlaceInv
<1>1. ASSUME UNCHANGED session PROVE session'["conn"].destroy = session["conn"].destroy
  BY <1>1
<1>2. ASSUME NEW F, Updates("conn", F), "destroy" \notin F
      PROVE  session'["conn"].destroy = session["conn"].destroy
  BY <1>2 DEF Updates, SameBut
<1>3. CASE Sleep(t)
  BY <1>3, AccessFrame DEF Sleep
<1>4. CASE Connect(t)
  <2>1. /\ pc[t] = "idle" /\ holder = NoThread /\ session["conn"].destroy = "no"
        /\ UNCHANGED <<session, flags>>
        /\ \/ pc' = [pc EXCEPT ![t] = "done"] /\ UNCHANGED holder
           \/ pc' = [pc EXCEPT ![t] = "test"] /\ holder' = t
    BY <1>4 DEF Connect, GoTo, ConnectorIsOpen
  <2>2. CASE pc' = [pc EXCEPT ![t] = "done"] /\ UNCHANGED holder
    BY <1>0, <2>1, <2>2, AccessFrame DEF HasAccess, Inside
  <2>3. CASE pc' = [pc EXCEPT ![t] = "test"] /\ holder' = t
    BY <1>0, <2>1, <2>3 DEF AccessInv, HasAccess, Inside, Early
  <2> QED
    BY <2>1, <2>2, <2>3
<1>5. CASE TestInProgress(t)
  <2>1. /\ pc[t] = "test" /\ UNCHANGED session /\ holder = t
    BY <1>5 DEF TestInProgress, AccessInv, HasAccess
  <2>2. CASE pc' = [pc EXCEPT ![t] = "done"] /\ holder' = NoThread /\ UNCHANGED flags
    BY <1>0, <2>1, <2>2 DEF AccessInv, HasAccess, Inside
  <2>3. CASE /\ ~flags.connectInProgress /\ pc' = [pc EXCEPT ![t] = "setup"]
             /\ flags' = [flags EXCEPT !.connectInProgress = TRUE] /\ UNCHANGED holder
    <3>1. flags'.connectInProgress
      BY <1>0, <2>3 DEF Flags
    <3> QED
      BY <1>0, <2>1, <2>3, <3>1 DEF AccessInv, HasAccess, Inside
  <2> QED
    BY <1>5, <2>2, <2>3 DEF TestInProgress, GoTo
<1>6. ASSUME NEW d \in Directions, SetUp(t, d) PROVE AccessInv'
  <2>1. session'["conn"].destroy = session["conn"].destroy
    BY <1>2, <1>6, SetUpEffect
  <2>2. pc[t] = "setup" /\ UNCHANGED flags /\ holder = t
    BY <1>6 DEF SetUp, AccessInv, HasAccess
  <2>3. CASE pc' = [pc EXCEPT ![t] = "catch"] /\ UNCHANGED holder
    BY <1>0, <2>1, <2>2, <2>3, AccessFrame DEF HasAccess, Inside
  <2>4. ASSUME NEW p \in {"addr", "unwind"}, pc' = [pc EXCEPT ![t] = p], holder' = NoThread
        PROVE  AccessInv'
    BY <1>0, <2>1, <2>2, <2>4 DEF AccessInv, HasAccess, Inside
  <2> QED
    BY <1>6, <2>3, <2>4 DEF SetUp, GoTo
<1>7. CASE \/ ResolveRoute(t) \/ RequestConnection(t) \/ ConnectionEstablished(t)
           \/ ConnectWaitFails(t) \/ ConnectTimesOut(t)
  <2>1. /\ pc[t] \in {"addr", "route", "connect"} /\ UNCHANGED <<session, flags, holder>>
        /\ \E p \in {"route", "connect", "connected", "unwind"} : GoTo(t, p)
    BY <1>7 DEF ResolveRoute, RequestConnection, ConnectionEstablished, ConnectWaitFails,
                ConnectTimesOut
  <2> QED
    BY <1>0, <2>1, AccessFrame DEF GoTo, HasAccess, Inside
<1>8. CASE PostConnect(t)
  <2>1. session'["conn"].destroy = session["conn"].destroy
    BY <1>0, <1>2, <1>8, PostConnectEffect
  <2>2. pc[t] = "connected" /\ UNCHANGED <<flags, holder>> /\ pc' = [pc EXCEPT ![t] = "start"]
    BY <1>8 DEF PostConnect, GoTo
  <2> QED
    BY <1>0, <2>1, <2>2, AccessFrame DEF HasAccess, Inside
<1>9. CASE StartThreads(t)
  <2>1. session'["conn"].destroy = session["conn"].destroy
    BY <1>0, <1>2, <1>9, StartThreadsEffect
  <2>2. pc[t] = "start" /\ UNCHANGED <<flags, holder>>
    BY <1>9 DEF StartThreads
  <2>3. pc'[t] = "ever" /\ \A u \in Connectors \ {t} : pc'[u] = pc[u]
    BY <1>0, <1>9, StartThreadsGoes
  <2> QED
    BY <1>0, <2>1, <2>2, <2>3, AccessFrame DEF HasAccess, Inside
<1>15. CASE ThreadStartFails(t)
  <2>1. pc[t] = "start" /\ UNCHANGED <<session, flags, holder>>
    BY <1>15, StartFailsEffect
  <2>2. pc'[t] = "unwind" /\ \A u \in Connectors \ {t} : pc'[u] = pc[u]
    BY <1>0, <1>15, StartFailsGoes
  <2> QED
    BY <1>0, <2>1, <2>2, AccessFrame DEF HasAccess, Inside
<1>10. CASE SetEverConnected(t)
  <2>1. /\ pc[t] = "ever" /\ UNCHANGED <<session, holder>>
        /\ pc' = [pc EXCEPT ![t] = "clear"]
        /\ flags'.connectInProgress = flags.connectInProgress
    BY <1>0, <1>10 DEF SetEverConnected, GoTo, Flags
  <2> QED
    BY <1>0, <2>1, AccessFrame DEF HasAccess, Inside
<1>11. CASE ClearInProgress(t)
  <2>1. /\ pc[t] = "clear" /\ UNCHANGED <<session, holder>>
        /\ pc' = [pc EXCEPT ![t] = "resume"]
    BY <1>11 DEF ClearInProgress, GoTo
  <2> QED
    BY <1>0, <2>1 DEF AccessInv, HasAccess, Inside
<1>12. CASE Resume(t)
  <2>1. holder = NoThread /\ UNCHANGED <<session, flags>>
    BY <1>12 DEF Resume
  <2>2. CASE pc[t] = "resume" /\ pc' = [pc EXCEPT ![t] = "done"] /\ UNCHANGED holder
    BY <1>0, <2>1, <2>2, AccessFrame DEF HasAccess, Inside
  <2>3. CASE pc[t] = "unwind" /\ pc' = [pc EXCEPT ![t] = "catch"] /\ holder' = t
    BY <1>0, <2>1, <2>3 DEF AccessInv, HasAccess, Inside
  <2> QED
    BY <1>12, <2>2, <2>3 DEF Resume, GoTo
<1>13. CASE CancelConnect(t)
  <2>1. session'["conn"].destroy = session["conn"].destroy
    BY <1>2, <1>13, CancelConnectEffect
  <2>2. pc[t] = "catch" /\ UNCHANGED <<flags, holder>> /\ pc' = [pc EXCEPT ![t] = "join"]
    BY <1>13 DEF CancelConnect, GoTo
  <2> QED
    BY <1>0, <2>1, <2>2, AccessFrame DEF HasAccess, Inside
<1>14. CASE JoinAckHandler(t)
  <2>1. session'["conn"].destroy = session["conn"].destroy
    BY <1>2, <1>14, JoinAckHandlerEffect
  <2>2. pc[t] = "join" /\ holder' = NoThread /\ pc' = [pc EXCEPT ![t] = "done"]
    BY <1>14 DEF JoinAckHandler, GoTo
  <2>3. holder = t
    BY <2>2 DEF AccessInv, HasAccess
  <2> QED
    BY <1>0, <2>1, <2>2, <2>3 DEF AccessInv, HasAccess, Inside
<1> QED
  BY <1>3, <1>4, <1>5, <1>6, <1>7, <1>8, <1>9, <1>10, <1>11, <1>12, <1>13, <1>14,
     <1>15 DEF ConnectStep

\* An Accept leaves alone what a Connect works with.
LEMMA AcceptorFrame ==
    ASSUME TypeInv, NEW t \in Acceptors, AcceptStep(t) \/ Accept(t) \/ AcceptTimesOut(t)
    PROVE  /\ UNCHANGED holder /\ session'["conn"] = session["conn"]
           /\ flags'.everConnected = flags.everConnected
           /\ flags'.connectInProgress = flags.connectInProgress
           /\ \A u \in Threads \ {t, "acc"} : pc'[u] = pc[u]
<1>0. /\ t \in Threads /\ "acc" \in Ends /\ "conn" \in Ends /\ EndOf(t) = "acc"
      /\ pc \in [Threads -> Places] /\ flags \in Flags
  BY Names DEF EndOf, TypeInv, PlaceInv
<1>1. UNCHANGED holder
  BY DEF AcceptStep, Accept, AcceptTimesOut, Sleep, Construct, Answer, AcceptEstablished,
         AcceptWaitFails, PostConnect, StartThreads, ThreadStartFails,
         AcceptReturns
<1>2. session'["conn"] = session["conn"]
  <2>1. ASSUME NEW F, Updates("acc", F) PROVE session'["conn"] = session["conn"]
    BY <1>0, <2>1 DEF Updates
  <2>2. CASE \E d \in Directions : Construct(t, d)
    BY <2>1, <2>2, ConstructEffect
  <2>3. CASE session' = [session EXCEPT !["acc"].destroy = "released"]
    BY <2>1, <2>3, ReleaseEffect
  <2>4. CASE PostConnect(t) \/ StartThreads(t)
    BY <1>0, <2>1, <2>4, PostConnectEffect, StartThreadsEffect
  <2> QED
    BY <2>2, <2>3, <2>4, StartFailsEffect
       DEF AcceptStep, Accept, AcceptTimesOut, Sleep, Answer, AcceptEstablished,
           AcceptWaitFails, AcceptWaitFailed, AcceptReturns
<1>3. /\ flags'.everConnected = flags.everConnected
      /\ flags'.connectInProgress = flags.connectInProgress
  <2>1. UNCHANGED flags \/ \E b \in BOOLEAN : flags' = [flags EXCEPT !.acceptInProgress = b]
    BY DEF AcceptStep, Accept, AcceptTimesOut, Sleep, Construct, Answer, AcceptEstablished,
           AcceptWaitFails, AcceptWaitFailed, PostConnect, StartThreads, ThreadStartFails,
         AcceptReturns
  <2> QED
    BY <1>0, <2>1 DEF Flags
<1>4. \A u \in Threads \ {t, "acc"} : pc'[u] = pc[u]
  <2>1. UNCHANGED pc \/ (\E p : GoTo(t, p)) \/ StartThreads(t)
        \/ ThreadStartFails(t)
    BY DEF AcceptStep, Accept, AcceptTimesOut, Sleep, Construct, Answer, AcceptEstablished,
           AcceptWaitFails, AcceptWaitFailed, PostConnect, AcceptReturns
  <2>2. CASE StartThreads(t) \/ ThreadStartFails(t)
    BY <1>0, <2>2, StartThreadsGoes, StartFailsGoes
  <2> QED
    BY <1>0, <2>1, <2>2 DEF GoTo
<1> QED
  BY <1>1, <1>2, <1>3, <1>4

\* A step of a session's threads, or of those that cancel or destroy the session
SessionStep(e) ==
    \/ HandlerStep(e) \/ AckHandlerEnds(e) \/ CompletionsCancelled(e)
    \/ DestroyStep(e) \/ AbortSession(e) \/ CloseSession(e)

LEMMA SessionFrame ==
    ASSUME TypeInv, NEW e \in Ends, SessionStep(e)
    PROVE  /\ UNCHANGED flags
           /\ \A f \in Ends \ {e} : session'[f] = session[f]
           /\ session'[e].direction = session[e].direction
           /\ session'[e].connectionData = session[e].connectionData
           /\ session'[e].peerData = session[e].peerData
           /\ JoinHandler(e) \/ session'[e].createdQp = session[e].createdQp
           /\ \A u \in Threads \ {e} : pc'[u] = pc[u]
           /\ \/ pc'[e] = pc[e]
              \/ pc[e] = "handle" /\ pc'[e] \in {"ended", "crashed"}
<1>1. UNCHANGED flags
  BY DEF SessionStep, HandlerStep, Sleep, HandleEvent, HandlerEnds, AckHandlerEnds,
         CompletionsCancelled, DestroyStep, CancelJoins, Disconnect, JoinCompletions,
         JoinHandler, DestroyBase, AbortSession, CloseSession, CancelSession
<1>2. /\ \A f \in Ends \ {e} : session'[f] = session[f]
      /\ session'[e].direction = session[e].direction
      /\ session'[e].connectionData = session[e].connectionData
      /\ session'[e].peerData = session[e].peerData
      /\ JoinHandler(e) \/ session'[e].createdQp = session[e].createdQp
  <2>1. CASE UNCHANGED session
    BY <2>1
  <2>2. ASSUME Updates(e, {"connected", "createdQp", "destroy"})
        PROVE  /\ \A f \in Ends \ {e} : session'[f] = session[f]
               /\ session'[e].direction = session[e].direction
               /\ session'[e].connectionData = session[e].connectionData
               /\ session'[e].peerData = session[e].peerData
    BY <2>2 DEF Updates, SameBut
  <2>3. CASE JoinHandler(e)
    BY <2>2, <2>3, JoinHandlerEffect
  <2>4. CASE Updates(e, {"connected", "completions", "ackHandler", "destroy"})
    BY <2>4 DEF Updates, SameBut
  <2>5. ASSUME NEW F, Updates(e, F),
               F \subseteq {"connected", "completions", "ackHandler", "destroy"}
        PROVE  Updates(e, {"connected", "completions", "ackHandler", "destroy"})
    BY <2>5 DEF Updates, SameBut
  <2>6. CASE HandleEvent(e) \/ AckHandlerEnds(e) \/ CompletionsCancelled(e)
    BY <2>4, <2>5, <2>6, HandleEventEffect, AckHandlerEndsEffect, CompletionsCancelledEffect
  <2>7. CASE AbortSession(e) \/ CloseSession(e)
    BY <2>4, <2>5, <2>7, CancelSessionEffect DEF AbortSession, CloseSession, Destroys
  <2>8. CASE CancelJoins(e) \/ Disconnect(e) \/ JoinCompletions(e) \/ DestroyBase(e)
    BY <2>4, <2>5, <2>8, CancelJoinsEffect, DisconnectEffect, JoinCompletionsEffect,
       DestroyBaseEffect
  <2> QED
    BY <2>1, <2>3, <2>6, <2>7, <2>8 DEF SessionStep, HandlerStep, Sleep, HandlerEnds,
                                        DestroyStep
<1>3. /\ \A u \in Threads \ {e} : pc'[u] = pc[u]
      /\ \/ pc'[e] = pc[e]
         \/ pc[e] = "handle" /\ pc'[e] \in {"ended", "crashed"}
  <2>1. \/ UNCHANGED pc
        \/ pc[e] = "handle" /\ \E p \in {"ended", "crashed"} : GoTo(e, p)
    BY DEF SessionStep, HandlerStep, Sleep, HandleEvent, HandlerEnds, AckHandlerEnds,
           CompletionsCancelled, DestroyStep, CancelJoins, Disconnect, JoinCompletions,
           JoinHandler, DestroyBase, AbortSession, CloseSession, CancelSession
  <2> QED
    BY <2>1, HandlerGoes
<1> QED
  BY <1>1, <1>2, <1>3

\* The steps that change no member of a session and no place
LEMMA QuietFrame ==
    ASSUME NEW t, \/ CancelListener \/ DestroyListener \/ SpuriousWakeUp(t)
                  \/ EventChannelThread(t)
    PROVE  UNCHANGED <<session, flags, holder, pc>>
  BY DEF CancelListener, DestroyListener, SpuriousWakeUp, EventChannelThread

LEMMA SessionKeepsAccess ==
    ASSUME TypeInv, AccessInv, NEW e \in Ends, SessionStep(e)
    PROVE  AccessInv'
<1>0. /\ \A t \in Connectors : pc'[t] = pc[t]
      /\ flags'.connectInProgress = flags.connectInProgress
      /\ e # "conn" => session'["conn"] = session["conn"]
      /\ "conn" \in Ends /\ "conn" # "acc" /\ (e = "conn" \/ e = "acc")
      /\ NoThread \notin Connectors /\ "canceller" \notin Connectors /\ NoThread # "canceller"
  BY SessionFrame, Names
<1>1. CASE AbortSession(e) \/ CloseSession(e)
  <2>1. PICK d \in {"aborting", "closing"} : CancelSession(e, d)
    BY <1>1 DEF AbortSession, CloseSession
  <2>2. session[e].destroy = "no" /\ session'[e].destroy = d
    BY <2>1, CancelSessionEffect DEF CancelSession, Destroys
  <2>3. CASE e = "conn" /\ holder = NoThread /\ holder' = "canceller"
    BY <1>0, <2>2, <2>3 DEF AccessInv, Early
  <2>4. CASE e = "acc" /\ UNCHANGED holder
    BY <1>0, <2>4, AccessFrame
  <2> QED
    BY <2>1, <2>3, <2>4 DEF CancelSession
<1>2. CASE CancelJoins(e)
  <2>1. session[e].destroy \in {"aborting", "closing"}
    BY <1>2 DEF CancelJoins
  <2>2. session'[e].destroy \in {"no", "released"}
    BY <1>2, CancelJoinsEffect
  <2>3. CASE e = "conn" /\ holder' = NoThread
    BY <1>0, <2>1, <2>2, <2>3 DEF AccessInv, Early
  <2>4. CASE e # "conn" /\ UNCHANGED holder
    BY <1>0, <2>4, AccessFrame
  <2> QED
    BY <1>2, <2>3, <2>4 DEF CancelJoins
<1>3. CASE Disconnect(e)
  <2>1. /\ session[e].destroy = "released" /\ UNCHANGED holder
        /\ e = "conn" => \A t \in Connectors : pc[t] \in {"idle", "done"}
    BY <1>3 DEF Disconnect
  <2>2. session'[e].destroy = "disconnected"
    BY <1>3, DisconnectEffect
  <2>3. CASE e = "conn"
    BY <1>0, <2>1, <2>2, <2>3 DEF AccessInv
  <2>4. CASE e # "conn"
    BY <1>0, <2>1, <2>4, AccessFrame
  <2> QED
    BY <2>3, <2>4
<1>4. CASE JoinCompletions(e) \/ JoinHandler(e) \/ DestroyBase(e)
  <2>1. /\ session[e].destroy \in {"disconnected", "aborted", "idDestroyed"}
        /\ UNCHANGED holder
    BY <1>4 DEF JoinCompletions, JoinHandler, DestroyBase
  <2>2. session'[e].destroy \in {"aborted", "idDestroyed", "gone"}
    BY <1>4, JoinCompletionsEffect, JoinHandlerEffect, DestroyBaseEffect
  <2> QED
    BY <1>0, <2>1, <2>2, AccessFrame DEF Early
<1>5. CASE HandlerStep(e) \/ AckHandlerEnds(e) \/ CompletionsCancelled(e)
  <2>1. UNCHANGED holder
    BY <1>5 DEF HandlerStep, Sleep, HandleEvent, HandlerEnds, AckHandlerEnds,
                CompletionsCancelled
  <2>2. session'[e].destroy = session[e].destroy
    <3>1. CASE UNCHANGED session
      BY <3>1
    <3>2. ASSUME NEW F, Updates(e, F), "destroy" \notin F
          PROVE  session'[e].destroy = session[e].destroy
      BY <3>2 DEF Updates, SameBut
    <3> QED
      BY <1>5, <3>1, <3>2, HandleEventEffect, AckHandlerEndsEffect,
         CompletionsCancelledEffect DEF HandlerStep, Sleep, HandlerEnds
  <2> QED
    BY <1>0, <2>1, <2>2, AccessFrame
<1> QED
  BY <1>1, <1>2, <1>3, <1>4, <1>5 DEF SessionStep, DestroyStep

LEMMA NextAccess == ASSUME TypeInv, AccessInv, Next PROVE AccessInv'
<1>1. ASSUME NEW t \in Acceptors, AcceptStep(t) \/ Accept(t) \/ AcceptTimesOut(t)
      PROVE  AccessInv'
  BY <1>1, AcceptorFrame, AccessFrame, Names
<1>2. ASSUME NEW t, \/ CancelListener \/ DestroyListener \/ SpuriousWakeUp(t)
                    \/ EventChannelThread(t)
      PROVE  AccessInv'
  BY <1>2, QuietFrame, AccessFrame
<1> QED
  BY <1>1, <1>2, ConnectorKeepsAccess, SessionKeepsAccess DEF Next, Progress, SessionStep

-----------------------------------------------------------------------------
(* The handler of the connector's session                                  *)

\* The queue of the connector's id stays, and so do aborted waits.
ConnQueueStays == queue'["conn"].inMap = queue["conn"].inMap /\ (Aborted => Aborted')

LEMMA ShrinksStays == ASSUME Shrinks PROVE ConnQueueStays
  BY DEF Shrinks, ConnQueueStays, Aborted, Ids, Ends

Late == {"route", "connect", "connected", "start"}

LEMMA ConnectFrame ==
    ASSUME ConnectInv, flags'.everConnected = flags.everConnected, ConnQueueStays,
           session["conn"].createdQp => session'["conn"].createdQp,
           pc'["conn"] = "none" <=> pc["conn"] = "none",
           \A t \in Connectors :
               /\ pc'[t] \in Made => pc[t] \in Made
               /\ pc'[t] \in Late => pc[t] \in Late
               /\ pc'[t] = "addr" => pc[t] = "addr"
               /\ pc'[t] \in {"test", "setup"} => pc[t] \in {"test", "setup"}
               /\ pc'[t] = "join" => pc[t] = "join" \/ Aborted'
               /\ pc[t] \in {"ever", "unwind", "catch"} =>
                     pc'[t] \in {"ever", "unwind", "catch"} \/ Aborted'
    PROVE  ConnectInv'
<1>1. /\ queue'["conn"].inMap = queue["conn"].inMap
      /\ Aborted => Aborted'
  BY DEF ConnQueueStays
<1> HIDE DEF ConnQueueStays
<1> QED
  BY <1>1 DEF ConnectInv, Late

LEMMA AbortsConn == ASSUME TypeInv, AbortWaits("conn") PROVE Aborted'
<1>1. "conn" \in Ids /\ queue \in [Ids -> Queues] /\ queue["conn"] \in Queues
  BY DEF TypeInv, Ids, Ends
<1> QED
  BY <1>1 DEF AbortWaits, Aborted, Queues

LEMMA ConnectorKeepsConnect ==
    ASSUME TypeInv, AccessInv, ConnectInv, DestroyInv, NEW t \in Connectors,
           ConnectStep(t) \/ Connect(t) \/ ConnectTimesOut(t)
    PROVE  ConnectInv'
<1> USE DEF TypeInv
<1>0. /\ t \in Threads /\ "conn" \in Ends /\ EndOf(t) = "conn" /\ "conn" \in Threads
      /\ Connectors \subseteq Threads /\ "conn" \notin Connectors
      /\ pc \in [Threads -> Places] /\ flags \in Flags
      /\ session["conn"].createdQp \in BOOLEAN
  BY Names DEF EndOf, PlaceInv, Sessions
<1>1. ConnQueueStays
  BY ConnectorShrinks, ShrinksStays
<1>2. ASSUME NEW F, Updates("conn", F), "createdQp" \notin F
      PROVE  session'["conn"].createdQp = session["conn"].createdQp
  BY <1>2 DEF Updates, SameBut
<1>3. CASE Sleep(t)
  BY <1>1, <1>3, ConnectFrame DEF Sleep
<1>4. CASE Connect(t)
  <2>1. pc[t] = "idle" /\ holder = NoThread /\ session["conn"].destroy = "no"
        /\ UNCHANGED <<queue, session, flags>>
    BY <1>4 DEF Connect, ConnectorIsOpen
  <2>2. CASE pc' = [pc EXCEPT ![t] = "done"]
    BY <1>0, <1>1, <2>1, <2>2, ConnectFrame DEF Made, Late
  <2>3. CASE ~flags.everConnected /\ pc' = [pc EXCEPT ![t] = "test"]
    <3>1. Aborted' <=> Aborted
      BY <2>1 DEF Aborted
    <3>2. queue["conn"].inMap /\ queue' = queue
      BY <2>1 DEF DestroyInv
    <3>3. pc["conn"] # "none" => session["conn"].createdQp \/ Aborted
      <4>1. ASSUME pc["conn"] # "none", ~Aborted PROVE session["conn"].createdQp
        <5>1. PICK u \in Connectors : pc[u] \in {"ever", "unwind", "catch"}
          BY <2>3, <3>2, <4>1 DEF ConnectInv
        <5>2. pc[u] # "catch"
          <6>1. holder = u <=> pc[u] \in HasAccess
            BY <5>1 DEF AccessInv
          <6> QED
            BY <1>0, <2>1, <5>1, <6>1, Names DEF HasAccess
        <5> QED
          BY <5>1, <5>2 DEF ConnectInv, Made
      <4> QED
        BY <4>1
    <3>4. /\ pc'[t] = "test" /\ pc'["conn"] = pc["conn"]
          /\ \A u \in Connectors \ {t} : pc'[u] = pc[u]
      BY <1>0, <2>3
    <3> QED
      BY <2>1, <3>1, <3>2, <3>3, <3>4 DEF ConnectInv, Made
  <2> QED
    BY <1>4, <2>2, <2>3 DEF Connect, GoTo
<1>5. CASE TestInProgress(t)
  <2>1. /\ pc[t] = "test" /\ UNCHANGED session
        /\ flags'.everConnected = flags.everConnected
        /\ \/ pc' = [pc EXCEPT ![t] = "done"]
           \/ pc' = [pc EXCEPT ![t] = "setup"]
    BY <1>0, <1>5 DEF TestInProgress, GoTo, Flags
  <2> QED
    BY <1>0, <1>1, <2>1, ConnectFrame DEF Made, Late
<1>6. ASSUME NEW d \in Directions, SetUp(t, d) PROVE ConnectInv'
  <2>1. /\ session'["conn"].createdQp <=> session["conn"].createdQp \/ pc'[t] # "catch"
        /\ session["conn"].createdQp => pc'[t] = "catch"
    BY <1>6, SetUpEffect
  <2>2. pc[t] = "setup" /\ UNCHANGED <<flags, queue>>
    BY <1>6 DEF SetUp
  <2>3. CASE pc' = [pc EXCEPT ![t] = "catch"]
    BY <1>0, <1>1, <2>1, <2>2, <2>3, ConnectFrame DEF Made, Late
  <2>4. ASSUME NEW p \in {"addr", "unwind"}, pc' = [pc EXCEPT ![t] = p]
        PROVE  ConnectInv'
    <3>1. pc'[t] = p /\ pc'["conn"] = pc["conn"] /\ \A u \in Connectors \ {t} : pc'[u] = pc[u]
      BY <1>0, <2>4
    <3>2. session'["conn"].createdQp /\ ~session["conn"].createdQp
      BY <1>0, <2>1, <3>1
    <3>3. pc["conn"] = "none" \/ Aborted
      BY <2>2, <3>2 DEF ConnectInv
    <3>4. Aborted' <=> Aborted
      BY <2>2 DEF Aborted
    <3> QED
      BY <2>2, <3>1, <3>2, <3>3, <3>4 DEF ConnectInv, Made
  <2> QED
    BY <1>6, <2>3, <2>4 DEF SetUp, GoTo
<1>7. CASE \/ RequestConnection(t) \/ ConnectionEstablished(t)
           \/ ConnectWaitFails(t) \/ ConnectTimesOut(t)
  <2>1. /\ UNCHANGED <<session, flags>>
        /\ \/ pc[t] \in Late /\ GoTo(t, "connect")
           \/ pc[t] \in Late /\ GoTo(t, "connected")
           \/ pc[t] \in Made /\ pc[t] # "ever" /\ GoTo(t, "unwind")
    BY <1>7 DEF RequestConnection, ConnectionEstablished, ConnectWaitFails,
                ConnectTimesOut, Late, Made
  <2>2. CASE pc[t] \in Made /\ pc[t] # "ever" /\ GoTo(t, "unwind")
    BY <1>0, <1>1, <2>1, <2>2, ConnectFrame DEF GoTo, Made, Late
  <2>3. ASSUME NEW p \in {"connect", "connected"}, pc[t] \in Late, GoTo(t, p)
        PROVE  ConnectInv'
    BY <1>0, <1>1, <2>1, <2>3, ConnectFrame DEF GoTo, Made, Late
  <2> QED
    BY <2>1, <2>2, <2>3
<1>16. CASE ResolveRoute(t)
  <2>1. /\ pc[t] = "addr" /\ UNCHANGED <<session, flags>> /\ ~Aborted
        /\ GoTo(t, "route") \/ GoTo(t, "unwind")
    <3>1. IdOf(t) = "conn"
      BY <1>0, <1>16 DEF ResolveRoute, IdOf
    <3> QED
      BY <1>16, <3>1 DEF ResolveRoute, Gets, Receives, Aborted
  <2>2. CASE GoTo(t, "unwind")
    BY <1>0, <1>1, <2>1, <2>2, ConnectFrame DEF GoTo, Made, Late
  <2>3. CASE GoTo(t, "route")
    <3>1. pc'[t] = "route" /\ pc'["conn"] = pc["conn"]
          /\ \A u \in Connectors \ {t} : pc'[u] = pc[u]
      BY <1>0, <2>3 DEF GoTo
    <3>2. pc["conn"] = "none" /\ session["conn"].createdQp
      BY <2>1 DEF ConnectInv, Made
    <3>3. \A u \in Connectors \ {t} : pc[u] \notin Inside
      BY <2>1 DEF AccessInv, Inside
    <3> QED
      BY <2>1, <3>1, <3>2, <3>3 DEF ConnectInv, Made, Inside
  <2> QED
    BY <2>1, <2>2, <2>3
<1>8. CASE PostConnect(t)
  <2>1. session'["conn"].createdQp = session["conn"].createdQp
    BY <1>0, <1>2, <1>8, PostConnectEffect
  <2>2. pc[t] = "connected" /\ UNCHANGED flags /\ pc' = [pc EXCEPT ![t] = "start"]
    BY <1>8 DEF PostConnect, GoTo
  <2> QED
    BY <1>0, <1>1, <2>1, <2>2, ConnectFrame DEF Made, Late
<1>9. CASE StartThreads(t)
  <2>1. session'["conn"].createdQp = session["conn"].createdQp
    BY <1>0, <1>2, <1>9, StartThreadsEffect
  <2>2. pc[t] = "start" /\ UNCHANGED flags
    BY <1>9 DEF StartThreads
  <2>3. pc'[t] = "ever" /\ \A u \in Connectors \ {t} : pc'[u] = pc[u]
    BY <1>0, <1>9, StartThreadsGoes
  <2>4. session'["conn"].createdQp
    BY <2>1, <2>2 DEF ConnectInv, Made
  <2>5. \A u \in Connectors \ {t} : pc[u] \notin Inside
    BY <2>2 DEF AccessInv, Inside
  <2>6. Aborted => Aborted'
    BY <1>1 DEF ConnQueueStays
  <2> QED
    BY <2>2, <2>3, <2>4, <2>5, <2>6 DEF ConnectInv, Inside, Made
<1>15. CASE ThreadStartFails(t)
  <2>1. pc[t] = "start" /\ UNCHANGED <<flags, session, queue>>
    BY <1>15, StartFailsEffect
  <2>2. pc'[t] = "unwind" /\ \A u \in Connectors \ {t} : pc'[u] = pc[u]
    BY <1>0, <1>15, StartFailsGoes
  <2>3. session'["conn"].createdQp
    BY <2>1 DEF ConnectInv, Made
  <2>4. \A u \in Connectors \ {t} : pc[u] \notin Inside
    BY <2>1 DEF AccessInv, Inside
  <2> QED
    BY <2>1, <2>2, <2>3, <2>4 DEF ConnectInv, Inside, Made
<1>10. CASE SetEverConnected(t)
  <2>1. /\ pc[t] = "ever" /\ UNCHANGED session /\ pc' = [pc EXCEPT ![t] = "clear"]
        /\ flags'.everConnected
    BY <1>0, <1>10 DEF SetEverConnected, GoTo, Flags
  <2>2. Aborted => Aborted'
    BY <1>1 DEF ConnQueueStays
  <2>3. /\ pc'[t] = "clear" /\ pc'["conn"] = pc["conn"]
        /\ \A u \in Connectors \ {t} : pc'[u] = pc[u]
    BY <1>0, <2>1
  <2> QED
    BY <2>1, <2>2, <2>3 DEF ConnectInv, Made
<1>11. CASE ClearInProgress(t) \/ Resume(t)
  <2>1. /\ pc[t] \in {"clear", "resume", "unwind"} /\ UNCHANGED session
        /\ flags'.everConnected = flags.everConnected
        /\ \/ pc[t] # "unwind" /\ GoTo(t, "resume")
           \/ pc[t] # "unwind" /\ GoTo(t, "done")
           \/ pc[t] = "unwind" /\ GoTo(t, "catch")
    BY <1>0, <1>11 DEF ClearInProgress, Resume, Flags
  <2> QED
    BY <1>0, <1>1, <2>1, ConnectFrame DEF GoTo, Made, Late
<1>13. CASE CancelConnect(t)
  <2>1. session'["conn"].createdQp = session["conn"].createdQp
    BY <1>2, <1>13, CancelConnectEffect
  <2>2. pc[t] = "catch" /\ UNCHANGED flags /\ pc' = [pc EXCEPT ![t] = "join"]
    BY <1>13 DEF CancelConnect, GoTo
  <2>3. Aborted'
    BY <1>13, AbortsConn DEF CancelConnect
  <2> QED
    BY <1>0, <1>1, <2>1, <2>2, <2>3, ConnectFrame DEF Made, Late
<1>14. CASE JoinAckHandler(t)
  <2>1. /\ pc[t] = "join" /\ pc' = [pc EXCEPT ![t] = "done"]
        /\ flags'.everConnected = flags.everConnected
    BY <1>0, <1>14 DEF JoinAckHandler, GoTo, Flags
  <2>2. \A u \in Connectors \ {t} : pc[u] \notin Inside \cup HasAccess
    BY <2>1 DEF AccessInv, Inside, HasAccess
  <2>3. Aborted'
    BY <1>1, <2>1 DEF ConnectInv, ConnQueueStays
  <2>4. pc'[t] = "done" /\ \A u \in Connectors \ {t} : pc'[u] = pc[u]
    BY <1>0, <2>1
  <2> QED
    BY <2>1, <2>2, <2>3, <2>4 DEF ConnectInv, Made, Inside, HasAccess
<1> QED
  BY <1>3, <1>4, <1>5, <1>6, <1>7, <1>8, <1>9, <1>10, <1>11, <1>13, <1>14,
     <1>15, <1>16 DEF ConnectStep

LEMMA NextConnect ==
    ASSUME TypeInv, AccessInv, ConnectInv, DestroyInv, Next
    PROVE  ConnectInv'
<1>0. "conn" \in Ends /\ Connectors \subseteq Threads /\ "conn" \in Threads /\ "conn" # "acc"
      /\ Connectors \cap Ends = {} /\ Connectors \cap Acceptors = {} /\ Ends \cap Acceptors = {}
  BY Names
<1>1. ASSUME NEW t \in Acceptors, AcceptStep(t) \/ Accept(t) \/ AcceptTimesOut(t)
      PROVE  ConnectInv'
  <2>1. ASSUME NEW d \in Directions, Construct(t, d) PROVE ConnQueueStays
    <3>1. queue' = [queue EXCEPT !["listen"].events = Tail(@), !["acc"] = NewQueue]
      BY <2>1 DEF Construct
    <3>2. queue'["conn"] = queue["conn"]
      BY <3>1 DEF TypeInv, Ids, Ends
    <3> QED
      BY <3>2 DEF ConnQueueStays, Aborted
  <2>2. ConnQueueStays
    BY <1>1, <2>1, AcceptorShrinks, ShrinksStays
  <2> QED
    BY <1>0, <1>1, <2>2, AcceptorFrame, ConnectFrame, Names
<1>2. ASSUME NEW t, \/ CancelListener \/ DestroyListener \/ SpuriousWakeUp(t)
                    \/ EventChannelThread(t)
      PROVE  ConnectInv'
  <2>1. ASSUME CancelListener PROVE ConnQueueStays
    BY <2>1, AbortShrinks, ShrinksStays DEF CancelListener, Ids
  <2>2. ASSUME DestroyListener PROVE ConnQueueStays
    BY <2>2 DEF DestroyListener, ConnQueueStays, Aborted, TypeInv, Ids, Ends
  <2>3. ASSUME SpuriousWakeUp(t) PROVE ConnQueueStays
    BY <2>3 DEF SpuriousWakeUp, ConnQueueStays, Aborted
  <2>4. ASSUME EventChannelThread(t) PROVE ConnQueueStays
    <3>1. UNCHANGED queue \/ \E x : queue' = [queue EXCEPT ![t].events = Append(@, x)]
      BY <2>4 DEF EventChannelThread, SignalEvent
    <3>2. queue["conn"] \in Queues /\ queue \in [Ids -> Queues] /\ "conn" \in Ids
      BY <1>0 DEF TypeInv, Ids
    <3>3. /\ queue'["conn"].inMap = queue["conn"].inMap
          /\ queue'["conn"].waitAborted = queue["conn"].waitAborted
      BY <3>1, <3>2 DEF Queues
    <3> QED
      BY <3>3 DEF ConnQueueStays, Aborted
  <2>5. ConnQueueStays
    BY <1>2, <2>1, <2>2, <2>3, <2>4
  <2> QED
    BY <1>2, <2>5, QuietFrame, ConnectFrame
<1>3. ASSUME NEW e \in Ends, SessionStep(e) PROVE ConnectInv'
  <2>1. /\ UNCHANGED flags /\ \A t \in Connectors : pc'[t] = pc[t]
        /\ pc'["conn"] = "none" <=> pc["conn"] = "none"
    BY <1>0, <1>3, SessionFrame
  <2>2. CASE session'["conn"].createdQp = session["conn"].createdQp /\ ConnQueueStays
    BY <2>1, <2>2, ConnectFrame
  <2>3. CASE e = "conn" /\ JoinHandler(e)
    <3>1. session["conn"].destroy \notin Early
      BY <2>3 DEF JoinHandler, Early
    <3>2. \A t \in Connectors : pc[t] \in {"idle", "done"}
      BY <3>1 DEF AccessInv
    <3>3. ~queue'["conn"].inMap
      BY <1>0, <2>3 DEF JoinHandler, NoQueue, TypeInv, Ids, NewQueue
    <3> QED
      BY <2>1, <3>2, <3>3 DEF ConnectInv, Made
  <2>4. ASSUME e # "conn", JoinHandler(e) PROVE ConnQueueStays
    BY <1>0, <2>4 DEF JoinHandler, TypeInv, Ids, ConnQueueStays, Aborted
  <2>5. ASSUME ~JoinHandler(e) PROVE ConnQueueStays
    BY <1>3, <2>5, SessionShrinks, ShrinksStays DEF SessionStep
  <2> QED
    BY <1>0, <1>3, <2>2, <2>3, <2>4, <2>5, SessionFrame
<1> QED
  BY <1>1, <1>2, <1>3, ConnectorKeepsConnect DEF Next, Progress, SessionStep

-----------------------------------------------------------------------------
(* The accepted session                                                    *)

\* A Connect leaves alone what an Accept works with.
LEMMA ConnectorFrame ==
    ASSUME TypeInv, NEW t \in Connectors, ConnectStep(t) \/ Connect(t) \/ ConnectTimesOut(t)
    PROVE  /\ session'["acc"] = session["acc"]
           /\ flags'.acceptInProgress = flags.acceptInProgress
           /\ \A u \in Threads \ {t, "conn"} : pc'[u] = pc[u]
           /\ \A i \in Ids : queue'[i].inMap = queue[i].inMap
<1>0. /\ t \in Threads /\ "acc" \in Ends /\ "conn" \in Ends /\ EndOf(t) = "conn"
      /\ pc \in [Threads -> Places] /\ flags \in Flags
  BY Names DEF EndOf, TypeInv, PlaceInv
<1>1. \A i \in Ids : queue'[i].inMap = queue[i].inMap
  BY ConnectorShrinks DEF Shrinks
<1>2. session'["acc"] = session["acc"]
  <2>1. ASSUME NEW F, Updates("conn", F) PROVE session'["acc"] = session["acc"]
    BY <1>0, <2>1 DEF Updates
  <2>2. CASE \E d \in Directions : SetUp(t, d)
    BY <2>1, <2>2, SetUpEffect
  <2>3. CASE CancelConnect(t) \/ JoinAckHandler(t)
    BY <2>1, <2>3, CancelConnectEffect, JoinAckHandlerEffect
  <2>4. CASE PostConnect(t) \/ StartThreads(t)
    BY <1>0, <2>1, <2>4, PostConnectEffect, StartThreadsEffect
  <2> QED
    BY <2>2, <2>3, <2>4, StartFailsEffect
       DEF ConnectStep, Connect, ConnectTimesOut, Sleep, TestInProgress, ResolveRoute,
           RequestConnection, ConnectionEstablished, ConnectWaitFails, SetEverConnected,
           ClearInProgress, Resume
<1>3. flags'.acceptInProgress = flags.acceptInProgress
  <2>1. UNCHANGED flags \/ \E b \in BOOLEAN : \/ flags' = [flags EXCEPT !.everConnected = b]
                                              \/ flags' = [flags EXCEPT !.connectInProgress = b]
    BY DEF ConnectStep, Connect, ConnectTimesOut, Sleep, TestInProgress, SetUp, ResolveRoute,
           RequestConnection, ConnectionEstablished, ConnectWaitFails, PostConnect,
           StartThreads,
           ThreadStartFails, SetEverConnected, ClearInProgress, Resume, CancelConnect,
           JoinAckHandler
  <2> QED
    BY <1>0, <2>1 DEF Flags
<1>4. \A u \in Threads \ {t, "conn"} : pc'[u] = pc[u]
  <2>1. UNCHANGED pc \/ (\E p : GoTo(t, p)) \/ StartThreads(t)
        \/ ThreadStartFails(t)
    BY DEF ConnectStep, Connect, ConnectTimesOut, Sleep, TestInProgress, SetUp, ResolveRoute,
           RequestConnection, ConnectionEstablished, ConnectWaitFails, PostConnect,
           SetEverConnected, ClearInProgress, Resume, CancelConnect, JoinAckHandler
  <2>2. CASE StartThreads(t) \/ ThreadStartFails(t)
    BY <1>0, <2>2, StartThreadsGoes, StartFailsGoes
  <2> QED
    BY <1>0, <2>1, <2>2 DEF GoTo
<1> QED
  BY <1>1, <1>2, <1>3, <1>4

LEMMA AcceptFrame ==
    ASSUME AcceptInv, flags'.acceptInProgress = flags.acceptInProgress,
           session'["acc"].direction = session["acc"].direction,
           session'["acc"].destroy = session["acc"].destroy,
           queue'["listen"].inMap = queue["listen"].inMap,
           pc'["acc"] = "none" <=> pc["acc"] = "none",
           \A t \in Acceptors :
               /\ pc'[t] \in InAccept => pc[t] \in InAccept
               /\ pc'[t] = "request" => pc[t] = "request"
               /\ pc[t] \in {"idle", "request", "done"} =>
                     pc'[t] \in {"idle", "request", "done"}
               /\ pc'[t] \in {"validate", "established", "connected", "start"} =>
                     pc[t] \in {"validate", "established", "connected", "start"}
    PROVE  AcceptInv'
  BY DEF AcceptInv

LEMMA AcceptorKeepsAccept ==
    ASSUME TypeInv, AcceptInv, NEW t \in Acceptors,
           AcceptStep(t) \/ Accept(t) \/ (pc[t] \in {"request", "established"} /\ AcceptTimesOut(t))
    PROVE  AcceptInv'
<1> USE DEF TypeInv
<1>0. /\ t \in Threads /\ "acc" \in Ends /\ EndOf(t) = "acc" /\ "acc" \in Threads
      /\ Acceptors \subseteq Threads /\ "acc" \notin Acceptors /\ t \notin Connectors
      /\ pc \in [Threads -> Places] /\ flags \in Flags /\ "listen" \in Ids
  BY Names DEF EndOf, PlaceInv, Ids
<1>1. (\A d \in Directions : ~Construct(t, d)) =>
          queue'["listen"].inMap = queue["listen"].inMap
  BY <1>0, AcceptorShrinks DEF Shrinks
<1>2. ASSUME NEW F, Updates("acc", F), "direction" \notin F
      PROVE  session'["acc"].direction = session["acc"].direction
  BY <1>2 DEF Updates, SameBut
<1>3. ASSUME NEW F, Updates("acc", F), "destroy" \notin F
      PROVE  session'["acc"].destroy = session["acc"].destroy
  BY <1>3 DEF Updates, SameBut
<1>4. CASE Sleep(t)
  BY <1>4, AcceptFrame DEF Sleep
<1>5. CASE Accept(t)
  <2>1. /\ pc[t] = "idle" /\ queue["listen"].inMap /\ UNCHANGED <<session, queue>>
        /\ flags.acceptInProgress \/ session["acc"].direction = "Unknown"
    BY <1>5 DEF Accept
  <2>2. CASE pc' = [pc EXCEPT ![t] = "done"] /\ UNCHANGED flags
    BY <1>0, <2>1, <2>2, AcceptFrame DEF InAccept
  <2>3. CASE /\ ~flags.acceptInProgress
             /\ pc' = [pc EXCEPT ![t] = "request"]
             /\ flags' = [flags EXCEPT !.acceptInProgress = TRUE]
    <3>1. flags'.acceptInProgress
      BY <1>0, <2>3 DEF Flags
    <3>2. pc'[t] = "request" /\ \A u \in Threads \ {t} : pc'[u] = pc[u]
      BY <1>0, <2>3
    <3>3. \A u \in Acceptors : pc[u] \notin InAccept
      BY <2>3 DEF AcceptInv
    <3> QED
      BY <1>0, <2>1, <2>3, <3>1, <3>2, <3>3 DEF AcceptInv, InAccept
  <2> QED
    BY <1>5, <2>2, <2>3 DEF Accept, GoTo
<1>6. ASSUME NEW d \in Directions, Construct(t, d) PROVE AcceptInv'
  <2>1. pc[t] = "request" /\ UNCHANGED flags
    BY <1>6 DEF Construct
  <2>2. /\ session'["acc"].direction = d /\ d # "Unknown"
        /\ \/ /\ pc' = [pc EXCEPT ![t] = "validate"]
              /\ session'["acc"].destroy = session["acc"].destroy
           \/ pc' = [pc EXCEPT ![t] = "failed"]
    BY <1>6, ConstructEffect DEF Directions
  <2>3. /\ session["acc"].direction = "Unknown" /\ pc["acc"] = "none"
        /\ session["acc"].destroy = "no"
    BY <2>1 DEF AcceptInv
  <2>4. \A u \in Acceptors \ {t} : pc[u] \notin InAccept /\ pc'[u] = pc[u]
    BY <1>0, <2>1, <2>2 DEF AcceptInv, InAccept
  <2>5. /\ pc'["acc"] = "none"
        /\ \/ pc'[t] = "validate" /\ session'["acc"].destroy = "no"
           \/ pc'[t] = "failed"
    BY <1>0, <2>2, <2>3
  <2>6. flags'.acceptInProgress
    BY <2>1 DEF AcceptInv, InAccept
  <2>7. \A u, v \in Acceptors : pc'[u] \in InAccept /\ pc'[v] \in InAccept => u = v
    BY <2>4
  <2>8. \A u \in Acceptors : pc'[u] # "request"
    BY <2>4, <2>5 DEF InAccept
  <2>9. \A u \in Acceptors :
           pc'[u] \in {"validate", "established", "connected", "start"} =>
               pc'["acc"] = "none" /\ session'["acc"].destroy = "no"
    BY <2>4, <2>5 DEF InAccept
  <2> QED
    BY <2>2, <2>6, <2>7, <2>8, <2>9 DEF AcceptInv
<1>7. CASE Answer(t) \/ AcceptEstablished(t)
  <2>1. /\ pc[t] \in {"validate", "established"} /\ UNCHANGED flags
        /\ \/ /\ UNCHANGED session /\ \E p \in {"established", "connected"} : GoTo(t, p)
           \/ /\ session' = [session EXCEPT !["acc"].destroy = "released"]
              /\ GoTo(t, "failed")
    BY <1>7 DEF Answer, AcceptEstablished
  <2>2. queue'["listen"].inMap = queue["listen"].inMap
    BY <1>1, <2>1 DEF Construct
  <2>3. CASE UNCHANGED session /\ \E p \in {"established", "connected"} : GoTo(t, p)
    BY <1>0, <2>1, <2>2, <2>3, AcceptFrame DEF GoTo, InAccept
  <2>4. CASE /\ session' = [session EXCEPT !["acc"].destroy = "released"]
             /\ pc' = [pc EXCEPT ![t] = "failed"]
    <3>1. session'["acc"].direction = session["acc"].direction
      BY <1>2, <2>4, ReleaseEffect
    <3>2. session["acc"].direction # "Unknown"
      BY <2>1 DEF AcceptInv
    <3>3. pc'[t] = "failed" /\ \A u \in Acceptors \ {t} : pc'[u] = pc[u]
      BY <1>0, <2>4
    <3>4. \A u \in Acceptors \ {t} : pc[u] \notin InAccept
      BY <2>1 DEF AcceptInv, InAccept
    <3>5. flags'.acceptInProgress
      BY <2>1 DEF AcceptInv, InAccept
    <3> QED
      BY <3>1, <3>2, <3>3, <3>4, <3>5 DEF AcceptInv, InAccept
  <2> QED
    BY <2>1, <2>3, <2>4 DEF GoTo
<1>8. CASE AcceptWaitFailed(t)
  <2>1. CASE /\ pc[t] = "request" /\ pc' = [pc EXCEPT ![t] = "done"]
             /\ flags' = [flags EXCEPT !.acceptInProgress = FALSE] /\ UNCHANGED session
    <3>1. pc'[t] = "done" /\ \A u \in Threads \ {t} : pc'[u] = pc[u]
      BY <1>0, <2>1
    <3>2. \A u \in Acceptors \ {t} : pc[u] \notin InAccept
      BY <2>1 DEF AcceptInv, InAccept
    <3> QED
      BY <1>0, <2>1, <3>1, <3>2 DEF AcceptInv, InAccept
  <2>2. CASE /\ pc[t] = "established" /\ pc' = [pc EXCEPT ![t] = "failed"]
             /\ session' = [session EXCEPT !["acc"].destroy = "released"] /\ UNCHANGED flags
    <3>1. session'["acc"].direction = session["acc"].direction
      BY <1>2, <2>2, ReleaseEffect
    <3>2. session["acc"].direction # "Unknown"
      BY <2>2 DEF AcceptInv
    <3>3. pc'[t] = "failed" /\ \A u \in Acceptors \ {t} : pc'[u] = pc[u]
      BY <1>0, <2>2
    <3>4. \A u \in Acceptors \ {t} : pc[u] \notin InAccept
      BY <2>2 DEF AcceptInv, InAccept
    <3>5. flags'.acceptInProgress
      BY <2>2 DEF AcceptInv, InAccept
    <3> QED
      BY <3>1, <3>2, <3>3, <3>4, <3>5 DEF AcceptInv, InAccept
  <2> QED
    BY <1>8, <2>1, <2>2 DEF AcceptWaitFailed, GoTo
<1>9. CASE PostConnect(t)
  <2>1. /\ session'["acc"].direction = session["acc"].direction
        /\ session'["acc"].destroy = session["acc"].destroy
    BY <1>0, <1>2, <1>3, <1>9, PostConnectEffect
  <2>2. /\ pc[t] = "connected" /\ UNCHANGED <<flags, queue>>
        /\ pc' = [pc EXCEPT ![t] = "start"]
    BY <1>9 DEF PostConnect, GoTo
  <2> QED
    BY <1>0, <2>1, <2>2, AcceptFrame DEF InAccept
<1>10. CASE StartThreads(t)
  <2>1. session'["acc"].direction = session["acc"].direction
    BY <1>0, <1>2, <1>10, StartThreadsEffect
  <2>2. pc[t] = "start" /\ UNCHANGED flags
    BY <1>10 DEF StartThreads
  <2>3. pc'[t] = "accepted" /\ \A u \in Acceptors \ {t} : pc'[u] = pc[u]
    BY <1>0, <1>10, StartThreadsGoes
  <2>4. session["acc"].direction # "Unknown"
    BY <2>2 DEF AcceptInv
  <2>5. \A u \in Acceptors \ {t} : pc[u] \notin InAccept
    BY <2>2 DEF AcceptInv, InAccept
  <2>6. flags'.acceptInProgress
    BY <2>2 DEF AcceptInv, InAccept
  <2> QED
    BY <2>1, <2>3, <2>4, <2>5, <2>6 DEF AcceptInv, InAccept
<1>12. CASE ThreadStartFails(t)
  <2>1. /\ pc[t] = "start" /\ UNCHANGED flags
        /\ session' = [session EXCEPT !["acc"].destroy = "released"]
    BY <1>12, StartFailsEffect
  <2>2. session'["acc"].direction = session["acc"].direction
    BY <1>2, <2>1, ReleaseEffect
  <2>3. pc'[t] = "failed" /\ \A u \in Acceptors \ {t} : pc'[u] = pc[u]
    BY <1>0, <1>12, StartFailsGoes
  <2>4. session["acc"].direction # "Unknown"
    BY <2>1 DEF AcceptInv
  <2>5. \A u \in Acceptors \ {t} : pc[u] \notin InAccept
    BY <2>1 DEF AcceptInv, InAccept
  <2>6. flags'.acceptInProgress
    BY <2>1 DEF AcceptInv, InAccept
  <2> QED
    BY <2>2, <2>3, <2>4, <2>5, <2>6 DEF AcceptInv, InAccept
<1>11. CASE AcceptReturns(t)
  <2>1. /\ pc[t] \in {"accepted", "failed"} /\ pc' = [pc EXCEPT ![t] = "done"]
        /\ UNCHANGED <<session, queue>>
    BY <1>11 DEF AcceptReturns, GoTo
  <2>2. pc'[t] = "done" /\ \A u \in Threads \ {t} : pc'[u] = pc[u]
    BY <1>0, <2>1
  <2>3. \A u \in Acceptors \ {t} : pc[u] \notin InAccept
    BY <2>1 DEF AcceptInv, InAccept
  <2> QED
    BY <1>0, <2>1, <2>2, <2>3 DEF AcceptInv, InAccept
<1> QED
  BY <1>4, <1>5, <1>6, <1>7, <1>8, <1>9, <1>10, <1>11, <1>12
     DEF AcceptStep, AcceptWaitFails, AcceptTimesOut

\* Only the last steps of a session and of the listener remove a queue.
LEMMA QueueStays ==
    ASSUME TypeInv
    PROVE  /\ \A e \in Ends : SessionStep(e) =>
                 \A i \in Ids \ {e} : queue'[i].inMap = queue[i].inMap
           /\ \A e \in Ends : SessionStep(e) /\ ~JoinHandler(e) =>
                 \A i \in Ids : queue'[i].inMap = queue[i].inMap
           /\ \A i \in Ids : EventChannelThread(i) =>
                 \A j \in Ids : queue'[j].inMap = queue[j].inMap
           /\ CancelListener => \A i \in Ids : queue'[i].inMap = queue[i].inMap
           /\ DestroyListener => \A i \in Ids \ {"listen"} : queue'[i].inMap = queue[i].inMap
<1>0. Ends \subseteq Ids /\ "listen" \in Ids /\ "conn" \in Ends
  BY Names DEF Ids
<1>1. ASSUME Shrinks PROVE \A i \in Ids : queue'[i].inMap = queue[i].inMap
  BY <1>1 DEF Shrinks
<1>2. ASSUME NEW e \in Ends, SessionStep(e), ~JoinHandler(e)
      PROVE  \A i \in Ids : queue'[i].inMap = queue[i].inMap
  BY <1>1, <1>2, SessionShrinks DEF SessionStep
<1>3. ASSUME NEW e \in Ends, JoinHandler(e)
      PROVE  \A i \in Ids \ {e} : queue'[i].inMap = queue[i].inMap
  BY <1>0, <1>3, RemovedQueue DEF JoinHandler
<1>4. ASSUME NEW i \in Ids, EventChannelThread(i)
      PROVE  \A j \in Ids : queue'[j].inMap = queue[j].inMap
  <2>1. Head(channel[i]) \in Events
    BY <1>4, TailType DEF TypeInv, EventChannelThread
  <2> QED
    BY <1>4, <2>1, SignalQueues DEF EventChannelThread
<1>5. ASSUME CancelListener PROVE \A i \in Ids : queue'[i].inMap = queue[i].inMap
  BY <1>0, <1>1, <1>5, AbortShrinks DEF CancelListener
<1>6. ASSUME DestroyListener
      PROVE  \A i \in Ids \ {"listen"} : queue'[i].inMap = queue[i].inMap
  BY <1>0, <1>6, RemovedQueue DEF DestroyListener
<1> QED
  BY <1>2, <1>3, <1>4, <1>5, <1>6

LEMMA NextAccept ==
    ASSUME TypeInv, AcceptInv, Next
    PROVE  AcceptInv'
<1>0. /\ "acc" \in Ends /\ "conn" \in Ends /\ Acceptors \subseteq Threads /\ "acc" \in Threads
      /\ "conn" # "acc" /\ Connectors \cap Ends = {} /\ Connectors \cap Acceptors = {}
      /\ Ends \cap Acceptors = {} /\ "listen" \in Ids /\ "listen" \notin Ends
      /\ Ends = {"conn", "acc"}
  BY Names DEF Ids, Ends
<1>1. ASSUME NEW t \in Connectors, ConnectStep(t) \/ Connect(t) \/ ConnectTimesOut(t)
      PROVE  AcceptInv'
  BY <1>0, <1>1, ConnectorFrame, AcceptFrame
<1>2. ASSUME NEW e \in Ends, SessionStep(e) PROVE AcceptInv'
  <2>1. /\ UNCHANGED flags /\ \A t \in Acceptors : pc'[t] = pc[t]
        /\ session'["acc"].direction = session["acc"].direction
        /\ pc'["acc"] = "none" <=> pc["acc"] = "none"
    BY <1>0, <1>2, SessionFrame
  <2>2. queue'["listen"].inMap = queue["listen"].inMap
    BY <1>0, <1>2, QueueStays
  <2>3. CASE session'["acc"].destroy = session["acc"].destroy
    BY <2>1, <2>2, <2>3, AcceptFrame
  <2>4. CASE /\ e = "acc" /\ pc["acc"] # "none"
             /\ \A t \in Acceptors : pc[t] \in {"idle", "request", "done"}
    BY <2>1, <2>2, <2>4 DEF AcceptInv
  <2>5. CASE e = "acc" /\ session["acc"].destroy # "no"
    BY <2>1, <2>2, <2>5 DEF AcceptInv
  <2>6. ASSUME e = "acc", AbortSession(e) \/ CloseSession(e)
        PROVE  pc["acc"] # "none" /\ \A t \in Acceptors : pc[t] \in {"idle", "request", "done"}
    BY <1>0, <2>6 DEF AbortSession, CloseSession, CancelSession
  <2>7. ASSUME e = "acc", DestroyStep(e) PROVE session["acc"].destroy # "no"
    BY <2>7 DEF DestroyStep, CancelJoins, Disconnect, JoinCompletions, JoinHandler, DestroyBase
  <2>8. ASSUME HandlerStep(e) \/ AckHandlerEnds(e) \/ CompletionsCancelled(e)
        PROVE  session'["acc"].destroy = session["acc"].destroy
    <3>1. CASE UNCHANGED session
      BY <3>1
    <3>2. ASSUME NEW F, Updates(e, F), "destroy" \notin F
          PROVE  session'["acc"].destroy = session["acc"].destroy
      BY <1>0, <3>2 DEF Updates, SameBut
    <3> QED
      BY <2>8, <3>1, <3>2, HandleEventEffect, AckHandlerEndsEffect,
         CompletionsCancelledEffect DEF HandlerStep, Sleep, HandlerEnds
  <2>9. e = "conn" => session'["acc"].destroy = session["acc"].destroy
    BY <1>0, <1>2, SessionFrame
  <2> QED
    BY <1>0, <1>2, <2>3, <2>4, <2>5, <2>6, <2>7, <2>8, <2>9 DEF SessionStep
<1>3. ASSUME NEW t \in Threads, SpuriousWakeUp(t) PROVE AcceptInv'
  BY <1>3, AcceptFrame DEF SpuriousWakeUp
<1>4. ASSUME NEW i \in Ids, EventChannelThread(i) \/ CancelListener PROVE AcceptInv'
  BY <1>0, <1>4, QueueStays, QuietFrame, AcceptFrame
<1>5. CASE DestroyListener
  <2>1. /\ UNCHANGED <<session, flags, pc>>
        /\ \A t \in Acceptors : pc[t] \in {"idle", "done"}
    BY <1>5 DEF DestroyListener
  <2> QED
    BY <2>1 DEF AcceptInv
<1>6. ASSUME NEW t \in Acceptors, AcceptStep(t) \/ Accept(t)
                 \/ (pc[t] = "request" /\ AcceptTimesOut(t))
      PROVE  AcceptInv'
  BY <1>6, AcceptorKeepsAccept
<1> QED
  BY <1>0, <1>1, <1>2, <1>3, <1>4, <1>5, <1>6 DEF Next, Progress, SessionStep

-----------------------------------------------------------------------------
(* The destruction of a session                                            *)

LEMMA JoinedFrame ==
    ASSUME NEW e, JoinedInv(e), session'[e].destroy = session[e].destroy,
           session'[e].completions = "running" => session[e].completions = "running",
           session'[e].ackHandler = "running" => session[e].ackHandler = "running",
           HandlerIsOver(e) => HandlerIsOver(e)'
    PROVE  JoinedInv(e)'
  BY DEF JoinedInv

LEMMA NotJoined ==
    ASSUME NEW e, session'[e].destroy \in Early \cup {"disconnected"}
    PROVE  JoinedInv(e)'
  BY DEF JoinedInv, Early

LEMMA ConnectorKeepsDestroy ==
    ASSUME TypeInv, NEW t \in Connectors, ConnectStep(t) \/ Connect(t) \/ ConnectTimesOut(t)
    PROVE  session'["conn"].destroy = session["conn"].destroy
<1>1. CASE UNCHANGED session
  BY <1>1
<1>2. ASSUME NEW F, Updates("conn", F), "destroy" \notin F
      PROVE  session'["conn"].destroy = session["conn"].destroy
  BY <1>2 DEF Updates, SameBut
<1>3. t \in Threads /\ EndOf(t) = "conn"
  BY Names DEF EndOf
<1>4. CASE \E d \in Directions : SetUp(t, d)
  BY <1>2, <1>4, SetUpEffect
<1>5. CASE CancelConnect(t) \/ JoinAckHandler(t)
  BY <1>2, <1>5, CancelConnectEffect, JoinAckHandlerEffect
<1>6. CASE PostConnect(t) \/ StartThreads(t)
  BY <1>2, <1>3, <1>6, PostConnectEffect, StartThreadsEffect
<1> QED
  BY <1>1, <1>4, <1>5, <1>6, StartFailsEffect
     DEF ConnectStep, Connect, ConnectTimesOut, Sleep, TestInProgress, ResolveRoute,
         RequestConnection, ConnectionEstablished, ConnectWaitFails, SetEverConnected,
         ClearInProgress, Resume

LEMMA ConnectorKeepsQueues ==
    ASSUME TypeInv, AccessInv, DestroyInv, NEW t \in Connectors,
           ConnectStep(t) \/ Connect(t) \/ ConnectTimesOut(t)
    PROVE  DestroyInv'
<1>0. /\ Ends = {"conn", "acc"} /\ "conn" # "acc" /\ t \in Threads /\ "acc" \in Threads
      /\ "acc" # t /\ "conn" \in Ids /\ "acc" \in Ids
      /\ JoinedInv("conn") /\ JoinedInv("acc")
  BY Names DEF Ids, DestroyInv
<1>1. /\ session'["acc"] = session["acc"] /\ pc'["acc"] = pc["acc"]
      /\ queue'["conn"].inMap = queue["conn"].inMap
      /\ queue'["acc"].inMap = queue["acc"].inMap
  BY <1>0, ConnectorFrame
<1>2. JoinedInv("acc")'
  BY <1>0, <1>1, JoinedFrame DEF HandlerIsOver
<1>3. session'["conn"].destroy = session["conn"].destroy
  BY ConnectorKeepsDestroy
<1>4. JoinedInv("conn")'
  <2>1. CASE pc[t] \in {"idle", "done"}
    <3>1. Connect(t)
      BY <2>1 DEF ConnectStep, ConnectTimesOut, Sleep, TimesOut, Waits, Expected,
            TestInProgress, SetUp, ResolveRoute, RequestConnection, ConnectionEstablished,
            ConnectWaitFails, PostConnect, StartThreads,
           ThreadStartFails, SetEverConnected, ClearInProgress,
            Resume, CancelConnect, JoinAckHandler
    <3>2. UNCHANGED session /\ pc'["conn"] = pc["conn"]
      BY <1>0, <3>1, Names DEF Connect, GoTo, TypeInv, PlaceInv
    <3> QED
      BY <1>0, <3>2, JoinedFrame DEF HandlerIsOver
  <2>2. CASE pc[t] \notin {"idle", "done"}
    BY <1>3, <2>2, NotJoined DEF AccessInv
  <2> QED
    BY <2>1, <2>2
<1> QED
  BY <1>0, <1>1, <1>2, <1>3, <1>4 DEF DestroyInv

LEMMA AcceptorKeepsQueues ==
    ASSUME TypeInv, AcceptInv, DestroyInv, NEW t \in Acceptors,
           AcceptStep(t) \/ Accept(t) \/ (pc[t] \in {"request", "established"} /\ AcceptTimesOut(t))
    PROVE  DestroyInv'
<1>0. /\ Ends = {"conn", "acc"} /\ "conn" # "acc" /\ t \in Threads /\ "conn" \in Threads
      /\ "acc" \in Threads /\ "conn" # t /\ "acc" # t /\ "conn" \in Ids /\ "acc" \in Ids
      /\ EndOf(t) = "acc" /\ pc \in [Threads -> Places]
      /\ JoinedInv("conn") /\ JoinedInv("acc")
  BY Names DEF Ids, EndOf, DestroyInv, TypeInv, PlaceInv
<1>1. session'["conn"] = session["conn"] /\ pc'["conn"] = pc["conn"]
  BY <1>0, AcceptorFrame
<1>2. JoinedInv("conn")'
  BY <1>0, <1>1, JoinedFrame DEF HandlerIsOver
<1>3. CASE \E d \in Directions : Construct(t, d)
  <2>1. PICK d \in Directions : Construct(t, d)
    BY <1>3
  <2>2. /\ queue'["conn"].inMap = queue["conn"].inMap /\ queue'["acc"].inMap = TRUE
    BY <2>1, ConstructQueues, NewQueueFields
  <2>3. session'["acc"].direction # "Unknown"
    BY <2>1, ConstructEffect DEF Directions
  <2>4. session["acc"].destroy = "no"
    BY <2>1 DEF Construct, AcceptInv
  <2>5. session'["acc"].destroy \in Early
    BY <2>1, <2>4, ConstructEffect DEF Early
  <2>6. JoinedInv("acc")'
    BY <2>5, NotJoined
  <2> QED
    BY <1>0, <1>1, <1>2, <2>2, <2>3, <2>5, <2>6 DEF DestroyInv, Early
<1>4. CASE \A d \in Directions : ~Construct(t, d)
  <2>1. \A i \in Ids : queue'[i].inMap = queue[i].inMap
    BY <1>4, AcceptorShrinks DEF Shrinks
  <2>2. ASSUME session'["acc"].direction = session["acc"].direction,
               session["acc"].destroy \in Early, session'["acc"].destroy \in Early
        PROVE  DestroyInv'
    <3>1. JoinedInv("acc")'
      BY <2>2, NotJoined
    <3> QED
      BY <1>0, <1>1, <1>2, <2>1, <2>2, <3>1 DEF DestroyInv, Early
  <2>3. ASSUME UNCHANGED session, pc'["acc"] = pc["acc"] PROVE DestroyInv'
    <3>1. JoinedInv("acc")'
      BY <1>0, <2>3, JoinedFrame DEF HandlerIsOver
    <3> QED
      BY <1>0, <1>1, <1>2, <2>1, <2>3, <3>1 DEF DestroyInv
  <2>4. ASSUME UNCHANGED pc \/ \E p : GoTo(t, p) PROVE pc'["acc"] = pc["acc"]
    BY <1>0, <2>4 DEF GoTo
  <2>5. ASSUME NEW F, Updates("acc", F), "direction" \notin F
        PROVE  session'["acc"].direction = session["acc"].direction
    BY <2>5 DEF Updates, SameBut
  <2>6. CASE \/ Sleep(t) \/ Accept(t) \/ AcceptEstablished(t) \/ AcceptReturns(t)
    <3>1. UNCHANGED session /\ (UNCHANGED pc \/ \E p : GoTo(t, p))
      BY <2>6 DEF Sleep, Accept, AcceptEstablished, AcceptReturns
    <3> QED
      BY <2>3, <2>4, <3>1
  <2>7. CASE Answer(t) \/ AcceptWaitFailed(t) \/ ThreadStartFails(t)
    <3>1. CASE UNCHANGED session
      <4>1. CASE Answer(t) \/ AcceptWaitFailed(t)
        <5>1. \E p : GoTo(t, p)
          BY <4>1 DEF Answer, AcceptWaitFailed
        <5> QED
          BY <2>3, <2>4, <3>1, <5>1
      <4>2. CASE ThreadStartFails(t)
        <5>1. session["acc"].destroy = "no"
          BY <4>2, StartFailsEffect DEF AcceptInv
        <5> QED
          BY <2>2, <3>1, <5>1 DEF Early
      <4> QED
        BY <2>7, <4>1, <4>2
    <3>2. CASE /\ pc[t] \in {"validate", "established", "start"}
               /\ session' = [session EXCEPT !["acc"].destroy = "released"]
      <4>1. session["acc"].destroy \in Early
        BY <3>2 DEF AcceptInv, Early
      <4>2. session'["acc"].destroy \in Early
        BY <3>2, ReleaseEffect DEF Early
      <4>3. session'["acc"].direction = session["acc"].direction
        BY <2>5, <3>2, ReleaseEffect
      <4> QED
        BY <2>2, <4>1, <4>2, <4>3
    <3> QED
      BY <2>7, <3>1, <3>2, StartFailsEffect DEF Answer, AcceptWaitFailed
  <2>8. CASE PostConnect(t) \/ StartThreads(t)
    <3>1. session["acc"].destroy \in Early
      BY <2>8 DEF AcceptInv, PostConnect, StartThreads, Early
    <3>2. Updates("acc", {"connected"}) \/ Updates("acc", {"completions"})
      BY <1>0, <2>8, PostConnectEffect, StartThreadsEffect
    <3>3. /\ session'["acc"].direction = session["acc"].direction
          /\ session'["acc"].destroy = session["acc"].destroy
      BY <3>2 DEF Updates, SameBut
    <3> QED
      BY <2>2, <3>1, <3>3
  <2> QED
    BY <1>4, <2>6, <2>7, <2>8 DEF AcceptStep, AcceptWaitFails, AcceptTimesOut
<1> QED
  BY <1>3, <1>4

LEMMA SessionKeepsQueues ==
    ASSUME TypeInv, AcceptInv, DestroyInv, NEW e \in Ends, SessionStep(e)
    PROVE  DestroyInv'
<1>0. /\ Ends = {"conn", "acc"} /\ "conn" # "acc" /\ Ends \subseteq Threads /\ Ends \subseteq Ids
      /\ \A f \in Ends : JoinedInv(f)
  BY Names DEF Ids, DestroyInv
<1>1. /\ \A f \in Ends \ {e} : session'[f] = session[f] /\ pc'[f] = pc[f]
      /\ session'[e].direction = session[e].direction
      /\ HandlerIsOver(e) => HandlerIsOver(e)'
  BY <1>0, SessionFrame DEF HandlerIsOver
<1>2. \A f \in Ends \ {e} : JoinedInv(f)'
  BY <1>0, <1>1, JoinedFrame DEF HandlerIsOver
<1>3. \A f \in Ends : f # e \/ ~JoinHandler(e) => queue'[f].inMap = queue[f].inMap
  BY <1>0, QueueStays
<1>4. ASSUME ~JoinHandler(e), JoinedInv(e)',
             session'[e].destroy \in {"idDestroyed", "gone"}
                 <=> session[e].destroy \in {"idDestroyed", "gone"}
      PROVE  DestroyInv'
  BY <1>0, <1>1, <1>2, <1>3, <1>4 DEF DestroyInv
<1>5. CASE HandlerStep(e) \/ AckHandlerEnds(e) \/ CompletionsCancelled(e)
  <2>1. /\ session'[e].destroy = session[e].destroy
        /\ session'[e].completions = "running" => session[e].completions = "running"
        /\ session'[e].ackHandler = "running" => session[e].ackHandler = "running"
    <3>1. CASE UNCHANGED session
      BY <3>1
    <3>2. CASE HandleEvent(e)
      BY <3>2, HandleEventEffect DEF Updates, SameBut
    <3>3. CASE AckHandlerEnds(e)
      BY <3>3, AckHandlerEndsEffect DEF Updates, SameBut
    <3>4. CASE CompletionsCancelled(e)
      BY <3>4, CompletionsCancelledEffect DEF Updates, SameBut
    <3> QED
      BY <1>5, <3>1, <3>2, <3>3, <3>4 DEF HandlerStep, Sleep, HandlerEnds
  <2>2. JoinedInv(e)'
    BY <1>0, <1>1, <2>1, JoinedFrame
  <2>3. ~JoinHandler(e)
    BY <2>1, JoinHandlerEffect DEF JoinHandler
  <2> QED
    BY <1>4, <2>1, <2>2, <2>3
<1>6. ASSUME session[e].destroy \in Early, session'[e].destroy \in Early \cup {"disconnected"}
      PROVE  DestroyInv'
  <2>1. JoinedInv(e)'
    BY <1>6, NotJoined
  <2>2. ~JoinHandler(e)
    BY <1>6 DEF JoinHandler, Early
  <2> QED
    BY <1>4, <1>6, <2>1, <2>2 DEF Early
<1>7. CASE AbortSession(e) \/ CloseSession(e)
  <2>1. session[e].destroy = "no" /\ session'[e].destroy \in {"aborting", "closing"}
    BY <1>7, CancelSessionEffect DEF AbortSession, CloseSession, CancelSession, Destroys
  <2> QED
    BY <1>6, <2>1 DEF Early
<1>8. CASE CancelJoins(e)
  <2>1. /\ session[e].destroy \in {"aborting", "closing"}
        /\ session'[e].destroy \in {"no", "released"}
    BY <1>8, CancelJoinsEffect DEF CancelJoins
  <2> QED
    BY <1>6, <2>1 DEF Early
<1>9. CASE Disconnect(e)
  <2>1. session[e].destroy = "released" /\ session'[e].destroy = "disconnected"
    BY <1>9, DisconnectEffect DEF Disconnect
  <2> QED
    BY <1>6, <2>1 DEF Early
<1>10. CASE JoinCompletions(e)
  <2>1. /\ session[e].destroy = "disconnected" /\ session'[e].destroy = "aborted"
        /\ session'[e].completions = "none"
    BY <1>10, JoinCompletionsEffect DEF JoinCompletions
  <2>2. JoinedInv(e)'
    BY <2>1 DEF JoinedInv
  <2>3. ~JoinHandler(e)
    BY <2>1 DEF JoinHandler
  <2> QED
    BY <1>4, <2>1, <2>2, <2>3
<1>11. CASE JoinHandler(e)
  <2>1. /\ session[e].destroy = "aborted" /\ session'[e].destroy = "idDestroyed"
        /\ session'[e].completions = session[e].completions
    BY <1>11, JoinHandlerEffect DEF JoinHandler, Updates, SameBut
  <2>2. HandlerIsOver(e)'
    BY <1>1, <1>11 DEF JoinHandler
  <2>3. JoinedInv(e)'
    BY <1>0, <2>1, <2>2 DEF JoinedInv
  <2>4. queue'[e].inMap = FALSE
    BY <1>0, <1>11, RemovedQueue, NewQueueFields DEF JoinHandler
  <2> QED
    BY <1>0, <1>1, <1>2, <1>3, <2>1, <2>3, <2>4 DEF DestroyInv
<1>12. CASE DestroyBase(e)
  <2>1. /\ session[e].destroy = "idDestroyed" /\ session'[e].destroy = "gone"
        /\ session'[e].ackHandler = "none"
        /\ session'[e].completions = session[e].completions
    BY <1>12, DestroyBaseEffect DEF DestroyBase, Updates, SameBut
  <2>2. JoinedInv(e)'
    BY <1>0, <1>1, <2>1 DEF JoinedInv
  <2>3. ~JoinHandler(e)
    BY <2>1 DEF JoinHandler
  <2> QED
    BY <1>4, <2>1, <2>2, <2>3
<1> QED
  BY <1>5, <1>7, <1>8, <1>9, <1>10, <1>11, <1>12 DEF SessionStep, DestroyStep

LEMMA NextDestroy ==
    ASSUME TypeInv, AccessInv, AcceptInv, DestroyInv, Next
    PROVE  DestroyInv'
<1>0. /\ Ends = {"conn", "acc"} /\ "conn" \in Ids /\ "acc" \in Ids /\ "listen" \notin Ends
  BY DEF Ends, Ids
<1>1. ASSUME UNCHANGED <<session, pc>>, \A e \in Ends : queue'[e].inMap = queue[e].inMap
      PROVE  DestroyInv'
  <2>1. \A e \in Ends : JoinedInv(e)'
    BY <1>1, JoinedFrame DEF DestroyInv, HandlerIsOver
  <2> QED
    BY <1>0, <1>1, <2>1 DEF DestroyInv
<1>2. ASSUME NEW t \in Threads, SpuriousWakeUp(t) PROVE DestroyInv'
  BY <1>1, <1>2 DEF SpuriousWakeUp
<1>3. ASSUME NEW i \in Ids, EventChannelThread(i) \/ CancelListener \/ DestroyListener
      PROVE  DestroyInv'
  BY <1>0, <1>1, <1>3, QueueStays, QuietFrame
<1>4. ASSUME NEW t \in Acceptors, AcceptStep(t) \/ Accept(t)
                 \/ (pc[t] = "request" /\ AcceptTimesOut(t))
      PROVE  DestroyInv'
  BY <1>4, AcceptorKeepsQueues
<1> QED
  BY <1>0, <1>2, <1>3, <1>4, ConnectorKeepsQueues, SessionKeepsQueues
     DEF Next, Progress, SessionStep

-----------------------------------------------------------------------------
(* The connection data                                                     *)

LEMMA CarriesEmpty == \A type, d : Carries(<<>>, type, d)
  BY DEF Carries

LEMMA CarriesTail ==
    ASSUME NEW s \in Seq(Events), NEW type, NEW d, s # <<>>, Carries(s, type, d)
    PROVE  /\ Carries(Tail(s), type, d)
           /\ Head(s).type = type => Head(s).data = d /\ d # "none"
<1>1. Len(s) \in Nat /\ Len(s) >= 1 /\ Len(Tail(s)) = Len(s) - 1 /\ Head(s) = s[1]
  OBVIOUS
<1>2. \A i \in 1 .. Len(Tail(s)) : i + 1 \in 1 .. Len(s) /\ Tail(s)[i] = s[i + 1]
  BY <1>1
<1>3. 1 \in 1 .. Len(s)
  BY <1>1
<1> QED
  BY <1>1, <1>2, <1>3 DEF Carries

LEMMA CarriesAppend ==
    ASSUME NEW s \in Seq(Events), NEW x \in Events, NEW type, NEW d, Carries(s, type, d),
           x.type = type => x.data = d /\ d # "none"
    PROVE  Carries(Append(s, x), type, d)
<1>1. Len(s) \in Nat /\ Len(Append(s, x)) = Len(s) + 1
  OBVIOUS
<1>2. ASSUME NEW i \in 1 .. Len(Append(s, x))
      PROVE  IF i = Len(s) + 1 THEN Append(s, x)[i] = x
             ELSE i \in 1 .. Len(s) /\ Append(s, x)[i] = s[i]
  BY <1>1
<1> QED
  BY <1>1, <1>2 DEF Carries

LEMMA CarriesStep ==
    ASSUME NEW s \in Seq(Events), NEW c \in Seq(Events), NEW r, NEW type, NEW d,
           Carries(s, type, d), Carries(c, type, d),
           \/ r = s \/ r = <<>> \/ (s # <<>> /\ r = Tail(s))
           \/ c # <<>> /\ r = Append(s, Head(c))
    PROVE  Carries(r, type, d)
<1>1. ASSUME s # <<>> PROVE Carries(Tail(s), type, d)
  BY <1>1, CarriesTail
<1>2. ASSUME c # <<>> PROVE Carries(Append(s, Head(c)), type, d)
  <2>1. /\ Head(c) \in Events
        /\ Head(c).type = type => Head(c).data = d /\ d # "none"
    BY <1>2, CarriesTail, TailType
  <2> QED
    BY <2>1, CarriesAppend
<1>3. Carries(<<>>, type, d)
  BY CarriesEmpty
<1>4. CASE s # <<>> /\ r = Tail(s)
  BY <1>1, <1>4, Zenon
<1>5. CASE c # <<>> /\ r = Append(s, Head(c))
  BY <1>2, <1>5, Zenon
<1>6. CASE r = s \/ r = <<>>
  BY <1>3, <1>6, Zenon
<1> QED
  BY <1>4, <1>5, <1>6, Zenon

LEMMA CarriesPost ==
    ASSUME NEW s \in Seq(Events), NEW r, NEW type, NEW d, Carries(s, type, d),
           \/ r = s \/ r = <<>> \/ (s # <<>> /\ r = Tail(s))
           \/ \E x \in Events :
                 r = Append(s, x) /\ (x.type = type => x.data = d /\ d # "none")
    PROVE  Carries(r, type, d)
<1>1. ASSUME NEW x \in Events, r = Append(s, x), x.type = type => x.data = d /\ d # "none"
      PROVE  Carries(r, type, d)
  <2>1. Carries(Append(s, x), type, d)
    BY <1>1, CarriesAppend
  <2> QED
    BY <1>1, <2>1, Zenon
<1>2. ASSUME s # <<>> PROVE Carries(Tail(s), type, d)
  BY <1>2, CarriesTail
<1>3. CASE s # <<>> /\ r = Tail(s)
  BY <1>2, <1>3, Zenon
<1>4. CASE r = s \/ r = <<>>
  BY <1>4, CarriesEmpty, Zenon
<1> QED
  BY <1>1, <1>3, <1>4, Zenon

\* Nothing carries data that is not set, so that setting it is harmless.
LEMMA CarriesNone ==
    ASSUME NEW s, NEW type, NEW d, Carries(s, type, "none")
    PROVE  Carries(s, type, d)
  BY DEF Carries

\* Sessions keep the data they have, and their role as long as they do not prepare.
LEMMA DataKept ==
    ASSUME TypeInv, Next
    PROVE  /\ \A e \in Ends : session[e].connectionData # "none" =>
                  session'[e].connectionData = session[e].connectionData
           /\ \/ \E t \in Connectors, d \in Directions : SetUp(t, d)
              \/ \E t \in Acceptors, d \in Directions : Construct(t, d)
              \/ \A e \in Ends :
                    /\ session'[e].direction = session[e].direction
                    /\ session'[e].connectionData = session[e].connectionData
                    /\ session'[e].peerData = session[e].peerData
<1> DEFINE Same == \A e \in Ends :
                       /\ session'[e].direction = session[e].direction
                       /\ session'[e].connectionData = session[e].connectionData
                       /\ session'[e].peerData = session[e].peerData
<1>0. Ends = {"conn", "acc"} /\ "conn" # "acc"
  BY Names
<1>1. ASSUME NEW e \in Ends, NEW F, Updates(e, F), F \cap {"direction", "connectionData", "peerData"} = {}
      PROVE  Same
  BY <1>1 DEF Updates, SameBut
<1>2. ASSUME UNCHANGED session PROVE Same
  BY <1>2
<1>3. ASSUME NEW t \in Threads, PostConnect(t) \/ StartThreads(t) PROVE Same
  BY <1>1, <1>3, IdOfThread, PostConnectEffect, StartThreadsEffect
<1>4. ASSUME NEW t \in Connectors, ConnectStep(t) \/ Connect(t) \/ ConnectTimesOut(t)
      PROVE  Same \/ \E d \in Directions : SetUp(t, d)
  <2>1. CASE CancelConnect(t) \/ JoinAckHandler(t)
    BY <1>0, <1>1, <2>1, CancelConnectEffect, JoinAckHandlerEffect
  <2> HIDE DEF Same
  <2> QED
    BY <1>2, <1>3, <1>4, <2>1, Names, StartFailsEffect
       DEF ConnectStep, Connect, ConnectTimesOut, Sleep, TestInProgress, ResolveRoute,
           RequestConnection, ConnectionEstablished, ConnectWaitFails, SetEverConnected,
           ClearInProgress, Resume
<1>5. ASSUME NEW t \in Acceptors, AcceptStep(t) \/ Accept(t) \/ AcceptTimesOut(t)
      PROVE  Same \/ \E d \in Directions : Construct(t, d)
  <2>1. CASE session' = [session EXCEPT !["acc"].destroy = "released"]
    BY <1>0, <1>1, <2>1, ReleaseEffect
  <2> HIDE DEF Same
  <2> QED
    BY <1>2, <1>3, <1>5, <2>1, Names, StartFailsEffect
       DEF AcceptStep, Accept, AcceptTimesOut, Sleep, Answer, AcceptEstablished,
           AcceptWaitFails, AcceptWaitFailed, AcceptReturns
<1>6. ASSUME NEW e \in Ends, SessionStep(e) PROVE Same
  BY <1>0, <1>6, SessionFrame
<1>7. ASSUME NEW t, \/ CancelListener \/ DestroyListener \/ SpuriousWakeUp(t)
                    \/ EventChannelThread(t)
      PROVE  Same
  BY <1>7, QuietFrame
<1>8. ASSUME NEW t \in Connectors, NEW d \in Directions, SetUp(t, d)
      PROVE  \A e \in Ends : session[e].connectionData # "none" =>
                 session'[e].connectionData = session[e].connectionData
  BY <1>0, <1>8, SetUpEffect DEF Updates
<1>9. ASSUME NEW t \in Acceptors, NEW d \in Directions, Construct(t, d)
      PROVE  \A e \in Ends : session[e].connectionData # "none" =>
                 session'[e].connectionData = session[e].connectionData
  BY <1>0, <1>9, ConstructEffect DEF Updates
<1>10. \/ Same
       \/ \E t \in Connectors, d \in Directions : SetUp(t, d)
       \/ \E t \in Acceptors, d \in Directions : Construct(t, d)
  <2> HIDE DEF Same
  <2> QED
    BY <1>4, <1>5, <1>6, <1>7 DEF Next, Progress, SessionStep
<1> QED
  BY <1>8, <1>9, <1>10

\* The queue of an id, and what the channel has for it, change at one end at a time.
LEMMA QueueEvents ==
    ASSUME TypeInv, Next, NEW i \in Ids
    PROVE  \/ queue'[i].events = queue[i].events
           \/ queue'[i].events = <<>>
           \/ queue[i].events # <<>> /\ queue'[i].events = Tail(queue[i].events)
           \/ channel[i] # <<>> /\ queue'[i].events = Append(queue[i].events, Head(channel[i]))
<1> DEFINE Changes == \/ queue'[i].events = queue[i].events
                      \/ queue'[i].events = <<>>
                      \/ queue[i].events # <<>> /\ queue'[i].events = Tail(queue[i].events)
                      \/ /\ channel[i] # <<>>
                         /\ queue'[i].events = Append(queue[i].events, Head(channel[i]))
<1>0. /\ Ends \subseteq Ids /\ "listen" \in Ids /\ "conn" \in Ids
      /\ i \in {"conn", "acc", "listen"}
  BY Names DEF Ids
<1>1. ASSUME Shrinks PROVE Changes
  BY <1>1 DEF Shrinks
<1>2. ASSUME NEW t \in Connectors, ConnectStep(t) \/ Connect(t) \/ ConnectTimesOut(t)
      PROVE  Changes
  BY <1>1, <1>2, ConnectorShrinks
<1>3. ASSUME NEW t \in Acceptors, AcceptStep(t) \/ Accept(t) \/ AcceptTimesOut(t)
      PROVE  Changes
  <2>1. ASSUME NEW d \in Directions, Construct(t, d) PROVE Changes
    BY <1>0, <2>1, ConstructQueues, NewQueueFields
  <2> QED
    BY <1>1, <1>3, <2>1, AcceptorShrinks
<1>4. ASSUME NEW e \in Ends, SessionStep(e) PROVE Changes
  <2>1. CASE JoinHandler(e)
    BY <1>0, <2>1, RemovedQueue, NewQueueFields DEF JoinHandler
  <2> QED
    BY <1>1, <1>4, <2>1, SessionShrinks DEF SessionStep
<1>5. ASSUME DestroyListener PROVE Changes
  BY <1>0, <1>5, RemovedQueue, NewQueueFields DEF DestroyListener
<1>6. ASSUME NEW id \in Ids, EventChannelThread(id) PROVE Changes
  <2>1. Head(channel[id]) \in Events /\ channel[id] # <<>>
    BY <1>6, TailType DEF TypeInv, EventChannelThread
  <2> QED
    BY <1>6, <2>1, SignalQueues DEF EventChannelThread
<1>7. ASSUME NEW t, SpuriousWakeUp(t) PROVE Changes
  BY <1>7 DEF SpuriousWakeUp
<1>8. ASSUME CancelListener PROVE Changes
  BY <1>0, <1>1, <1>8, AbortShrinks DEF CancelListener
<1>9. Changes
  <2> HIDE DEF Changes
  <2> QED
    BY <1>2, <1>3, <1>4, <1>5, <1>6, <1>7, <1>8 DEF Next, Progress, SessionStep
<1> QED
  BY <1>9

LEMMA EventFields ==
    \A type, d : Event(type, d).type = type /\ Event(type, d).data = d
  BY DEF Event

LEMMA ChannelEvents ==
    ASSUME TypeInv, Next, NEW i \in Ids
    PROVE  \/ channel'[i] = channel[i]
           \/ channel'[i] = <<>>
           \/ channel[i] # <<>> /\ channel'[i] = Tail(channel[i])
           \/ \E x \in Events :
                 /\ channel'[i] = Append(channel[i], x)
                 /\ i = "listen" => /\ x.data = session["conn"].connectionData
                                    /\ \E t \in Connectors : pc[t] = "route"
                 /\ i = "conn" /\ x.type = "ESTABLISHED" =>
                        /\ x.data = session["acc"].connectionData
                        /\ \E t \in Acceptors : pc[t] = "validate"
<1> DEFINE Adds(x) == /\ channel'[i] = Append(channel[i], x)
                      /\ i = "listen" => /\ x.data = session["conn"].connectionData
                                         /\ \E t \in Connectors : pc[t] = "route"
                      /\ i = "conn" /\ x.type = "ESTABLISHED" =>
                             /\ x.data = session["acc"].connectionData
                             /\ \E t \in Acceptors : pc[t] = "validate"
           Changes == \/ channel'[i] = channel[i]
                      \/ channel'[i] = <<>>
                      \/ channel[i] # <<>> /\ channel'[i] = Tail(channel[i])
                      \/ \E x \in Events : Adds(x)
<1>0. /\ "conn" \in Ids /\ "acc" \in Ids /\ "listen" \in Ids
      /\ "listen" # "conn" /\ "listen" # "acc" /\ "conn" # "acc" /\ Ends = {"conn", "acc"}
      /\ channel \in [Ids -> Seq(Events)]
      /\ session["conn"].connectionData \in Data \cup {"none"}
      /\ session["acc"].connectionData \in Data \cup {"none"}
  BY Names DEF Ids, TypeInv, Sessions
<1>1. ASSUME UNCHANGED channel PROVE Changes
  BY <1>1
<1>2. ASSUME NEW f \in Ends,
             NEW type \in {"ADDR_RESOLVED", "ROUTE_RESOLVED", "FAILED"},
             channel' = Post(channel, f, Event(type, "none"))
      PROVE  Changes
  <2>1. Event(type, "none") \in Events /\ Event(type, "none").type # "ESTABLISHED"
    BY EventType, EventFields
  <2>2. f # "listen" /\ f \in Ids
    BY <1>0
  <2>3. CASE i = f
    <3>1. channel'[i] = Append(channel[i], Event(type, "none"))
      BY <1>0, <1>2, <2>2, <2>3 DEF Post
    <3> QED
      BY <2>1, <2>2, <2>3, <3>1
  <2>4. CASE i # f
    BY <1>0, <1>2, <2>2, <2>4 DEF Post
  <2> QED
    BY <2>3, <2>4
<1>3. ASSUME NEW t \in Connectors, RequestConnection(t) PROVE Changes
  <2>1. pc[t] = "route"
    BY <1>3 DEF RequestConnection
  <2>2. CASE channel' = Post(channel, "listen",
                             Event("CONNECT_REQUEST", session["conn"].connectionData))
    <3> DEFINE x == Event("CONNECT_REQUEST", session["conn"].connectionData)
    <3>1. x \in Events /\ x.data = session["conn"].connectionData
      BY <1>0, EventType, EventFields
    <3>2. channel' = Post(channel, "listen", x)
      BY <2>2
    <3> HIDE DEF x
    <3>3. CASE i = "listen"
      <4>1. channel'[i] = Append(channel[i], x)
        BY <1>0, <3>2, <3>3 DEF Post
      <4> QED
        BY <1>0, <2>1, <3>1, <3>3, <4>1
    <3>4. CASE i # "listen"
      BY <1>0, <3>2, <3>4 DEF Post
    <3> QED
      BY <3>3, <3>4
  <2> HIDE DEF Changes
  <2> QED
    BY <1>0, <1>1, <1>2, <1>3, <2>2 DEF RequestConnection
<1>4. ASSUME NEW t \in Acceptors, Answer(t) PROVE Changes
  <2>1. pc[t] = "validate"
    BY <1>4 DEF Answer
  <2>2. CASE channel' = [channel EXCEPT
                !["conn"] = Append(@, Event("ESTABLISHED", session["acc"].connectionData)),
                !["acc"]  = Append(@, Event("ESTABLISHED", "none"))]
    <3> DEFINE x == Event("ESTABLISHED", session["acc"].connectionData)
               y == Event("ESTABLISHED", "none")
    <3>1. x \in Events /\ x.data = session["acc"].connectionData /\ y \in Events
      BY <1>0, EventType, EventFields
    <3>2. channel' = [channel EXCEPT !["conn"] = Append(@, x), !["acc"] = Append(@, y)]
      BY <2>2
    <3> HIDE DEF x, y
    <3>3. CASE i = "conn"
      <4>1. channel'[i] = Append(channel[i], x)
        BY <1>0, <3>2, <3>3
      <4> QED
        BY <1>0, <2>1, <3>1, <3>3, <4>1
    <3>4. CASE i = "acc"
      <4>1. channel'[i] = Append(channel[i], y)
        BY <1>0, <3>2, <3>4
      <4> QED
        BY <1>0, <3>1, <3>4, <4>1
    <3>5. CASE i = "listen"
      BY <1>0, <3>2, <3>5
    <3> QED
      BY <3>3, <3>4, <3>5 DEF Ids, Ends
  <2> HIDE DEF Changes
  <2> QED
    BY <1>0, <1>1, <1>2, <1>4, <2>2 DEF Answer
<1>5. ASSUME NEW e \in Ends, rdma_disconnect(e) PROVE Changes
  <2>1. CASE channel' = [channel EXCEPT !["conn"] = Append(@, Event("DISCONNECTED", "none")),
                                        !["acc"]  = Append(@, Event("DISCONNECTED", "none"))]
    <3> DEFINE x == Event("DISCONNECTED", "none")
    <3>1. x \in Events /\ x.type # "ESTABLISHED"
      BY EventType, EventFields
    <3>2. channel' = [channel EXCEPT !["conn"] = Append(@, x), !["acc"] = Append(@, x)]
      BY <2>1
    <3> HIDE DEF x
    <3>3. CASE i \in Ends
      <4>1. channel'[i] = Append(channel[i], x) /\ i # "listen"
        BY <1>0, <3>2, <3>3
      <4> QED
        BY <3>1, <4>1
    <3>4. CASE i = "listen"
      BY <1>0, <3>2, <3>4
    <3> QED
      BY <3>3, <3>4 DEF Ids
  <2>2. CASE channel' = Post(channel, Other(e), Event("FAILED", "none"))
    <3>1. Other(e) \in Ends
      BY DEF Other, Ends
    <3> HIDE DEF Changes
    <3> QED
      BY <1>2, <2>2, <3>1
  <2> HIDE DEF Changes
  <2> QED
    BY <1>1, <1>5, <2>1, <2>2 DEF rdma_disconnect
<1>6. ASSUME NEW j \in Ids, channel' = [channel EXCEPT ![j] = <<>>] PROVE Changes
  BY <1>0, <1>6
<1>7. ASSUME NEW id \in Ids, EventChannelThread(id) PROVE Changes
  BY <1>0, <1>7 DEF EventChannelThread
<1> HIDE DEF Changes
<1>8. ASSUME NEW t \in Connectors, ConnectStep(t) \/ Connect(t) \/ ConnectTimesOut(t)
      PROVE  Changes
  <2>1. ASSUME NEW d, SetUp(t, d) \/ ResolveRoute(t) PROVE Changes
    BY <1>0, <1>1, <1>2, <2>1 DEF SetUp, ResolveRoute
  <2> QED
    BY <1>1, <1>3, <1>8, <2>1
       DEF ConnectStep, Connect, ConnectTimesOut, Sleep, TestInProgress,
           ConnectionEstablished, ConnectWaitFails, PostConnect, StartThreads, ThreadStartFails,
           SetEverConnected, ClearInProgress, Resume, CancelConnect, JoinAckHandler
<1>9. ASSUME NEW t \in Acceptors, AcceptStep(t) \/ Accept(t) \/ AcceptTimesOut(t)
      PROVE  Changes
  BY <1>1, <1>4, <1>9
     DEF AcceptStep, Accept, AcceptTimesOut, Sleep, Construct, AcceptEstablished,
         AcceptWaitFails, PostConnect, StartThreads, ThreadStartFails,
         AcceptReturns
<1>10. ASSUME NEW e \in Ends, SessionStep(e) PROVE Changes
  <2>1. e \in Ids
    BY DEF Ids
  <2>2. CASE JoinHandler(e)
    BY <1>6, <2>1, <2>2 DEF JoinHandler
  <2> QED
    BY <1>1, <1>5, <1>10, <2>2
       DEF SessionStep, HandlerStep, Sleep, HandleEvent, HandlerEnds, AckHandlerEnds,
           CompletionsCancelled, DestroyStep, CancelJoins, Disconnect, JoinCompletions,
           DestroyBase, AbortSession, CloseSession, CancelSession
<1>11. ASSUME NEW t, CancelListener \/ SpuriousWakeUp(t) PROVE Changes
  BY <1>1, <1>11 DEF CancelListener, SpuriousWakeUp
<1>12. ASSUME DestroyListener PROVE Changes
  BY <1>0, <1>6, <1>12 DEF DestroyListener
<1>13. Changes
  BY <1>7, <1>8, <1>9, <1>10, <1>11, <1>12 DEF Next, Progress, SessionStep
<1> QED
  BY <1>13 DEF Changes

LEMMA NextEvent ==
    ASSUME TypeInv, EventInv, DataInv, Next
    PROVE  EventInv'
<1>0. /\ "conn" \in Ids /\ "listen" \in Ids /\ "conn" \in Ends /\ "acc" \in Ends
      /\ "listen" # "conn"
      /\ \A i \in Ids : queue[i].events \in Seq(Events) /\ channel[i] \in Seq(Events)
  BY Names DEF Ids, TypeInv, Queues
\* What holds of the old data holds of the new data.
<1>1. ASSUME NEW s, NEW type, NEW e \in Ends, Carries(s, type, session[e].connectionData)
      PROVE  Carries(s, type, session'[e].connectionData)
  BY <1>1, DataKept, CarriesNone
<1>2. ASSUME NEW i \in Ids, NEW type, NEW d,
             Carries(queue[i].events, type, d), Carries(channel[i], type, d)
      PROVE  Carries(queue'[i].events, type, d)
  <2> DEFINE q == queue[i].events
             c == channel[i]
             r == queue'[i].events
  <2>1. /\ q \in Seq(Events) /\ c \in Seq(Events)
        /\ Carries(q, type, d) /\ Carries(c, type, d)
    BY <1>0, <1>2
  <2>2. \/ r = q \/ r = <<>> \/ (q # <<>> /\ r = Tail(q))
        \/ c # <<>> /\ r = Append(q, Head(c))
    BY QueueEvents, Zenon
  <2> HIDE DEF q, c, r
  <2>3. Carries(r, type, d)
    BY <2>1, <2>2, CarriesStep, Zenon
  <2> QED
    BY <2>3 DEF r
<1>3. Carries(channel'["listen"], "CONNECT_REQUEST", session["conn"].connectionData)
  <2> DEFINE c == channel["listen"]
             k == channel'["listen"]
             d == session["conn"].connectionData
  <2>1. \/ k = c \/ k = <<>> \/ (c # <<>> /\ k = Tail(c))
        \/ \E x \in Events : k = Append(c, x) /\ x.data = d /\ \E t \in Connectors : pc[t] = "route"
    BY <1>0, ChannelEvents
  <2>2. ASSUME NEW t \in Connectors, pc[t] = "route" PROVE d # "none"
    BY <2>2 DEF DataInv
  <2>3. Carries(c, "CONNECT_REQUEST", d) /\ c \in Seq(Events)
    BY <1>0 DEF EventInv
  <2> HIDE DEF c, d
  <2>4. \/ k = c \/ k = <<>> \/ (c # <<>> /\ k = Tail(c))
        \/ \E x \in Events :
              k = Append(c, x) /\ (x.type = "CONNECT_REQUEST" => x.data = d /\ d # "none")
    BY <2>1, <2>2, Zenon
  <2> QED
    BY <2>3, <2>4, CarriesPost DEF d
<1>4. Carries(channel'["conn"], "ESTABLISHED", session["acc"].connectionData)
  <2> DEFINE c == channel["conn"]
             k == channel'["conn"]
             d == session["acc"].connectionData
  <2>1. \/ k = c \/ k = <<>> \/ (c # <<>> /\ k = Tail(c))
        \/ \E x \in Events :
              /\ k = Append(c, x)
              /\ x.type = "ESTABLISHED" =>
                    x.data = d /\ \E t \in Acceptors : pc[t] = "validate"
    BY <1>0, ChannelEvents
  <2>2. ASSUME NEW t \in Acceptors, pc[t] = "validate" PROVE d # "none"
    BY <2>2 DEF DataInv
  <2>3. Carries(c, "ESTABLISHED", d) /\ c \in Seq(Events)
    BY <1>0 DEF EventInv
  <2> HIDE DEF c, d
  <2>4. \/ k = c \/ k = <<>> \/ (c # <<>> /\ k = Tail(c))
        \/ \E x \in Events :
              k = Append(c, x) /\ (x.type = "ESTABLISHED" => x.data = d /\ d # "none")
    BY <2>1, <2>2, Zenon
  <2> QED
    BY <2>3, <2>4, CarriesPost DEF d
<1>5. /\ Carries(queue'["listen"].events, "CONNECT_REQUEST", session["conn"].connectionData)
      /\ Carries(queue'["conn"].events, "ESTABLISHED", session["acc"].connectionData)
  BY <1>0, <1>2 DEF EventInv
<1> QED
  BY <1>0, <1>1, <1>3, <1>4, <1>5 DEF EventInv

LEMMA DataFrame ==
    ASSUME DataInv,
           \A e \in Ends : /\ session'[e].direction = session[e].direction
                           /\ session'[e].connectionData = session[e].connectionData
                           /\ session'[e].peerData = session[e].peerData,
           \A t \in Connectors :
               /\ pc'[t] \in {"addr", "route", "connect"} => pc[t] \in {"addr", "route", "connect"}
               /\ pc'[t] = "connected" => pc[t] = "connected",
           \A t \in Acceptors :
               /\ pc'[t] \in {"validate", "established", "connected"} =>
                      pc[t] \in {"validate", "established", "connected"}
               /\ pc'[t] \in {"established", "connected"} => pc[t] \in {"established", "connected"}
    PROVE  DataInv'
<1>1. "conn" \in Ends /\ "acc" \in Ends
  BY Names
<1> QED
  BY <1>1 DEF DataInv

LEMMA ConnectorKeepsData ==
    ASSUME TypeInv, AccessInv, EventInv, DataInv, Next, NEW t \in Connectors,
           ConnectStep(t) \/ Connect(t) \/ ConnectTimesOut(t)
    PROVE  DataInv'
<1> DEFINE Same == \A e \in Ends : /\ session'[e].direction = session[e].direction
                                   /\ session'[e].connectionData = session[e].connectionData
                                   /\ session'[e].peerData = session[e].peerData
<1>0. /\ t \in Threads /\ pc \in [Threads -> Places] /\ "conn" \in Threads
      /\ Connectors \subseteq Threads /\ Acceptors \subseteq Threads
      /\ t \notin Acceptors /\ "conn" \notin Connectors /\ "conn" \notin Acceptors
      /\ EndOf(t) = "conn" /\ Ends = {"conn", "acc"} /\ "conn" # "acc"
      /\ "conn" \in Ids /\ queue["conn"].events \in Seq(Events)
  BY Names DEF EndOf, TypeInv, PlaceInv, Queues, Ids
<1>1. ASSUME NEW F, Updates("conn", F), F \cap {"direction", "connectionData", "peerData"} = {}
      PROVE  Same
  BY <1>0, <1>1 DEF Updates, SameBut
<1>2. ASSUME UNCHANGED session PROVE Same
  BY <1>2
<1>3. CASE \E d \in Directions : SetUp(t, d)
  <2>1. PICK d \in Directions : SetUp(t, d)
    BY <1>3
  <2>2. /\ pc[t] = "setup"
        /\ pc' = [pc EXCEPT ![t] = "catch"] \/ pc' = [pc EXCEPT ![t] = "addr"]
           \/ pc' = [pc EXCEPT ![t] = "unwind"]
    BY <2>1 DEF SetUp, GoTo
  <2>3. /\ session'["conn"].connectionData # "none"
        /\ session["conn"].connectionData # "none" =>
              session'["conn"].connectionData = session["conn"].connectionData
        /\ session'["acc"] = session["acc"]
    BY <1>0, <2>1, SetUpEffect DEF Updates
  <2>4. \A u \in Connectors \ {t} : pc[u] \notin Inside /\ pc'[u] = pc[u]
    BY <1>0, <2>2 DEF AccessInv, Inside
  <2>5. \A u \in Acceptors : pc'[u] = pc[u]
    BY <1>0, <2>2
  <2>6. pc'[t] \in {"catch", "addr", "unwind"}
    BY <1>0, <2>2
  <2> QED
    BY <2>3, <2>4, <2>5, <2>6 DEF DataInv, Inside
<1>4. CASE ConnectionEstablished(t)
  <2>1. /\ pc[t] = "connect" /\ UNCHANGED session
        /\ \/ /\ pc' = [pc EXCEPT ![t] = "connected"]
              /\ ValidateConnectionData(Received(t).data, session["conn"].direction)
           \/ pc' = [pc EXCEPT ![t] = "unwind"]
    BY <1>4 DEF ConnectionEstablished, GoTo
  <2>2. IdOf(t) = "conn" /\ Receives(t) /\ Received(t).type = "ESTABLISHED"
    BY <1>0, <1>4, <2>1 DEF IdOf, ConnectionEstablished, Gets, Expected
  <2>3. Received(t).data = session["acc"].connectionData /\ Received(t).data # "none"
    <3>1. queue["conn"].events # <<>> /\ Received(t) = Head(queue["conn"].events)
      BY <2>2 DEF Receives, Received
    <3>2. Carries(queue["conn"].events, "ESTABLISHED", session["acc"].connectionData)
      BY DEF EventInv
    <3> QED
      BY <1>0, <2>2, <3>1, <3>2, CarriesTail
  <2>4. CASE /\ pc' = [pc EXCEPT ![t] = "connected"]
             /\ ValidateConnectionData(Received(t).data, session["conn"].direction)
    <3>1. /\ session["acc"].connectionData = Opposite[session["conn"].direction]
          /\ session["acc"].connectionData # "none"
      BY <2>3, <2>4 DEF ValidateConnectionData
    <3>2. /\ pc'[t] = "connected" /\ \A u \in Threads \ {t} : pc'[u] = pc[u]
      BY <1>0, <2>4
    <3> QED
      BY <1>0, <2>1, <3>1, <3>2 DEF DataInv
  <2>5. CASE pc' = [pc EXCEPT ![t] = "unwind"]
    BY <1>0, <2>1, <2>5, DataFrame
  <2> QED
    BY <2>1, <2>4, <2>5
<1>5. CASE ResolveRoute(t) \/ RequestConnection(t) \/ ConnectWaitFails(t) \/ ConnectTimesOut(t)
  <2>1. /\ pc[t] \in {"addr", "route", "connect"} /\ UNCHANGED session
        /\ \E p \in {"route", "connect", "unwind"} : GoTo(t, p)
    BY <1>5 DEF ResolveRoute, RequestConnection, ConnectWaitFails, ConnectTimesOut
  <2> QED
    BY <1>0, <2>1, DataFrame DEF GoTo
<1>6. ASSUME Same, NEW p \in {"test", "setup", "done", "start", "clear", "resume", "catch", "join"},
             GoTo(t, p)
      PROVE  DataInv'
  <2> HIDE DEF Same
  <2>1. pc'[t] = p /\ \A u \in Threads \ {t} : pc'[u] = pc[u]
    BY <1>0, <1>6 DEF GoTo
  <2> QED
    BY <1>0, <1>6, <2>1, DataFrame DEF Same
<1>11. CASE ThreadStartFails(t)
  <2>1. Same
    BY <1>2, <1>11, StartFailsEffect
  <2>2. pc'[t] = "unwind" /\ \A u \in Threads \ {t, "conn"} : pc'[u] = pc[u]
    BY <1>0, <1>11, StartFailsGoes
  <2> QED
    BY <1>0, <2>1, <2>2, DataFrame
<1>7. CASE StartThreads(t)
  <2>1. Same
    BY <1>0, <1>1, <1>7, StartThreadsEffect
  <2>2. pc'[t] = "ever" /\ \A u \in Threads \ {t, "conn"} : pc'[u] = pc[u]
    BY <1>0, <1>7, StartThreadsGoes
  <2> QED
    BY <1>0, <2>1, <2>2, DataFrame
<1>8. CASE PostConnect(t) \/ CancelConnect(t) \/ JoinAckHandler(t)
  <2>1. Same
    BY <1>0, <1>1, <1>8, PostConnectEffect, CancelConnectEffect, JoinAckHandlerEffect
  <2>2. GoTo(t, "start") \/ GoTo(t, "join") \/ GoTo(t, "done")
    BY <1>8 DEF PostConnect, CancelConnect, JoinAckHandler
  <2> HIDE DEF Same
  <2> QED
    BY <1>6, <2>1, <2>2
<1>9. CASE \/ Connect(t) \/ TestInProgress(t) \/ SetEverConnected(t) \/ ClearInProgress(t)
           \/ Resume(t)
  <2>1. Same
    BY <1>2, <1>9 DEF Connect, TestInProgress, SetEverConnected, ClearInProgress, Resume
  <2>2. \E p \in {"test", "setup", "done", "clear", "resume", "catch"} : GoTo(t, p)
    BY <1>9 DEF Connect, TestInProgress, SetEverConnected, ClearInProgress, Resume
  <2> HIDE DEF Same
  <2> QED
    BY <1>6, <2>1, <2>2
<1>10. CASE Sleep(t)
  BY <1>10, DataFrame DEF Sleep
<1> QED
  BY <1>3, <1>4, <1>5, <1>7, <1>8, <1>9, <1>10, <1>11 DEF ConnectStep

LEMMA AcceptorKeepsData ==
    ASSUME TypeInv, AcceptInv, EventInv, DataInv, NEW t \in Acceptors,
           AcceptStep(t) \/ Accept(t) \/ (pc[t] \in {"request", "established"} /\ AcceptTimesOut(t))
    PROVE  DataInv'
<1> DEFINE Same == \A e \in Ends : /\ session'[e].direction = session[e].direction
                                   /\ session'[e].connectionData = session[e].connectionData
                                   /\ session'[e].peerData = session[e].peerData
<1>0. /\ t \in Threads /\ pc \in [Threads -> Places] /\ "acc" \in Threads
      /\ Connectors \subseteq Threads /\ Acceptors \subseteq Threads
      /\ t \notin Connectors /\ "acc" \notin Connectors /\ "acc" \notin Acceptors
      /\ EndOf(t) = "acc" /\ Ends = {"conn", "acc"} /\ "conn" # "acc"
      /\ "listen" \in Ids /\ queue["listen"].events \in Seq(Events)
  BY Names DEF EndOf, TypeInv, PlaceInv, Queues, Ids
<1>1. ASSUME NEW F, Updates("acc", F), F \cap {"direction", "connectionData", "peerData"} = {}
      PROVE  Same
  BY <1>0, <1>1 DEF Updates, SameBut
<1>2. ASSUME UNCHANGED session PROVE Same
  BY <1>2
<1>3. CASE \E d \in Directions : Construct(t, d)
  <2>1. PICK d \in Directions : Construct(t, d)
    BY <1>3
  <2>2. pc[t] = "request"
    BY <2>1 DEF Construct
  <2>3. /\ session'["conn"] = session["conn"]
        /\ session'["acc"].direction = d
        /\ session'["acc"].connectionData # "none"
        /\ session["acc"].connectionData # "none" =>
              session'["acc"].connectionData = session["acc"].connectionData
        /\ \/ /\ pc' = [pc EXCEPT ![t] = "validate"]
              /\ session'["acc"].peerData = Received(t).data
           \/ pc' = [pc EXCEPT ![t] = "failed"]
    BY <1>0, <2>1, ConstructEffect DEF Updates
  <2>4. \A u \in Acceptors \ {t} : pc[u] \notin InAccept /\ pc'[u] = pc[u]
    BY <1>0, <2>2, <2>3 DEF AcceptInv, InAccept
  <2>5. \A u \in Connectors : pc'[u] = pc[u]
    BY <1>0, <2>3
  <2>6. Received(t).data = session["conn"].connectionData /\ Received(t).data # "none"
    <3>1. /\ queue["listen"].events # <<>> /\ Received(t) = Head(queue["listen"].events)
          /\ Received(t).type = "CONNECT_REQUEST"
      BY <2>1, ConstructQueues
    <3>2. Carries(queue["listen"].events, "CONNECT_REQUEST", session["conn"].connectionData)
      BY DEF EventInv
    <3> QED
      BY <1>0, <3>1, <3>2, CarriesTail
  <2>7. d # "Unknown"
    BY DEF Directions
  <2>8. \A u \in Connectors :
            pc'[u] = "connected" =>
                /\ session'["acc"].connectionData = Opposite[session'["conn"].direction]
                /\ session'["acc"].connectionData # "none"
    <3>1. ASSUME NEW u \in Connectors, pc[u] = "connected"
          PROVE  session["acc"].connectionData = Opposite[session["conn"].direction]
      BY <3>1 DEF DataInv
    <3>2. ASSUME NEW u \in Connectors, pc[u] = "connected"
          PROVE  session["acc"].connectionData # "none"
      BY <3>2 DEF DataInv
    <3> QED
      BY <2>3, <2>5, <3>1, <3>2
  <2>9. \/ pc'[t] = "validate" /\ session'["acc"].peerData = Received(t).data
        \/ pc'[t] = "failed"
    BY <1>0, <2>3
  <2> QED
    BY <2>3, <2>4, <2>5, <2>6, <2>7, <2>8, <2>9 DEF DataInv, InAccept
<1>4. CASE Answer(t)
  <2>1. /\ pc[t] = "validate"
        /\ \/ /\ UNCHANGED session /\ pc' = [pc EXCEPT ![t] = "established"]
              /\ ValidateConnectionData(session["acc"].peerData, session["acc"].direction)
           \/ /\ session' = [session EXCEPT !["acc"].destroy = "released"]
              /\ GoTo(t, "failed")
    BY <1>4 DEF Answer, GoTo
  <2>2. CASE /\ UNCHANGED session /\ pc' = [pc EXCEPT ![t] = "established"]
             /\ ValidateConnectionData(session["acc"].peerData, session["acc"].direction)
    <3>1. session["acc"].peerData = Opposite[session["acc"].direction]
      BY <2>2 DEF ValidateConnectionData
    <3>2. pc'[t] = "established" /\ \A u \in Threads \ {t} : pc'[u] = pc[u]
      BY <1>0, <2>2
    <3> QED
      BY <1>0, <2>1, <2>2, <3>1, <3>2 DEF DataInv
  <2>3. CASE session' = [session EXCEPT !["acc"].destroy = "released"] /\ GoTo(t, "failed")
    <3>1. Same
      BY <1>1, <2>3, ReleaseEffect
    <3>2. pc'[t] = "failed" /\ \A u \in Threads \ {t} : pc'[u] = pc[u]
      BY <1>0, <2>3 DEF GoTo
    <3> QED
      BY <1>0, <3>1, <3>2, DataFrame
  <2> QED
    BY <2>1, <2>2, <2>3
<1>5. CASE AcceptEstablished(t)
  <2>1. /\ pc[t] = "established" /\ UNCHANGED session
        /\ pc'[t] = "connected" /\ \A u \in Threads \ {t} : pc'[u] = pc[u]
    BY <1>0, <1>5 DEF AcceptEstablished, GoTo
  <2> QED
    BY <1>0, <2>1, DataFrame
<1>6. ASSUME Same, NEW p \in {"done", "request", "failed", "start"}, GoTo(t, p)
      PROVE  DataInv'
  <2> HIDE DEF Same
  <2>1. pc'[t] = p /\ \A u \in Threads \ {t} : pc'[u] = pc[u]
    BY <1>0, <1>6 DEF GoTo
  <2> QED
    BY <1>0, <1>6, <2>1, DataFrame DEF Same
<1>11. CASE ThreadStartFails(t)
  <2>1. Same
    BY <1>1, <1>11, StartFailsEffect, ReleaseEffect
  <2>2. pc'[t] = "failed" /\ \A u \in Threads \ {t, "acc"} : pc'[u] = pc[u]
    BY <1>0, <1>11, StartFailsGoes
  <2> QED
    BY <1>0, <2>1, <2>2, DataFrame
<1>7. CASE StartThreads(t)
  <2>1. Same
    BY <1>0, <1>1, <1>7, StartThreadsEffect
  <2>2. pc'[t] = "accepted" /\ \A u \in Threads \ {t, "acc"} : pc'[u] = pc[u]
    BY <1>0, <1>7, StartThreadsGoes
  <2> QED
    BY <1>0, <2>1, <2>2, DataFrame
<1>8. CASE PostConnect(t)
  <2>1. Same
    BY <1>0, <1>1, <1>8, PostConnectEffect
  <2>2. GoTo(t, "start")
    BY <1>8 DEF PostConnect
  <2> HIDE DEF Same
  <2> QED
    BY <1>6, <2>1, <2>2
<1>9. CASE Accept(t) \/ AcceptReturns(t) \/ AcceptWaitFailed(t)
  <2>1. Same
    BY <1>1, <1>2, <1>9, ReleaseEffect DEF Accept, AcceptReturns, AcceptWaitFailed
  <2>2. GoTo(t, "done") \/ GoTo(t, "request") \/ GoTo(t, "failed")
    BY <1>9 DEF Accept, AcceptReturns, AcceptWaitFailed
  <2> HIDE DEF Same
  <2> QED
    BY <1>6, <2>1, <2>2
<1>10. CASE Sleep(t)
  BY <1>10, DataFrame DEF Sleep
<1> QED
  BY <1>3, <1>4, <1>5, <1>7, <1>8, <1>9, <1>10, <1>11
     DEF AcceptStep, AcceptWaitFails, AcceptTimesOut

LEMMA NextData ==
    ASSUME TypeInv, AccessInv, AcceptInv, EventInv, DataInv, Next
    PROVE  DataInv'
<1>0. /\ Ends = {"conn", "acc"} /\ "conn" # "acc" /\ Ends \cap (Connectors \cup Acceptors) = {}
      /\ Connectors \subseteq Threads /\ Acceptors \subseteq Threads
  BY Names
<1>1. ASSUME NEW e \in Ends, SessionStep(e) PROVE DataInv'
  <2>1. /\ \A t \in Connectors \cup Acceptors : pc'[t] = pc[t]
        /\ \A f \in Ends : /\ session'[f].direction = session[f].direction
                           /\ session'[f].connectionData = session[f].connectionData
                           /\ session'[f].peerData = session[f].peerData
    BY <1>0, <1>1, SessionFrame
  <2> QED
    BY <2>1, DataFrame
<1>2. ASSUME NEW t, \/ CancelListener \/ DestroyListener \/ SpuriousWakeUp(t)
                    \/ EventChannelThread(t)
      PROVE  DataInv'
  BY <1>2, QuietFrame, DataFrame
<1>3. ASSUME NEW t \in Acceptors, AcceptStep(t) \/ Accept(t)
                 \/ (pc[t] = "request" /\ AcceptTimesOut(t))
      PROVE  DataInv'
  BY <1>3, AcceptorKeepsData
<1> QED
  BY <1>1, <1>2, <1>3, ConnectorKeepsData DEF Next, Progress, SessionStep

-----------------------------------------------------------------------------
(* The inductive invariant holds                                           *)

LEMMA InitInv == ASSUME Init PROVE IInv
<1>0. /\ Ends = {"conn", "acc"} /\ "conn" # "acc" /\ Ends \subseteq Threads
      /\ Ends \cap (Connectors \cup Acceptors) = {}
      /\ Connectors \subseteq Threads /\ Acceptors \subseteq Threads
      /\ NoThread \notin Connectors /\ NoThread # "canceller"
      /\ "conn" \in Ids /\ "acc" \in Ids /\ "listen" \in Ids /\ "listen" # "acc"
  BY Names DEF Ids
<1>1. /\ \A e \in Ends : /\ session[e] \in Sessions /\ session[e].direction = "Unknown"
                         /\ session[e].destroy = "no"
      /\ session \in [Ends -> Sessions]
  <2> DEFINE S == [direction : {"Unknown"}, connectionData : UserData \cup {"none"},
                   peerData : {"none"}, createdQp : {FALSE}, creditBuffers : {"none"},
                   ackHandler : {"none"}, connected : {FALSE}, completions : {"none"},
                   pollerCancelled : {FALSE}, destroy : {"no"}]
  <2>1. session \in [Ends -> S]
    BY DEF Init
  <2>2. ASSUME NEW s \in S PROVE s \in Sessions /\ s.direction = "Unknown" /\ s.destroy = "no"
    BY ConnectionAssumption DEF Sessions, Destroys
  <2> HIDE DEF S
  <2> QED
    BY <2>1, <2>2
<1>2. /\ \A t \in Connectors \cup Acceptors : pc[t] = "idle"
      /\ \A e \in Ends : pc[e] = "none"
      /\ pc \in [Threads -> Places] /\ holder = NoThread
  <2>1. "none" \in Places /\ "idle" \in Places
    BY DEF Places
  <2> QED
    BY <1>0, <2>1 DEF Init
<1>3. /\ \A i \in Ids : queue[i] = IF i = "acc" THEN NoQueue ELSE NewQueue
      /\ \A i \in Ids : channel[i] = <<>>
      /\ queue \in [Ids -> Queues] /\ channel \in [Ids -> Seq(Events)]
  <2>1. <<>> \in Seq(Events)
    OBVIOUS
  <2> QED
    BY <2>1, NewQueueFields DEF Init
<1>4. flags \in Flags
  BY DEF Init, Flags
<1>5. PlaceInv
  BY <1>2 DEF PlaceInv
<1>6. TypeInv
  BY <1>1, <1>3, <1>4, <1>5 DEF TypeInv
<1>7. AccessInv
  BY <1>0, <1>1, <1>2 DEF AccessInv, HasAccess, Inside, Early
<1>8. ConnectInv
  BY <1>0, <1>2 DEF ConnectInv, Made
<1>9. AcceptInv
  BY <1>0, <1>1, <1>2 DEF AcceptInv, InAccept
<1>10. DestroyInv
  <2>1. \A e \in Ends : JoinedInv(e)
    BY <1>1 DEF JoinedInv
  <2> QED
    BY <1>0, <1>1, <1>3, <2>1, NewQueueFields DEF DestroyInv
<1>11. EventInv
  BY <1>0, <1>3, NewQueueFields, CarriesEmpty DEF EventInv
<1>12. DataInv
  BY <1>2 DEF DataInv
<1> QED
  BY <1>6, <1>7, <1>8, <1>9, <1>10, <1>11, <1>12 DEF IInv

LEMMA NextInv == ASSUME IInv, [Next]_vars PROVE IInv'
<1>1. CASE Next
  BY <1>1, NextType, NextAccess, NextConnect, NextAccept, NextDestroy, NextEvent, NextData
     DEF IInv
<1>2. CASE UNCHANGED vars
  BY <1>2 DEF IInv, vars, TypeInv, PlaceInv, AccessInv, ConnectInv, Aborted, AcceptInv, DestroyInv,
              JoinedInv, HandlerIsOver, EventInv, DataInv
<1> QED
  BY <1>1, <1>2

\* The inductive invariant, for every set of threads and all connection data.
THEOREM Invariance == Spec => []IInv
  BY InitInv, NextInv, PTL DEF Spec

LEMMA AtMostOne ==
    ASSUME NEW S, \A x, y \in S : x = y
    PROVE  Cardinality(S) <= 1
<1>1. CASE S = {}
  BY <1>1, FS_EmptySet
<1>2. CASE S # {}
  <2>1. PICK x \in S : TRUE
    BY <1>2
  <2>2. S = {x}
    BY <2>1
  <2> QED
    BY <2>2, FS_Singleton
<1> QED
  BY <1>1, <1>2

LEMMA InvOneWaiter == IInv => OneWaiter
<1> SUFFICES ASSUME IInv, NEW id \in Ids, ~queue[id].waitAborted
             PROVE  Cardinality({t \in Threads : pc[t] \in Waits /\ IdOf(t) = id}) <= 1
  BY DEF OneWaiter
<1> DEFINE W == {t \in Threads : pc[t] \in Waits /\ IdOf(t) = id}
<1> USE DEF IInv
<1>0. /\ Threads = Connectors \cup Acceptors \cup Ends /\ Ends = {"conn", "acc"}
      /\ Connectors \cap Acceptors = {} /\ Connectors \cap Ends = {} /\ Acceptors \cap Ends = {}
      /\ "conn" # "acc" /\ "listen" # "conn" /\ "listen" # "acc"
      /\ Waits = {"addr", "route", "connect", "request", "established", "handle"}
  BY Names DEF Threads, Waits, Expected
<1>1. ASSUME NEW t \in Connectors, t \in W
      PROVE  id = "conn" /\ pc[t] \in Inside /\ pc["conn"] = "none"
  <2>1. pc[t] \in Inside \cap {"addr", "route", "connect"}
    BY <1>0, <1>1 DEF TypeInv, PlaceInv, Inside
  <2> QED
    BY <1>0, <1>1, <2>1 DEF IdOf, EndOf, ConnectInv, Aborted
<1>2. ASSUME NEW t \in Acceptors, t \in W
      PROVE  /\ pc[t] \in InAccept
             /\ id = "listen" \/ (id = "acc" /\ pc["acc"] = "none")
  <2>1. pc[t] \in {"request", "established"}
    BY <1>0, <1>2 DEF TypeInv, PlaceInv, InAccept
  <2> QED
    BY <1>0, <1>2, <2>1 DEF IdOf, EndOf, AcceptInv, InAccept
<1>3. ASSUME NEW t \in Ends, t \in W
      PROVE  pc[t] = "handle" /\ id = t
  <2>1. pc[t] = "handle"
    BY <1>0, <1>3 DEF TypeInv, PlaceInv
  <2> QED
    BY <1>0, <1>3, <2>1 DEF IdOf, EndOf
<1>4. ASSUME NEW t \in W, NEW u \in W PROVE t = u
  <2>1. t \in Connectors \cup Acceptors \cup Ends /\ u \in Connectors \cup Acceptors \cup Ends
    BY <1>0
  <2> HIDE DEF W
  <2>2. CASE t \in Connectors
    BY <1>0, <1>1, <1>2, <1>3, <1>4, <2>1, <2>2 DEF AccessInv
  <2>3. CASE t \in Acceptors
    BY <1>0, <1>1, <1>2, <1>3, <1>4, <2>1, <2>3 DEF AcceptInv
  <2>4. CASE t \in Ends
    BY <1>0, <1>1, <1>2, <1>3, <1>4, <2>1, <2>4
  <2> QED
    BY <2>1, <2>2, <2>3, <2>4
<1> HIDE DEF W
<1>5. Cardinality(W) <= 1
  BY <1>4, AtMostOne
<1> QED
  BY <1>5 DEF W

LEMMA InvSessionOutlivesThreads == IInv => SessionOutlivesThreads
<1> SUFFICES ASSUME IInv PROVE SessionOutlivesThreads
  OBVIOUS
<1> USE DEF IInv
<1>0. /\ Threads = Connectors \cup Acceptors \cup Ends /\ Ends = {"conn", "acc"}
      /\ Connectors \cap Acceptors = {} /\ Connectors \cap Ends = {} /\ Acceptors \cap Ends = {}
      /\ "conn" # "acc" /\ "listen" # "conn" /\ "listen" # "acc"
      /\ Waits = {"addr", "route", "connect", "request", "established", "handle"}
      /\ \A e \in Ends : JoinedInv(e)
  BY Names DEF Threads, Waits, Expected, DestroyInv
<1>1. ASSUME NEW t \in Connectors, pc[t] \notin {"idle", "done"}
      PROVE  queue["conn"].inMap
  BY <1>1 DEF AccessInv, DestroyInv, Early
<1>2. ASSUME NEW t \in Threads, pc[t] \in Waits PROVE queue[IdOf(t)].inMap
  <2>1. CASE t \in Connectors
    <3>1. IdOf(t) = "conn"
      BY <1>0, <2>1 DEF TypeInv, PlaceInv, Inside, IdOf, EndOf
    <3>2. pc[t] \notin {"idle", "done"}
      BY <1>0, <1>2
    <3> QED
      BY <1>1, <2>1, <3>1, <3>2
  <2>2. CASE t \in Acceptors
    <3>1. pc[t] \in {"request", "established"}
      BY <1>0, <1>2, <2>2 DEF TypeInv, PlaceInv, InAccept
    <3>2. CASE pc[t] = "request"
      BY <2>2, <3>2 DEF IdOf, AcceptInv
    <3>3. CASE pc[t] = "established"
      <4>1. IdOf(t) = "acc"
        BY <1>0, <2>2, <3>3 DEF IdOf, EndOf
      <4>2. session["acc"].direction # "Unknown" /\ session["acc"].destroy = "no"
        BY <2>2, <3>3 DEF AcceptInv
      <4> QED
        BY <4>1, <4>2 DEF DestroyInv
    <3> QED
      BY <3>1, <3>2, <3>3
  <2>3. CASE t \in Ends
    <3>1. pc[t] = "handle" /\ IdOf(t) = t
      BY <1>0, <1>2, <2>3 DEF TypeInv, PlaceInv, IdOf, EndOf
    <3>2. session[t].destroy \notin {"idDestroyed", "gone"}
      BY <1>0, <2>3, <3>1 DEF JoinedInv, HandlerIsOver
    <3>3. t = "acc" => session["acc"].direction # "Unknown"
      BY <3>1 DEF AcceptInv
    <3> QED
      BY <1>0, <2>3, <3>1, <3>2, <3>3 DEF DestroyInv
  <2> QED
    BY <1>0, <2>1, <2>2, <2>3
<1>3. ASSUME NEW e \in Ends, session[e].destroy = "disconnected" PROVE queue[e].inMap
  BY <1>0, <1>3 DEF DestroyInv, AcceptInv
<1>4. ASSUME NEW e \in Ends, session[e].destroy = "gone"
      PROVE  /\ HandlerIsOver(e) /\ session[e].completions # "running"
             /\ session[e].ackHandler # "running"
  BY <1>0, <1>4 DEF JoinedInv
<1>5. \A t \in Connectors : pc[t] = "catch" => queue["conn"].inMap
  BY <1>1
<1> QED
  BY <1>2, <1>3, <1>4, <1>5 DEF SessionOutlivesThreads

\* Only PostConnect makes an end connected.
LEMMA Connects ==
    ASSUME TypeInv, Next, NEW e \in Ends, session'[e].connected, ~session[e].connected
    PROVE  \E t \in Connectors \cup Acceptors : PostConnect(t) /\ EndOf(t) = e
<1>1. ASSUME NEW f \in Ends, NEW F, Updates(f, F), "connected" \notin F PROVE FALSE
  <2>1. session'[e].connected = session[e].connected
    BY <1>1 DEF Updates, SameBut
  <2> QED
    BY <2>1
<1>2. ASSUME UNCHANGED session PROVE FALSE
  BY <1>2
<1>3. ASSUME NEW t \in Connectors \cup Acceptors, PostConnect(t) PROVE EndOf(t) = e
  <2>1. t \in Threads
    BY Names
  <2>2. \A f \in Ends \ {EndOf(t)} : session'[f] = session[f]
    BY <1>3, <2>1, PostConnectEffect DEF Updates
  <2> QED
    BY <2>2
<1>4. ASSUME NEW t \in Connectors \cup Acceptors, StartThreads(t) PROVE FALSE
  <2>1. t \in Threads
    BY Names
  <2> QED
    BY <1>1, <1>4, <2>1, StartThreadsEffect, IdOfThread
<1>5. ASSUME NEW t \in Connectors, ConnectStep(t) \/ Connect(t) \/ ConnectTimesOut(t)
      PROVE  PostConnect(t)
  <2>1. ASSUME CancelConnect(t) \/ JoinAckHandler(t) PROVE FALSE
    BY <1>1, <2>1, CancelConnectEffect, JoinAckHandlerEffect, Names
  <2>2. ASSUME NEW d \in Directions, SetUp(t, d) PROVE FALSE
    BY <1>1, <2>2, SetUpEffect, Names
  <2> QED
    BY <1>2, <1>4, <1>5, <2>1, <2>2, StartFailsEffect
       DEF ConnectStep, Connect, ConnectTimesOut, Sleep, TestInProgress, ResolveRoute,
           RequestConnection, ConnectionEstablished, ConnectWaitFails, SetEverConnected,
           ClearInProgress, Resume
<1>6. ASSUME NEW t \in Acceptors, AcceptStep(t) \/ Accept(t) \/ AcceptTimesOut(t)
      PROVE  PostConnect(t)
  <2>1. ASSUME session' = [session EXCEPT !["acc"].destroy = "released"] PROVE FALSE
    BY <1>1, <2>1, ReleaseEffect, Names
  <2>2. ASSUME NEW d \in Directions, Construct(t, d) PROVE FALSE
    BY <1>1, <2>2, ConstructEffect, Names
  <2> QED
    BY <1>2, <1>4, <1>6, <2>1, <2>2, StartFailsEffect
       DEF AcceptStep, Accept, AcceptTimesOut, Sleep, Answer, AcceptEstablished,
           AcceptWaitFails, AcceptWaitFailed, AcceptReturns
<1>7. ASSUME NEW f \in Ends, SessionStep(f) PROVE FALSE
  <2>1. CASE f # e
    BY <1>7, <2>1, SessionFrame
  <2>2. CASE HandleEvent(f) \/ JoinHandler(f)
    BY <2>1, <2>2, HandleEventEffect, JoinHandlerEffect
  <2>3. CASE \/ AckHandlerEnds(f) \/ CompletionsCancelled(f) \/ AbortSession(f)
             \/ CloseSession(f)
    BY <1>1, <2>3, AckHandlerEndsEffect, CompletionsCancelledEffect, CancelSessionEffect
       DEF AbortSession, CloseSession, Destroys
  <2>4. CASE CancelJoins(f) \/ Disconnect(f) \/ JoinCompletions(f) \/ DestroyBase(f)
    BY <1>1, <2>4, CancelJoinsEffect, DisconnectEffect, JoinCompletionsEffect,
       DestroyBaseEffect
  <2> QED
    BY <1>2, <1>7, <2>2, <2>3, <2>4 DEF SessionStep, HandlerStep, Sleep, HandlerEnds,
                                        DestroyStep
<1>8. ASSUME NEW t, \/ CancelListener \/ DestroyListener \/ SpuriousWakeUp(t)
                    \/ EventChannelThread(t)
      PROVE  FALSE
  BY <1>2, <1>8, QuietFrame
<1>9. \E t \in Connectors \cup Acceptors : PostConnect(t)
  BY <1>5, <1>6, <1>7, <1>8 DEF Next, Progress, SessionStep
<1> QED
  BY <1>3, <1>9

\* It finds the data of the other end validated.
LEMMA StepConnectsToCounterpart ==
    ASSUME IInv, [Next]_vars, NEW e \in Ends, session'[e].connected, ~session[e].connected
    PROVE  session[Other(e)].connectionData = Opposite[session[e].direction]
<1> USE DEF IInv
<1>1. Next
  BY DEF vars
<1>2. PICK t \in Connectors \cup Acceptors : PostConnect(t) /\ EndOf(t) = e
  BY <1>1, Connects
<1>3. pc[t] = "connected"
  BY <1>2 DEF PostConnect
<1>4. Other("conn") = "acc" /\ Other("acc") = "conn" /\ "conn" # "acc"
  BY DEF Other, Ends
<1>5. CASE t \in Connectors
  BY <1>2, <1>3, <1>4, <1>5 DEF EndOf, DataInv
<1>6. CASE t \in Acceptors
  <2>1. e = "acc"
    BY <1>2, <1>6, Names DEF EndOf
  <2>2. /\ session["acc"].peerData = session["conn"].connectionData
        /\ session["acc"].peerData = Opposite[session["acc"].direction]
    BY <1>3, <1>6 DEF DataInv
  <2> QED
    BY <1>4, <2>1, <2>2
<1> QED
  BY <1>5, <1>6

-----------------------------------------------------------------------------
(* The properties of Connection                                            *)

\* Two Connects, two Accepts, or a Connect and the connection handler that
\* PostConnect starts never wait for the same id, so that notify_one wakes the thread
\* an event is for: connectInProgress, acceptInProgress and the order of PostConnect
\* exclude one another's waits, although access is suspended while Connect waits.  Only
\* where the waits of the id are aborted, and nobody sleeps any more, may a second Connect
\* meet the handler of one whose last thread did not start.
THEOREM WaitsExclude == Spec => []OneWaiter
  BY Invariance, InvOneWaiter, PTL

\* Whoever waits in the EventManager finds the queue of the id, and a destroyed
\* session has no running thread: Destroy joins the completion thread and the
\* connection handler before the id goes, and the base destructor the ackHandler.
THEOREM Lifetime == Spec => []SessionOutlivesThreads
  BY Invariance, InvSessionOutlivesThreads, PTL

\* PostConnect makes an end connected only after ValidateConnectionData, at both ends,
\* has compared its direction with what the other end's connectionData says now: the
\* data that a private-data event carries has not changed since it was sent.
THEOREM Counterparts == Spec => ConnectsToCounterpart
<1>1. ASSUME IInv, [Next]_vars
      PROVE  [\A e \in Ends : session'[e].connected /\ ~session[e].connected =>
                  session[Other(e)].connectionData = Opposite[session[e].direction]]_vars
  BY <1>1, StepConnectsToCounterpart
<1> QED
  BY <1>1, Invariance, PTL DEF Spec, ConnectsToCounterpart

=============================================================================
