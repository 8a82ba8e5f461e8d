# easyrdma: TLA+ verification project

easyrdma is a C library over RDMA connections: sessions that listen, connect, and then send or
receive through a queue of buffers. Its difficult part is not the transfer but who may touch what
when: an arbitrary number of client threads call a C API on shared handles, while threads of the
library deliver completions, credits and disconnections. These modules model that part; TLC checks
them on small instances. For the lock on which everything rests, the session manager, the buffer
queue and its ring, the flow control between two ends, and the Windows backend, TLAPS proves the
safety properties of the runs for every value of the constants.

Run from this directory:

    tlc -workers 2 -config AccessManager.cfg AccessManager
    tlapm AccessManagerProofs.tla

(a proof module takes up to three minutes).

`PROJECT.json` lists the runs, the source lines each definition stands for, a mutant for each
property, the hazards and the findings. Paths below are relative to `src/core/`.

## 1. The system

| Part | State | Operations | Talks to |
|---|---|---|---|
| Access manager (`api/tAccessManager.h`, `tAccessManagedRef.h`, `tAccessSuspender.h`) | lists of active, pending, suspended and unused requests with their counters; per request two counts, a nesting mask and an auto-reset event; `refcount`, `allRefsReleased` | Acquire, Release, AcquireAll, ReleaseAll, SuspendAccess, ResumeAccess, WaitForAllReferencesToBeReleased | every API call on a session |
| Session manager and C API (`api/rdma_api_common.h`, `api/rdma_api_c.cpp`) | `sessionMap`, `deferredCloseSessionMap`, `mapLock`, per-thread last error | CreateListener/Connector, CloseSession, AbortSession, Accept, Connect, Configure*, Acquire*Region, Queue*Region, Release*Region, properties | access manager, sessions |
| Connected session (`common/RdmaConnectedSessionBase.cpp`) | `connected`, the transfer and credit queues, credits received before configuration, `bufferWaitInProgress` | configuration, queueing, credit messages, disconnection, cancellation | buffer queues, queue pair |
| Buffer queue (`common/RdmaBufferQueue.cpp`, `RdmaBuffer.cpp`) | idle, queued, completed, waiting-for-credit and user lists, credits, `queueStatus`, `aborted` | WaitForIdleBuffer, WaitForCompletedBuffer, QueueBuffer, AddCredit, HandleCompletion, ReleaseBuffer, Abort | client threads, completion thread, ack thread |
| Linux queue pair and threads (`linux/RdmaConnectedSession.cpp`) | queue pair, completion queues, send/receive/ack threads | QueueToQp, completion polling | buffer queues |
| Circular FIFO (`common/tCircularFifo.h`) | ring, head, size | push, pop, front | buffer queue |
| Connection events, connector, listener (`linux/EventManager.h`, `RdmaConnector.cpp`, `RdmaListener.cpp`) | per-id event queues, `waitAborted`, handshake data | Connect, Accept, Cancel, event thread | session manager, connected session |
| Error status (`common/RdmaError.h`, `api/errorhandling.cpp`) | first error, thread-local last error | Assign | everything |
| Windows backend (`windows/`) | the same sessions over NetworkDirect: connector, queue pair, completion queue, two threads, overlapped requests | Connect, Accept, Cancel, Destroy | session manager, connected session |
| Addresses and enumeration (`common/RdmaAddress.h`, `*/RdmaEnumeration.cpp`) | none of their own | parsing, formatting, enumeration of interfaces | C API |
| Thread utilities (`common/ThreadUtility.*`) | none of their own | threads with a priority | connected session |

**What is hard.** The access manager admits threads one at a time, hand over hand, with the lock
released between steps. Its reference count and the event that goes with it are not under the lock
at all. API calls give their access up in the middle (`tAccessSuspender`) and go on with what they
read before. The session manager holds `mapLock` while it waits for access. Buffers enter
`queuedBuffers` under the queue's lock and the queue pair outside it, from two threads. Completion,
failure, disconnection and cancellation race for each buffer and its callback. Waits on condition
variables have no predicate loop. A close may be deferred until the last user buffer is back, which
two threads test separately. The two ends of a connection agree on buffers only through credit
messages, which themselves need buffers. The Windows backend waits for requests that write to the
caller's stack. The hazards are listed one by one, with their lines, in `PROJECT.json`.

**What makes each part correct.** Access manager: mutual exclusion, no lost request, wakeup or
admission, no starvation, exact counters, a close that waits for all references. Session manager: no
reference after the close, a close returns, a deferred session is destroyed neither too early nor
never. Buffer queue: every buffer has one owner, sends respect order, completions come in order,
every accepted submission gets exactly one callback, nobody sleeps over a buffer. Flow control: every
credit stands for a posted buffer, every message finds one, and nobody waits for ever for a credit
buffer. Ring: a first in, first out queue, no index outside the vector. Connection: one waiter per id,
both ends agree on their directions, a disconnection is noticed, a cancelled or failed session ends
and leaves no thread behind. C API: the last error is that of the last call, addresses that are given
out can be passed back, completions have one consumer. Windows backend: flags follow the calls,
queues and OVERLAPPEDs exist while they are used, a destruction ends.

## 2. Modules

`RequestLists` implements `AccessManager` (a refinement), and `SessionManager` composes it with the
session table (an `INSTANCE`; every step of a call that touches the access manager is a step of that
module). The other modules rest on what these two show: a client call has the session to itself, next
to calls that have suspended their access. `Connection` and `WindowsSession` are a session's life
before and after the transfer, on the two systems; `BufferQueue` is one queue of a connected session;
`FlowControl` puts a sender and a receiver together, with a queue's operations as steps that
`BufferQueue` takes apart. `CircularFifo`, which implements `BoundedFifo`, justifies the sequences that
stand for `tCircularFifo` elsewhere. `ApiCalls`, over the pure definitions of `Addresses`, is the C API
as its client sees it. `MCRequestLists` and `MCApiCalls` add a symmetry set and the interfaces of a
machine for TLC.

### AccessManager

One action is one section under `criticalSection`, or one access to an atomic or an event outside
it. A thread has at most one `tRequest`, so requests are named by threads; `pc[t]` says where `t` is:

| `pc` | In the code |
|---|---|
| `out` | not in a call of the access manager |
| `reset` | in `IncRef`, after `++refcount == 1`, before `allRefsReleased.reset()` |
| `lock` | in `Acquire`, about to enter Get(Shared/Exclusive)Access |
| `waiting`, `woken` | in `SatisfyRequest`, in `WaitForSignal`, or back from it and about to take the lock again |
| `decref`, `release` | in `Release` after the lock, before `--refcount`; before `allRefsReleased.release()` |
| `waitrefs` | in `WaitForAllReferencesToBeReleased` |

A thread that has suspended its access makes no other call than ResumeAccess, and
ReleaseAndWaitForAllReferencesGone is called with a single access, as in the code's only uses.
`kMaxNestLevel` is the constant `MaxNest`. The request objects are the subject of `RequestLists`.

### RequestLists

The same lock with its data: `m` is the sequence of all `tRequest` objects that were ever allocated and
the four lists (active, pending, suspended, and `empty`, the pool), each with the counters `shared` and
`exclusive` that the code updates on every insertion and removal. A request has two counts, its nesting
mask as a number, and its event. Fresh objects hold garbage (the code allocates raw memory and runs the
constructor later), recycled ones what their last owner left. The mask is as wide as accesses may be
nested, and a bit that is shifted out is lost. A failed assertion sets `aborted` and ends the behaviour.
`ReleaseAll` and `AcquireAll`, which only the unit tests call, release and acquire one access at a time
around `all[t].stack`.

`ImplementsAccessManager` maps it back: the lists to the threads of their requests (`ThreadsIn`,
`PendingOf`), counts and mask to the stack of kinds (`StackOf`, `NestingOf`; bit i is read with `Two[i]`,
which is `1 << i`), the event to `signal` (`SignalOf`). A request in the pool is nobody's, and one that is in
no list is in the hands of the call that runs.
Left out: `YieldExclusive` and `ReleaseAndReacquireAtEnd` (private, without callers; so `yieldedTo` is
never set), the destructor and the debugging functions.

### BufferQueue

One action is one section under `queueLock`. What happens outside it is a step of its own:
`QueueToQp`, the callbacks (`CallCompletionCallback`, `CallAbortCallback`), and the error of a failed
`AddCredit` (`RecordCreditError`). `direction`, `external`, `usePolling` and `maxWr` are the kind of queue
(send or receive, RdmaBufferQueueMultipleBuffer or RdmaBufferQueueSingleBuffer, who takes completions,
how deep the queue pair is), fixed at the start. A receive queue starts with PostConfigure still to queue
its buffers (`toQueue`). The queue pair `qp` is external: a FIFO of at most `maxWr` work requests that
flushes what is left after a failure. `AbortOnDisconnect` waits until no AddCredit is under way because
both hold `configureLock`. The test of `connected` before QueueBuffer is unlocked in the code; it is
merged with the locked part, since a disconnection between the two is the same as one just after.

Completions are taken by the completion thread (`poller`) or, with `usePolling`, by the client that waits
(`waiter = "polling"`, PollForReceive outside `queueLock`). `UnknownOpcode` is the nondeterministic outcome
of reading a work completion's `opcode`, which the verbs library leaves unset on failure: the thread ends,
or the client's call does. A completion that is not that of the oldest queued buffer fails the assertion
of HandleCompletion, and throws (`PollerThrows`). That the polling client's guard then unlocks a mutex that
is not locked has no effect that the model could show.

`released`, `orphaned` and `strayed` are history variables for the exceptions that the properties name.
Left out: the receiver's credit messages (FlowControl) and the destructor.

### FlowControl

Two ends: the sender with its transfer queue, its posted credit buffers and AckHandlerThread
(`ackHandler`); the receiver with its transfer queue, its credit buffers, and the call that configures it
or returns buffers (`caller`, and `owed`, the lengths that the call has yet to announce). A receive buffer
is the length that its credit announces. `posted` is the receiver's part of the queue pair; `dataNet` and
`creditNet` are messages under way. Either end may configure first: credits that arrive before the sender
has a queue are kept (`preConfigureCredits`). Credit messages wait for an idle credit buffer
(`WaitForCreditBuffer`), without a timeout but with a condition variable that may wake up for nothing, in
which case the call ends with Timeout and its buffers stay unannounced (`unannounced`). AckHandlerThread's
own wait has no predicate loop either: when it wakes up for nothing it throws Timeout, and the thread ends
on a connection that is in order (`AckWakesForNothing`, `ackHandler.at = "timedOut"`). A message that finds
no buffer is retried by the queue pair for ever (an `rnr_retry_count` of 10 counts as 7, which means that). The
connection may break at any point; each end then aborts its transfer queue and its credit queue, one after
the other.

### SessionManager

One session's handle, which is in `sessionMap`, in the deferred table or in neither (`place`), and a set of
threads that make calls on it. `calls[t]` is the stack of calls `t` is in (a callback of Cancel may make one
of its own), `step[t]` where it is in the innermost. The body of a call is kept as far as it waits, cancels,
or changes the number of user buffers. `mapLock` is explicit, since the code waits with it held. The lookup
is as many steps as the code has between mapLock and the reference: the handle is found (`Lookup`), its
reference is counted (`MakeReference`), and only then is the access asked for, since
`CheckDeferredSessionDestructionReady` erases the handle from the deferred table without `mapLock` and may
come between. `DestroySession`'s temporary second reference is acquired and released under the first one and
cancels out. The session is a connected one, one with external buffers, or a listener (`kind`).
QueueExternalBufferRegion ("external") takes an idle buffer into `userBuffers` with its access suspended and
then queues it or, if the session has buffers of its own or the post fails, leaves it there for ever
(`QueueExternal`); these buffers are not the user's, and no release will come for them. "release" gives a
region back, "rerelease" does so with one that was given back before. `deferFlag` remembers a close with
DeferWhileUserBuffersOutstanding that found nobody waiting for a buffer, `forgotten` a test of a deferred
close that found only buffers of QueueExternalBufferRegion.

### BoundedFifo and CircularFifo

`CircularFifo` is `tCircularFifo` with its vector, `_head` and `_size`; `reallocate` keeps the old
elements that fit, as `vector::resize` does. The assertions of push, front and pop are guards: that
the callers meet them is what BufferQueue's `OneOwner` shows, since no list can hold more buffers than
there are. `seen` is a history variable for the value that the last push or front passed, so that the
refinement says which element a caller gets and not only how many there are. `BoundedFifo` is the
abstract queue.

### Connection

Both ends of one connection: the connector's session and id (`conn`), the listener's id (`listen`),
and the session and id that the listener makes for the request (`acc`).

| Variable | In the code |
|---|---|
| `queue[id]` | the `ConnectionQueue` of the id: is it in `connectionMap`, its events, `waitAborted` |
| `wait[t]` | is `t` in `moreEvents.wait`, or woken but not yet past it |
| `session[e]` | `direction`, `connectionData`, `createdQp`, `connected`; `creditBuffers` (live or aborted); the base class's `ackHandler` (AckHandlerThread); `completions`, the `ackHandler` of the derived class, which is a different member of the same name (SendReceiveHandlerThread); `destroy`, how far a cancel or Destroy is |
| `flags` | `everConnected`, `connectInProgress`, `acceptInProgress` |
| `holder` | the thread with access to the connector; a call in a suspended section does not hold it |
| `pc[t]` | the line a Connect or Accept is at; for the names `conn` and `acc`, the connection handler thread of that session |
| `channel`, `link` | external: events that `rdma_get_cm_event` has yet to return, and the connection in rdma_cm |

rdma_cm is modelled from how the code uses it: a call fails at once, or puts an event (the expected or
another one) in the channel; events of one id keep their order, those of different ids do not.
A second queue pair on an id is refused. Connect's two tests of flags are two steps, because another
Connect changes the flags without the access; the sections that run with the access are otherwise one
step. A spurious wakeup is a step of its own, since the wait has no predicate loop: it makes Connect
and Accept fail, and ends the connection handler. The start of either thread of PostConnect may fail
(`ThreadStartFails`): Connect then unwinds and Accept destroys what it made, with a connection handler that may
run already, and a session that goes on to count as connected.
Connection data is the direction it announces, or `Foreign` (another protocol or version, which
only a user can set by SetProperty).

Bound: the listener accepts one session. An Accept starts while none has been constructed, or while
another Accept is under way (and then fails on `acceptInProgress`).

Left out: more than one connection per listener, the transfer handler thread (ApiCalls has its start),
addresses, failing constructors of connector and listener (also ApiCalls), aborts that would change nothing,
changes of ConnectionData while a Connect has suspended its access, and a listener's cancellation while
nobody waits in Accept (it only makes later Accepts fail).

### Addresses and ApiCalls

`Addresses` has the pure part: an address is a family, a host from a small set, a port and a scope id;
a string is a host with the scope id after `%`. ParseAddress, SockAddrToIpAddrString and the enumeration
of interfaces on both systems are operators over them. getaddrinfo is external.

`ApiCalls` has the handle table with its sessions and the last error of each thread. A call has its session
to itself, so it is one step from its argument checks to the code it returns; AbortSession and CloseSession
take two, because callbacks run between and may call the API on the same thread. `platform` is chosen at the
start: the Windows build, or Linux with or without a real-time kernel and its privileges, on which the start
of the completion thread may fail (`ThreadStarts`, `PostConfigure`). A session here is its kind, addresses,
connection, configuration (`transferBuffers`), `autoQueueRx`, `usePolling`, how far its completion thread is
(`handler`), and the histories `failed`, of configurations that threw half way, and `noted`, of what else
happened to that thread. The thread is started for the direction that the session has then, also before the
session is connected; it begins later (`HandlerBegins`), crashes if there is no queue pair (`Crashed`: the
process is gone) or ends at once if the session is not connected, and else runs until the session is
disconnected or its queue breaks (`HandlerEnds`). An accepted session has the addresses that rdma_cm reports
(external): its own, and one of `Peers`, each with or without its scope id (`Reported`). `output` is what
the last call gave its caller. The functions on buffers are not here: what they do is in BufferQueue and
FlowControl.

### WindowsSession

One session over NetworkDirect, made by RdmaConnector or by RdmaListener::Accept (`role`). `alive` says
whether the session object exists: an accepted one does once CreateConnector has made it. Connect, Accept
and Destroy are split where they wait or where the session's own threads, which need no access, may come
between. `request[r]` is a NetworkDirect request (external): pending, then ok or failed; `overlapped[r]`
says who passed the OVERLAPPED that it writes to, as long as that exists. A wait succeeds, fails, is
cancelled, or times out where the code has a timeout; then the code cancels the request and does not wait
for it. `connectionHandler` and `eventHandler` are the threads; `crashed` is the use of a null completion
queue, which the event handler reads for GetResults, for Notify, and again for the result of the Notify that
it issued. Posting to the queue pair and memory registration are the same as in the Linux backend, seen from
the queue, and are left out.

## 3. Runs

| Run | Shows |
|---|---|
| AccessManager | with three threads and nesting to 2: types and the nesting limit, mutual exclusion, conservation of requests, no lost wakeup or admission, return only with access, first come first served; and if no caller keeps its access for ever, every thread that asks gets it |
| RequestLists | three threads, a pool of one recycled object and more that are allocated, fresh objects with garbage in them: the counters are exact, AcquireAll restores what ReleaseAll released, and every step is a step of AccessManager |
| CircularFifo | rings of 0 to 4 places, two values: the ring implements BoundedFifo |
| Connection | one Connect against one Accept in either direction, with default or foreign connection data, failing steps and thread starts, timeouts, spurious wakeups, aborts and closes at any point: one waiter per id whose waits are not aborted, no thread outlives its session or looks for an event queue that is gone, an end connects only to its counterpart; a cancelled Connect ends, an Accept that took a request ends, a disconnection is noticed, a session that is closed or fails is destroyed |
| BufferQueue | send and receive, internal and external buffers, with a completion thread or a polling client, queue pairs of one and two places; two buffers, two sizes, three submissions, two credits, and a client whose last submission may be of a region it does not own: one owner per buffer, completion and sending in order, callbacks exactly once, sleep only for a reason, and after an abort every accepted submission is answered |
| FlowControl | a receiver with no, one or three buffers, internal or external, two credit buffers at each end with two credits per message, five posts, two messages of two sizes, wakeups for nothing at both ends, a connection that may break: credits match buffers, messages and credit messages find a buffer, the call that waits for a credit buffer returns unless AckHandlerThread has ended at a sender that stays connected |
| SessionManager | three threads, each with one call that waits for a buffer, queues one, queues an external one, accepts, gives a region back or does so a second time, closes, or does none of this, and with callbacks of the close that call back (AbortSession, which does less than a deferred close, is in SessionManager_maplock): a deferred session is neither forgotten nor destroyed under the user's buffers, no call but a second release gets a reference after the close, and after a close every call returns |
| ApiCalls | every function except those on buffers, on a created and an accepted session, by one thread with callbacks, with handler threads that begin late, end early or crash; three interfaces, two of them with link-local addresses, strings with the scope id of the wrong interface and on a global address, peers with and without a scope id: the last error, addresses, one consumer of completions, external buffers |
| WindowsSession | two threads that make four calls between them, for both roles: flags, queues, OVERLAPPEDs, and a Destroy that returns |
| Connection_race, SessionManager_maplock, SessionManager_references | end in a violation; see Findings |

**Bounds.** Three threads are needed and enough for the situations that differ: one with access, one
pending, one that arrives, suspends or closes. Nesting to 2 gives a nested access and an upgrade in both
orders, and lets SuspendAccess meet a full mask. RequestLists has four calls of Acquire, Suspend and
ReleaseAll between the threads (releases and resumes are free), which is enough to recycle an object while
others wait. Two buffers let one be completed or aborted while another is posted or waiting for a credit,
and a queue pair of one place be full. Two sizes give a credit that fits and one that does not. Three
submissions let a buffer be used again. In FlowControl three receive buffers are more than the two credit
buffers, one is less, none makes a configuration that announces nothing, and three buffers take two credit
messages, so that the call waits for the second credit buffer; five posts let both credit buffers come back.
In the code the numbers are 100 credit buffers, and `kMaxCreditsPerBuffer` credits in each. One user buffer
suffices for the deferred close, since only zero and not zero are told apart, and three threads with one
call each for its races: the close, the call that gives a buffer back or takes one, and the one that comes
between. Capacities 3 and 4 give rings that wrap with elements on both sides of the end, 0 and 1 the limits,
and changing from one to the other a reallocation over old contents. In Connection one caller of each kind
makes one call; two Connects are the subject of Connection_race. Two sessions in ApiCalls are a created one
and one it accepts; one system error is enough to be in the table of one system and unknown to the other.
Its run has one thread, whose calls are one step each, and no privilege to start a thread with a high
priority, so that configurations fail; that errors of several threads do not mix is proved for any of them.
The only symmetry is that of the threads in RequestLists, which checks no liveness. Deadlock checking is off
where calls are bounded, so that the system may simply have nothing left to do; AccessManager, the ring and
ApiCalls keep it on.

**Fairness.** AccessManager: each thread inside a call is scheduled, and a suspended thread resumes, since
the waits that a suspension surrounds end. That callers let go of their access is the premise of
`NoStarvation`, not an assumption about the library. BufferQueue: the thread that owes a callback calls it.
SessionManager: each thread inside a call is scheduled, and a wait ends after Cancel has aborted it; a wait
that nobody cancels may last for ever. Its `CloseReturns` excepts the circular wait of the first finding,
and nothing else. FlowControl: threads are scheduled, and a message that has a buffer arrives; one that has
none may be retried for ever, and a connection need not break. WindowsSession: threads run, and
NotifyDisconnect completes once the connection has ended; the peer need not answer. Connection:
`WF_vars(Progress)`, where Progress is every step of a thread that is running, the delivery of events that
rdma_cm has, and the one-second timeout of Accept's wait for ESTABLISHED. No call is ever forced, no other
wait has to time out, no spurious wakeup has to happen. Weak fairness of all these steps together (also in
FlowControl) is less than the fairness of each thread that the scheduler gives; it is enough because calls
are finitely many, so that the state graph has no cycle in which one thread could be overtaken for ever.

## 4. Proofs

Each proof module extends the module it is about and states, in this order: the inductive invariant,
lemmas on the data (lists, sequences, counts), one lemma per action or per way in which actions change
a conjunct, the temporal step, and what follows for the properties of the runs. Every inductive
invariant was checked with TLC before it was proved. The assumptions on constants are the `ASSUME` of
each module, which TLC evaluates in the run: numbers are natural numbers, limits that the code has are
not zero, the names for nobody and nothing are not threads or buffers, and the buffers are finitely
many. The sets of threads, calls, buffers, sizes and values and all bounds are otherwise arbitrary.

**AccessManagerProofs** proves that the specification keeps

    IInv == TypeOK /\ PlacesMatchLists /\ OneListPerRequest /\ ExclusiveIsAlone
            /\ NoLostWakeup /\ NoLostAdmission /\ ReturnsWithAccess

and from it the theorems `TypeCorrectness`, `MutualExclusion`, `RequestsConserved`, `Wakeups`,
`Admissions` and `AccessOnReturn`, and the action property `FirstCome` (`FirstComeFirstServed`). The
conjuncts need each other. An admission preserves mutual exclusion only if the admitted thread is not in
another list already (OneListPerRequest). That a woken thread may admit the next one needs that it is
active, which is known from its signal (NoLostWakeup) and its place (PlacesMatchLists, which ties `pc` to
the lists and is the strengthening). NoLostAdmission survives a release because a pending request that
stays at the head is incompatible with what is active.

**RequestListsProofs** proves `Counters` (`CountersExact`), `RestoresAccess` (`AcquireAllRestores`) and
`ListsImplementLock` (`ImplementsAccessManager`) for any threads, any width of the mask and any garbage in
fresh memory. Its invariant is

    IInv == AMP!IInv /\ Good(m, {}) /\ AllInv

- `AMP` is AccessManagerProofs over the mapped state: AccessManager's invariant holds of the lists because
  each step of the lists is one of its steps (`AMP!NextIInv`), and in turn it says what the lists' own
  proof needs, for example that the thread at the head of pending has no other request.
- `Good(L, X)` is about the data, where X is the set of requests that a call has taken out of all lists
  and not put back: each other object is in one list once, the counters of a list are the numbers of
  accesses of its requests, a request outside the pool has a thread of its own and a mask that agrees with
  its counts, and no event in the pool is set. Each list operation is a lemma from Good(L, X) to
  Good(L', X'), and an action is a chain of them.
- `AllInv` is about the calls of AcquireAll and ReleaseAll under way: the accesses that the thread has or
  waits for, followed by what is left on its stack, are those that it had (`Continues`).

What the mask says is the arithmetic of powers of two: a shift in moves every bit up (`Add` pushes on the
stack, unless it is full), a shift out moves them down. `Two` is defined by a recursion over numbers, for
which the module has its own induction, over a set in place of a predicate. The counters were sums by
a fold over a set; they are now stated as the number of the accesses (`Accesses`), which says the same, and
to which the library's theorems on cardinalities apply.

**SessionManagerProofs** proves `AccessRefinement`: every behaviour of SessionManager is one of
AccessManager, step by step, so the session manager's calls keep the callers' side of the lock's contract
(no release without access, no second request of a thread, resume only after suspend) and the lock's
theorems hold for them. The inductive invariant has AccessManager's as its first conjunct and adds where
the lock may be at each step of a call (`AccessInv`: a call has exactly the accesses it should have, all
exclusive), which calls may be inside which (`CallsInv`), which calls have a region of the user or a buffer
(`GotInv`), that `userBuffers` is at least what the user and these calls have (`BuffersInv`; a call of
QueueExternalBufferRegion that fails leaves more in it) and what a call knows of the handle it looked up
(`HandleInv`). From it:
`Exclusion` (`OneCallInside`, stated in this module: at most one call is inside the session without having
suspended its access), `Deferral` (`DeferredIsOwed`), `DeferralLasts`
(`DeferWhileUserBuffersOutstanding`), and the action property `ReferencesOnlyFall` (`NoNewReferences`).
The deferred close needs all of it: that the session is destroyed at most once depends on who can be
inside at the moment in which the last buffer comes back. And that a release which found the handle in the
deferred table gets its reference before the handle is erased needs the count of the buffers: its own is
among them, so that no other release can find none left. A second release of a region has none, and may
get its reference after the erasure; `ReferencesOnlyFall` excepts it and no other call.

**BufferQueueProofs** proves `Ownership` (`OneOwner`), `CompletionOrder`, `SendOrder`, `SleepReason` and
`AnsweredOnce` (`CallbackExactlyOnce`) for every set of buffers, depth and number of submissions and
credits. `ListsInv` says that the four lists have no repetitions and partition the buffers with the
user's; an action moves the head of one list to the end of another (`FifoStep`), so ownership is proved
once for all of them. The order of completions needs what the queue pair has in relation to `queued`
(the buffers being posted are at its end); the order of sends needs that callback numbers rise along
every list and that whoever waits for a credit came after whoever was sent; exactly one callback needs a
count of the places that hold it, over finitely many buffers. The same module proves of the ring behind
the four lists (CircularFifo, with which it shares no variable) that sequences may stand for it:
`IndicesInRange` (`RingSpec => []RingTypeOK`) and `RingImplementsFifo` (`RingSpec => ImplementsFifo`),
for every capacity. `RingTypeOK` is inductive as it stands. The refinement rests on three lemmas on
arithmetic modulo the capacity (`Wrap`, `Places`: different elements have different places in the
vector; `Shift`: the place after the head) and on two on the ring: writing behind the last element
appends it and touches no other (`RingPush`), and advancing the head drops the oldest (`RingPop`).

**FlowControlProofs** proves `Accounts` (`CreditsMatchBuffers`), `Delivery` (`DataFindsBuffer`) and
`CreditDelivery` (`CreditFindsBuffer`) for every number of buffers, of credit buffers, of credits in a
message and every length. The invariant is about one line of credits: those the sender has, those it kept
before its configuration, those of the message that AckHandlerThread is reading, those in completed and
travelling messages, and those a call still owes. `CreditInv` says that the line is as long as the posted
buffers that no message is under way to, and element by element their lengths; a step of either end moves
the line's cuts and never its elements. `MessageInv` (no credit message is empty) and `BufferInv` (the
transfer buffers of the receiver and the credit buffers of the sender are conserved) bound the number of
messages. The line runs through a sequence of sequences (FlattenSeq), so its lemmas need an induction:
`Induction` is derived from the least element of a set of numbers (WFMin), for a set in place of a
predicate, since the library's induction theorems take an operator that the provers cannot instantiate. The
proof found an error in the model: PostConfigure with no buffers sent an empty credit message, which the
code's `while (creditsLeft)` does not; the model and its run now have that case.

**WindowsSessionProofs** proves `Flags` (`FlagsMatchCalls`), `Queues` (`QueuesInUse`) and `Overlapped`
(`OverlappedOutlivesRequest`) for any threads and any number of calls. The strengthening is about who is
where: for a connector, access goes with the place in the call, at most one Connect is under way and it
finds no queues of the attempt before (`ConnectorInv`); for an accepted session, at most one Accept is
(`AcceptedInv`); `_closing` and the order in which Destroy resets the queues (`QueueInv`); and which
requests cannot be pending when the code gives an OVERLAPPED up (`OverlappedInv`).

**ConnectionProofs** proves `WaitsExclude` (`OneWaiter`), `Lifetime` (`SessionOutlivesThreads`) and the
action property `Counterparts` (`ConnectsToCounterpart`) for any threads that connect or accept and any
number of events in the channel. The conjuncts of its invariant `IInv`, checked with two connectors
and one acceptor and with one connector and two acceptors, are about

- who has access to the connector at which line, and that one Connect is under way at a time (`AccessInv`);
- when a connection handler of the connector's session runs: once the Connect has no wait left, and a
  Connect after it finds the queue pair and goes no further, or, if the one before failed at its last
  thread, finds the id's waits aborted (`ConnectInv`);
- that one Accept is under way at a time, and which session it has constructed (`AcceptInv`);
- which threads Destroy has joined at each point, and which ids still have a queue (`DestroyInv`);
- that events on their way and in the queues carry the data that their sender has now (`EventInv`), and
  that whoever goes on to connect has compared it with its own (`DataInv`).

`OneWaiter` and `SessionOutlivesThreads` need the first four together: a queue leaves `connectionMap` in
Destroy, which is safe only because of what Destroy has joined before, and a handler does not wait beside a
Connect only because of the order in which that Connect ends. `ConnectsToCounterpart` needs that a
user cannot change `connectionData` between the comparison and the connection. The helpers that change a
session have a lemma each that says which of its fields change (`SameBut`), and a step of one thread moves
that thread only, so that what the others know is preserved once for all steps (the `...Frame` lemmas).
Two things had to be stated in the model for this: the bound of one accepted session, which its
guard on Accept now has, and that no name stands for two threads.

**ApiCallsProofs** proves `LastErrors` (`ErrorOfLastCall`), `AddressStrings` (`AddressesSurvive`),
`Consumers` (`OneConsumer`) and `ExternalBuffers` (`ExternalNotAutoQueued`) for any threads, interfaces,
strings and number of sessions. A step is a whole call, so there is one lemma for each way in which a call
ends: it fails and changes no session (`FailsKeeps`), changes one (`UpdateKeeps`) or makes one
(`RegisterKeeps`). `ErrorInv` adds to the property that a thread without an error object has had no error
returned, since an object is made only for an error and not given back before the thread ends.
`ConsumerInv` adds what the code's tests establish in different calls: only a receiver that was connected
once polls, and nobody connects or sets polling after that; `autoQueueRx` is set only by ConfigureBuffers;
a handler that was started for a connected session goes on as long as the connection and its queue do.
What happened to a handler otherwise is in `noted`, which is the premise of `OneConsumer`.
`AddressesSurvive` is two facts: a string is read back as the address that it was made from, with the scope
id of a link-local one, whatever the interfaces are; and an address of an enumeration, or one that has its
scope id, can be reached. The second does not hold of a session's address that rdma_cm reports without a
scope id, as the tests allow for (`tests/tests.cpp:183`).

**Only model-checked.** Liveness (`NoStarvation`, `CloseReturns`, `CallReturns`, `DestroyReturns`,
`AbortAnswersAll`, `CallsEnd`, `DisconnectIsNoticed`, `DestroyEnds`), which is beyond the prover.
Every other property of the passing runs, the invariants, the action properties and the refinements, is
stated by one of the theorems above. The violations of the findings are traces of TLC.

## 5. Findings

1. **Deadlock over mapLock** (`SessionManager_maplock`). GetSession waits for access with `mapLock`
   held (`api/rdma_api_common.h:38`), and the thread with that access may need `mapLock`. There are two
   ways there: Abort calls callbacks outside `queueLock` so that they can call the API, but inside the
   session's exclusive access; and Accept registers the new session while it has the listener's
   access. The comment at `tAccessManager.h:625` warns of this.
2. **Second Connect on a connected session** (`Connection_race`). Between Connect's test of
   `everConnected` and its test of `connectInProgress` another Connect may finish, since it sets both
   with its access suspended. Both tests pass, PreConnect meets the existing queue pair
   (`assert(!createdQp)`), and without the assertion the catch block tears the connection down.
3. **Close returns early** (`SessionManager_references`). The count and the event are changed in two
   steps; a late `release()` lets a close through while a call has a reference.

What the properties except. A property that would fail in one situation names it, so that it is checked
everywhere else:

- **Forgotten session** (`DeferredIsOwed`). A deferred close that counts the buffer which
  QueueExternalBufferRegion has in `userBuffers` while its access is suspended
  (`common/RdmaConnectedSessionBase.cpp:283-294`), or one that it has left there, waits for a release that
  nobody will make.
- **Release after the last** (`NoNewReferences`). A second release of a region, which has found the handle in
  the deferred table when another thread gives the last region back, makes its reference after the handle
  was erased (`api/rdma_api_common.h:78-85`).
- **Deferred close misses a buffer** (`DeferWhileUserBuffersOutstanding`). User buffers are counted before
  the waits are cancelled (`api/rdma_api_common.h:60`): a thread blocked in AcquireReceivedRegion may get
  one after the test, and the session is destroyed with it in the user's hands.
- **Queue pair full** (`CompletesInOrder`). A refused post leaves its buffer in `queuedBuffers`
  (`common/RdmaBufferQueue.cpp:216`), and a later completion fails the in-order assertion; so does the one
  after a failed completion that a polling client rejects for its opcode
  (`linux/RdmaConnectedSession.cpp:223`). The failed assertion loses that buffer's callback.
- **Silent sleepers** (`SleepsForAReason`). ReleaseBuffer and a SendTooLarge error do not wake a sender that
  waits for an idle buffer.
- **Overtaking** (`SendsInOrder`). Until AddCredit has recorded a SendTooLarge error, outside the lock, a
  later and smaller buffer may take the credit.
- **Unannounced buffers** (`CreditsMatchBuffers`, `DataFindsBuffer`). A spurious wakeup in SendCreditUpdate
  ends the call after its buffer was posted and before it was announced; the sizes of later credits are
  then those of other buffers.
- **Credit buffers** (`CreditFindsBuffer`). A receiver with as many transfer buffers as there are credit
  buffers (100), or more, may have more credit messages under way than the sender has posted buffers.
- **Blind handler** (`DisconnectIsNoticed`). A spurious wakeup ends the connection handler, after which a
  disconnection goes unnoticed.
- **Silent end of AckHandlerThread** (`CallReturns`, `CreditFindsBuffer`). A spurious wakeup, like a message
  that is too large for its credit, ends it on a connection that stays up. The sender's credit buffers are
  then used up, and a call of the receiver waits for one of its own for ever.
- **Second Connect** (`OneWaiter`). A Connect whose last thread does not start leaves a connection handler
  behind, and another Connect on that session may be in a wait of the same id; the waits are aborted by then.
- **Half a configuration** (`OneConsumer`, `ExternalNotAutoQueued`). A configuration whose thread does not
  start fails, but stays; and a ConfigureBuffers that fails leaves `autoQueueRx` set, so that a later
  ConfigureExternalBuffer posts buffers without a region.
- **Configuration without a connection** (`OneConsumer`). ConfigureExternalBuffer, unlike ConfigureBuffers, does
  not ask whether the session is connected (`common/RdmaConnectedSessionBase.cpp:153-169`). Its thread then
  follows null pointers, ends at once, or serves the sends of a session that becomes a receiver.
- **Addresses without a scope id** (`AddressesSurvive`). rdma_cm may report a link-local address of an
  accepted session without one; the string that the library makes of it cannot be connected to.
- **Windows** (`FlagsMatchCalls`, `OverlappedOutlivesRequest`, `QueuesInUse`, `DestroyReturns`). Accept leaves
  `acceptInProgress` set when CreateConnector fails (`windows/RdmaListener.cpp:46`). A request whose wait timed
  out may outlive its OVERLAPPED. The event handler may meet a null `cq` while the session is destroyed or
  after a start that failed half way, and a Notify that it issues between Destroy's cancel and its
  `cq.reset` is cancelled by nobody.

Also seen while modelling, and contradicted by nothing that could be checked: SuspendAccess with a full
nesting mask and an exclusive access fails Add's assertion for a moment's extra access. The expression
for scope ids matches no whole address (`common/RdmaAddress.h:44`); scope ids survive because glibc's
getaddrinfo keeps them, although the comment at line 58 says that it drops them. GetLastErrorString rejects
a buffer into which the text fits exactly. FdPoller throws negated errno values, which are no codes of
`easyrdma.h`. ReleaseReceivedBufferRegion returns InvalidOperation when the buffer was queued again and
only its credit message met the disconnection (`api/rdma_api_c.cpp:301`). A connector whose Connect has failed
once is cancelled for good, since `waitAborted` is never cleared; if it failed at the start of a thread it
still says that it is connected (`linux/RdmaConnectedSession.cpp:107`). A listener that is destroyed drops the
requests in its queue, and nobody rejects them (`linux/RdmaListener.cpp:22`).

## 6. Not modelled, and why

`linux/valgrind.h` (a third-party header, half of the lines of the repository) and the tests. Error texts,
traces and debug dumps. Memory registration, and what verbs and NetworkDirect do inside: they are external.
YieldExclusive and ReleaseAndReacquireAtEnd of the access manager (private, no callers). The data race on
the deferred table, and the unlock of an unlocked mutex after a failed poll: the code's behaviour is then
undefined without outcomes to enumerate (the erasure between a lookup's find and its reference is modelled).
What a session does after a Connect that failed at the start of a thread is in Connection only: ApiCalls has
no such Connect. A failing `pthread_setname_np` after a thread has started. Several connections of one
listener at the level of events; HandleDisconnect's callbacks under `configureLock`, which block only a
callback that configures the session it is called for.

## 7. Plan

Done, in this order: AccessManager and its proof, BufferQueue, SessionManager, CircularFifo and its
proof, Connection; then RequestLists, FlowControl, Addresses and ApiCalls, WindowsSession, and polling and
full queue pairs in BufferQueue; then the proofs of SessionManager, BufferQueue, WindowsSession,
FlowControl and Connection, first come, first served, and the proofs of ApiCalls and RequestLists.
