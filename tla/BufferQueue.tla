---------------------------- MODULE BufferQueue ----------------------------
(***************************************************************************)
(* RdmaBufferQueue (core/common/RdmaBufferQueue.cpp): the buffers of one   *)
(* direction of a connected session, the credits that a sender needs, and  *)
(* the queue pair the buffers are posted to.                               *)
(*                                                                         *)
(* Everything done under queueLock is one action.  What the code does      *)
(* outside that lock is a step of its own: posting to the queue pair       *)
(* (QueueToQp), calling completion callbacks, and recording the error of a *)
(* failed AddCredit.                                                       *)
(*                                                                         *)
(* Four actors run here: the client threads (one call at a time, because a *)
(* call holds the session's exclusive access, plus at most one thread that *)
(* waits for a buffer with its access suspended: bufferWaitInProgress),    *)
(* the ack handler thread that adds credits, the thread that polls the     *)
(* completion queue, and the thread that reports a disconnection.          *)
(*                                                                         *)
(* Left out: the credit message that a receiver sends after queueing a     *)
(* buffer (see FlowControl), and the destructor.                           *)
(***************************************************************************)
EXTENDS Integers, Sequences, FiniteSets, Functions

CONSTANTS
    Buffers,        \* the buffers of the queue
    NoBuffer,       \* the null RdmaBuffer*
    Directions,     \* the directions considered, of "Send" and "Receive"
    Externals,      \* TRUE in it: RdmaBufferQueueSingleBuffer, FALSE: MultipleBuffer
    Pollings,       \* TRUE in it: receivers poll the completion queue themselves
    Sizes,          \* transfer sizes and credit sizes
    Depths,         \* work requests a queue pair holds (max_send_wr, max_recv_wr)
    StaleHandles,   \* bound: TRUE: the last submission may be of a region they do not own
    MaxSubmits,     \* bound: submissions that clients make
    MaxCredits      \* bound: credits that arrive

ASSUME BufferQueueAssumption ==
    /\ NoBuffer \notin Buffers /\ IsFiniteSet(Buffers)
    /\ Directions \subseteq {"Send", "Receive"}
    /\ Externals \subseteq BOOLEAN
    /\ Pollings \subseteq BOOLEAN
    /\ StaleHandles \in BOOLEAN
    /\ Sizes \subseteq Nat \ {0}
    /\ Depths \subseteq Nat \ {0}
    /\ MaxSubmits \in Nat
    /\ MaxCredits \in Nat

VARIABLES
    direction, external, usePolling, maxWr,     \* fixed when the queue is made
    idle, queued, completed,    \* idleBuffers, queuedBuffers, completedBuffers
    waiting,        \* buffersQueuedWaitingForCredits
    user,           \* userBuffers: the buffers whose userBufferListNode is linked
    used,           \* used[b]: usedBytes, kept for sends: nothing reads those of a receive
    callback,       \* callback[b]: the submission whose callback is set, 0 if none
    credits,        \* availableCredits
    status,         \* queueStatus: "ok" or the first error assigned to it
    aborted,
    connected,      \* the session's connected flag
    toQueue,        \* buffers that PostConfigure has still to queue for receiving
    waiter,         \* what a blocked call waits for: "none", "idle", "completed"; or it
                    \* is "polling"
    asleep,         \* the waiting thread is blocked on its condition variable
    released,       \* history: ReleaseBuffer has run since the thread fell asleep
    posting,        \* posting[w]: put in queuedBuffers by w, not yet in the queue pair
    ackHandler,     \* "running", an error it is about to record, or "gone"
    poller,         \* the completion thread, or the client that polls: "poll", "call" or
                    \* "gone"
    pollerCall,     \* the callback the completion thread is about to call, or 0
    abortCalls,     \* the callbacks Abort is about to call
    qp,             \* the work requests in the queue pair, oldest first
    qpFailed,       \* a work request has failed: the rest are flushed
    orphaned,       \* history: a queued buffer is without a work request: the full queue
                    \* pair refused it, or a client that polls could not handle it
    submits,        \* history: number of submissions so far
    accepted,       \* history: the submissions that QueueBuffer accepted
    called,         \* history: called[s]: how often the callback of s was called
    arrived,        \* history: number of credits received
    strayed,        \* history: a client has submitted a region that it does not own
    sendLog         \* history: the submissions put in queuedBuffers for sending, in order

kind    == <<direction, external, usePolling, maxWr>>
fifos   == <<idle, queued, completed, waiting, user>>
data    == <<used, callback>>
wait    == <<waiter, asleep, released>>
calls   == <<pollerCall, abortCalls, called>>
device  == <<qp, qpFailed, orphaned>>
history == <<submits, strayed, accepted, arrived, sendLog>>
vars    == <<kind, fifos, data, credits, status, aborted, connected, toQueue, wait,
             posting, ackHandler, poller, calls, device, history>>

Posters == {"client", "ack"}
Errors  == {"Disconnected", "OperationCancelled", "SendTooLarge", "PostFailed",
            "TransferFailed"}
Submissions == 1 .. MaxSubmits

\* putBackToIdleOnCompletion
PutBackToIdle == direction = "Send" \/ external

\* The buffers are queued by PostConfigure (autoQueueRx, Direction::Receive)
AutoQueueRx == direction = "Receive" /\ ~external

\* RdmaError::Assign: the first error sticks
Assign(error) == IF status = "ok" THEN error ELSE status

\* Mutant: the waiting thread is not notified
NotifyLost(cond) == UNCHANGED asleep

\* notify_all on the condition variable of cond
Notify(cond) == asleep' = (asleep /\ waiter # cond)

\* The callbacks of a list of buffers, in order, 0 for a buffer that has none
CallbacksOf(list) == [i \in DOMAIN list |-> callback[list[i]]]

\* Mutant: the callback is called but stays with the buffer
KeepCallbacks(bs) == callback

\* GetAndClearClearCallbackData of the buffers bs: they have no callback any more
ClearCallbacks(bs) == [b \in Buffers |-> IF b \in bs THEN 0 ELSE callback[b]]

\* Mutant: a credit is used but stays available
KeepCredit(list) == list

\* availableCredits.pop()
PopCredit(list) == Tail(list)

\* Mutant: the owner is not looked at
MayQueueUnowned(b) == status = "ok"

\* QueueBuffer's first two tests: the queue has not failed and the user owns b
MayQueue(b) == status = "ok" /\ b \in user

\* Mutant: the buffers in the queue pair are forgotten
AbortWaitingOnly == waiting

\* The buffers that Abort takes back, in the order in which it does
AbortList == queued \o waiting

-----------------------------------------------------------------------------
Init ==
    /\ direction \in Directions /\ external \in Externals /\ maxWr \in Depths
    /\ usePolling \in Pollings /\ (usePolling => AutoQueueRx)
    /\ idle = CHOOSE order \in Bijection(1 .. Cardinality(Buffers), Buffers) : TRUE
    /\ queued = <<>> /\ completed = <<>> /\ waiting = <<>>
    /\ user = {}
    /\ used = [b \in Buffers |-> 0]
    /\ callback = [b \in Buffers |-> 0]
    /\ credits = <<>>
    /\ status = "ok"
    /\ aborted = FALSE
    /\ connected = TRUE
    /\ toQueue = IF AutoQueueRx THEN Cardinality(Buffers) ELSE 0
    /\ waiter = "none" /\ asleep = FALSE /\ released = FALSE
    /\ posting = [w \in Posters |-> NoBuffer]
    /\ ackHandler = "running"
    /\ poller = "poll"
    /\ pollerCall = 0 /\ abortCalls = <<>>
    /\ called = [s \in Submissions |-> 0]
    /\ qp = <<>> /\ qpFailed = FALSE /\ orphaned = FALSE
    /\ submits = 0
    /\ strayed = FALSE
    /\ accepted = {}
    /\ arrived = 0 /\ sendLog = <<>>

-----------------------------------------------------------------------------
(* Waiting for a buffer                                                    *)

\* The end of WaitForIdleBuffer: the oldest idle buffer goes to the user
TakeIdle ==
    /\ status = "ok"
    /\ idle # <<>>
    /\ idle' = Tail(idle)
    /\ user' = user \cup {Head(idle)}
    /\ UNCHANGED <<queued, completed, waiting>>

\* The end of WaitForCompletedBuffer: it succeeds even when the queue has failed
TakeCompleted ==
    /\ completed # <<>>
    /\ completed' = Tail(completed)
    /\ user' = user \cup {Head(completed)}
    /\ UNCHANGED <<idle, queued, waiting>>

\* No client call is between QueueBuffer and QueueToQp, or configuring
ClientFree == posting["client"] = NoBuffer /\ toQueue = 0

\* WaitForIdleBuffer, from AcquireSendRegion and QueueExternalBufferRegion:
\* returns at once, or blocks if nothing is idle.  QueueExternalBufferRegion holds
\* bufferWaitInProgress until it has queued the buffer; the buffer stays with the
\* user for good if the session turns out to be disconnected.
WaitForIdleBuffer ==
    /\ ClientFree
    /\ waiter = "none"
    /\ ~AutoQueueRx
    /\ external /\ connected => user = {}
    /\ \/ TakeIdle /\ UNCHANGED wait
       \/ /\ status = "ok" /\ idle = <<>>
          /\ waiter' = "idle" /\ asleep' = TRUE /\ released' = FALSE
          /\ UNCHANGED fifos
    /\ UNCHANGED <<kind, data, credits, status, aborted, connected, toQueue, posting,
                   ackHandler, poller, calls, device, history>>

\* WaitForCompletedBuffer: returns at once, or blocks, or polls outside queueLock, if
\* something is queued
WaitForCompletedBuffer ==
    /\ ClientFree
    /\ waiter = "none"
    /\ ~PutBackToIdle
    /\ \/ TakeCompleted /\ UNCHANGED wait
       \/ /\ status = "ok" /\ completed = <<>>
          /\ queued # <<>> \/ waiting # <<>>
          /\ waiter' = IF usePolling THEN "polling" ELSE "completed"
          /\ asleep' = ~usePolling /\ released' = FALSE
          /\ UNCHANGED fifos
    /\ UNCHANGED <<kind, data, credits, status, aborted, connected, toQueue, posting,
                   ackHandler, poller, calls, device, history>>

\* The waiting thread runs again after a notification, or has polled.  It does not wait a
\* second time: without a buffer it returns queueStatus or Timeout.
WakeUp ==
    /\ waiter \in {"idle", "completed"} /\ ~asleep
    /\ waiter' = "none"
    /\ \/ waiter = "idle" /\ TakeIdle
       \/ waiter = "completed" /\ TakeCompleted
       \/ /\ waiter = "idle" /\ (status # "ok" \/ idle = <<>>)
          /\ UNCHANGED fifos
       \/ /\ waiter = "completed" /\ completed = <<>>
          /\ UNCHANGED fifos
    /\ released' = FALSE
    /\ UNCHANGED <<kind, asleep, data, credits, status, aborted, connected, toQueue,
                   posting, ackHandler, poller, calls, device, history>>

\* wait_for times out: the call returns Timeout without looking at the queues
TimeOut ==
    /\ asleep
    /\ waiter' = "none" /\ asleep' = FALSE /\ released' = FALSE
    /\ UNCHANGED <<kind, fifos, data, credits, status, aborted, connected, toQueue,
                   posting, ackHandler, poller, calls, device, history>>

\* A condition variable may wake up without a notification; there is no loop
\* around the waits that would go back to sleep.
SpuriousWakeUp ==
    /\ asleep
    /\ asleep' = FALSE
    /\ UNCHANGED <<kind, fifos, data, credits, status, aborted, connected, toQueue, waiter,
                   released, posting, ackHandler, poller, calls, device, history>>

-----------------------------------------------------------------------------
(* Queueing a buffer                                                       *)

\* RdmaBufferQueue::QueueBuffer up to the end of the locked part, for a buffer
\* whose bytes and callback are by now bytes and s.  A rejected buffer stays where
\* it is.
QueueBuffer(b, bytes, s) ==
    \/ /\ ~MayQueue(b)
       /\ UNCHANGED <<fifos, credits, status, posting, accepted, sendLog>>
    \/ /\ MayQueue(b)
       /\ direction = "Receive"
       /\ queued' = Append(queued, b)
       /\ user' = user \ {b}
       /\ posting' = [posting EXCEPT !["client"] = b]
       /\ accepted' = accepted \cup ({s} \ {0})
       /\ UNCHANGED <<idle, completed, waiting, credits, status, sendLog>>
    \/ /\ MayQueue(b)
       /\ direction = "Send"
       /\ credits = <<>>
       /\ waiting' = Append(waiting, b)
       /\ user' = user \ {b}
       /\ accepted' = accepted \cup {s}
       /\ UNCHANGED <<idle, queued, completed, credits, status, posting, sendLog>>
    \/ /\ MayQueue(b)
       /\ direction = "Send"
       /\ credits # <<>> /\ bytes <= Head(credits)
       /\ queued' = Append(queued, b)
       /\ user' = user \ {b}
       /\ credits' = PopCredit(credits)
       /\ posting' = [posting EXCEPT !["client"] = b]
       /\ accepted' = accepted \cup {s}
       /\ sendLog' = Append(sendLog, s)
       /\ UNCHANGED <<idle, completed, waiting, status>>
    \/ /\ MayQueue(b)
       /\ direction = "Send"
       /\ credits # <<>> /\ bytes > Head(credits)
       /\ status' = "SendTooLarge"
       /\ UNCHANGED <<fifos, credits, posting, accepted, sendLog>>

\* RdmaConnectedSessionBase::QueueBuffer
QueueIfConnected(b, bytes, s) ==
    \/ connected /\ QueueBuffer(b, bytes, s)
    \/ /\ ~connected
       /\ UNCHANGED <<fifos, credits, status, posting, accepted, sendLog>>

\* The loop of PostConfigure, which runs before any other call: an idle buffer is
\* taken ...
PostConfigureTake ==
    /\ toQueue > 0 /\ posting["client"] = NoBuffer /\ user = {}
    /\ \/ TakeIdle /\ UNCHANGED toQueue
       \/ status # "ok" /\ toQueue' = 0 /\ UNCHANGED fifos
    /\ UNCHANGED <<kind, data, credits, status, aborted, connected, wait, posting,
                   ackHandler, poller, calls, device, history>>

\* ... and queued.  An exception ends the loop.
PostConfigureQueue(b) ==
    /\ toQueue > 0 /\ posting["client"] = NoBuffer /\ b \in user
    /\ QueueBuffer(b, used[b], callback[b])
    /\ toQueue' = IF status = "ok" THEN toQueue - 1 ELSE 0
    /\ UNCHANGED <<kind, data, aborted, connected, wait, ackHandler, poller, calls,
                   device, submits, strayed, arrived>>

\* SetUsed and SetCompletionCallback: nothing of the queue is checked yet
SetUsed(b, bytes) ==
    used' = [used EXCEPT ![b] = IF direction = "Send" THEN bytes ELSE @]

SetCompletionCallback(b, s) == callback' = [callback EXCEPT ![b] = s]

\* easyrdma_QueueBufferRegion and the end of easyrdma_QueueExternalBufferRegion:
\* bytes and callback are written before anything is checked.
QueueBufferRegion(b, bytes) ==
    /\ ClientFree
    /\ submits < MaxSubmits /\ ~strayed
    /\ b \in user \/ (StaleHandles /\ ~external)
    /\ strayed' = (b \notin user)
    /\ submits' = submits + 1
    /\ SetUsed(b, bytes)
    /\ SetCompletionCallback(b, submits')
    /\ QueueIfConnected(b, bytes, submits')
    /\ UNCHANGED <<kind, aborted, connected, toQueue, wait, ackHandler, poller, calls,
                   device, arrived>>

\* ReleaseBuffer: a user buffer goes back to idle, and nobody is notified.  Clients
\* have no handle to a buffer of an external queue.
ReleaseBuffer(b) ==
    /\ ClientFree
    /\ ~external
    /\ b \in user
    /\ user' = user \ {b}
    /\ idle' = Append(idle, b)
    /\ released' = asleep
    /\ UNCHANGED <<kind, queued, completed, waiting, data, credits, status, aborted,
                   connected, toQueue, waiter, asleep, posting, ackHandler, poller, calls,
                   device, history>>

\* easyrdma_ReleaseReceivedBufferRegion: Requeue without a new callback; when the
\* error is Disconnected the buffer is released to idle instead.
ReleaseReceivedBufferRegion(b) ==
    /\ ClientFree
    /\ AutoQueueRx
    /\ b \in user
    /\ \/ /\ connected /\ status # "Disconnected"
          /\ QueueBuffer(b, used[b], callback[b])
       \/ /\ ~connected \/ status = "Disconnected"
          /\ user' = user \ {b}
          /\ idle' = Append(idle, b)
          /\ UNCHANGED <<queued, completed, waiting, credits, status, posting,
                         accepted, sendLog>>
    /\ UNCHANGED <<kind, data, aborted, connected, toQueue, wait, ackHandler, poller, calls,
                   device, submits, strayed, arrived>>

\* QueueToQp, after queueLock is released: the queue pair takes the work request
\* or, being full, refuses it.  A client only sees the exception; the ack handler
\* records it in queueStatus.
QueueToQp(w) ==
    /\ posting[w] # NoBuffer
    /\ posting' = [posting EXCEPT ![w] = NoBuffer]
    /\ \/ /\ Len(qp) < maxWr
          /\ qp' = Append(qp, posting[w])
          /\ UNCHANGED <<ackHandler, toQueue, orphaned>>
       \/ /\ Len(qp) >= maxWr
          /\ ackHandler' = IF w = "ack" THEN "PostFailed" ELSE ackHandler
          /\ toQueue' = IF w = "client" THEN 0 ELSE toQueue
          /\ orphaned' = TRUE
          /\ UNCHANGED qp
    /\ UNCHANGED <<kind, fifos, data, credits, status, aborted, connected, wait, poller,
                   calls, qpFailed, history>>

-----------------------------------------------------------------------------
(* Credits                                                                 *)

\* AddCredit, called by the ack handler for every credit the receiver sends
AddCredit(bytes) ==
    /\ direction = "Send"
    /\ ackHandler = "running"
    /\ posting["ack"] = NoBuffer
    /\ arrived < MaxCredits
    /\ arrived' = arrived + 1
    /\ LET all  == Append(credits, bytes)
           next == Head(waiting)
       IN  \/ /\ waiting = <<>>
              /\ credits' = all
              /\ UNCHANGED <<queued, waiting, posting, ackHandler, sendLog>>
           \/ /\ waiting # <<>>
              /\ used[next] <= Head(all)
              /\ waiting' = Tail(waiting)
              /\ queued' = Append(queued, next)
              /\ credits' = PopCredit(all)
              /\ posting' = [posting EXCEPT !["ack"] = next]
              /\ sendLog' = Append(sendLog, callback[next])
              /\ UNCHANGED ackHandler
           \/ /\ waiting # <<>>
              /\ used[next] > Head(all)
              /\ credits' = all
              /\ ackHandler' = "SendTooLarge"
              /\ UNCHANGED <<queued, waiting, posting, sendLog>>
    /\ UNCHANGED <<kind, idle, completed, user, data, status, aborted, connected, toQueue,
                   wait, poller, calls, device, submits, strayed, accepted>>

\* The catch clause of AddCredit, outside queueLock; the rethrown exception ends
\* AckHandlerThread.
RecordCreditError ==
    /\ ackHandler \in Errors
    /\ status' = Assign(ackHandler)
    /\ ackHandler' = "gone"
    /\ UNCHANGED <<kind, fifos, data, credits, aborted, connected, toQueue, wait, posting,
                   poller, calls, device, history>>

-----------------------------------------------------------------------------
(* Completion                                                              *)

\* A completion is taken by the completion thread or, when there is none, by a client
\* in PollForReceive.
MayPoll == poller = "poll" /\ (usePolling => waiter = "polling")

\* An exception ends the completion thread, or the client's call.
PollerThrows ==
    /\ poller' = IF usePolling THEN poller ELSE "gone"
    /\ waiter' = IF usePolling THEN "none" ELSE waiter

\* RdmaBuffer::HandleCompletion: nothing was transferred if the work request failed
BytesTransferred(b, failed) == IF failed THEN 0 ELSE used[b]

\* The oldest work request is taken off the completion queue and handled.  After an
\* abort the buffer is left alone.  If it is not the oldest queued one, ASSERT_ALWAYS
\* throws (in a debug build it stops the process), after the callback was cleared.
HandleCompletion(failed) ==
    /\ MayPoll
    /\ qp # <<>>
    /\ qpFailed => failed
    /\ qpFailed' = failed
    /\ qp' = Tail(qp)
    /\ LET b == Head(qp)
       IN  /\ used' = [used EXCEPT ![b] = BytesTransferred(b, failed)]
           /\ \/ /\ aborted
                 /\ pollerCall' = 0 /\ poller' = "call"
                 /\ UNCHANGED <<fifos, callback, status, waiter, asleep>>
              \/ /\ ~aborted
                 /\ queued # <<>> /\ b = Head(queued)
                 /\ pollerCall' = callback[b] /\ poller' = "call"
                 /\ callback' = ClearCallbacks({b})
                 /\ queued' = Tail(queued)
                 /\ status' = IF failed THEN Assign("TransferFailed") ELSE status
                 /\ \/ /\ PutBackToIdle
                       /\ idle' = Append(idle, b)
                       /\ Notify("idle")
                       /\ UNCHANGED completed
                    \/ /\ ~PutBackToIdle
                       /\ completed' = Append(completed, b)
                       /\ Notify("completed")
                       /\ UNCHANGED idle
                 /\ UNCHANGED <<waiting, user, waiter>>
              \/ /\ ~aborted
                 /\ queued # <<>> /\ b # Head(queued)
                 /\ callback' = ClearCallbacks({b})
                 /\ PollerThrows
                 /\ UNCHANGED <<fifos, pollerCall, status, asleep>>
    /\ UNCHANGED <<kind, credits, aborted, connected, toQueue, released, posting, ackHandler,
                   abortCalls, called, orphaned, history>>

\* The verbs library sets the opcode of a work completion only if it succeeded.
\* When that of a failed one is neither SEND nor RECV, it is not handled.
UnknownOpcode ==
    /\ MayPoll
    /\ qp # <<>>
    /\ qp' = Tail(qp)
    /\ qpFailed' = TRUE
    /\ orphaned' = (orphaned \/ usePolling)
    /\ PollerThrows
    /\ UNCHANGED <<kind, fifos, data, credits, status, aborted, connected, toQueue, asleep,
                   released, posting, ackHandler, calls, history>>

\* PollForReceive found nothing: the queue has failed (CheckQueueStatus), or it is too
\* late.  (The guard then unlocks queueLock, which is not locked.)
PollFails ==
    /\ waiter = "polling" /\ poller = "poll"
    /\ waiter' = "none"
    /\ UNCHANGED <<kind, fifos, data, credits, status, aborted, connected, toQueue, asleep,
                   released, posting, ackHandler, poller, calls, device, history>>

\* The callback of that completion, outside queueLock; then the thread goes on
\* while the session is connected (SendReceiveHandlerThread), or the client looks at
\* the queue again.
CallCompletionCallback ==
    /\ poller = "call"
    /\ called' = IF pollerCall = 0 THEN called
                                   ELSE [called EXCEPT ![pollerCall] = @ + 1]
    /\ pollerCall' = 0
    /\ poller' = IF usePolling \/ connected THEN "poll" ELSE "gone"
    /\ waiter' = IF usePolling THEN "completed" ELSE waiter
    /\ UNCHANGED <<kind, fifos, data, credits, status, aborted, connected, toQueue, asleep,
                   released, posting, ackHandler, abortCalls, device, history>>

-----------------------------------------------------------------------------
(* Abort                                                                   *)

\* Abort: the first one empties queuedBuffers and the waiting buffers into idle
\* and takes their callbacks.
Abort(error) ==
    /\ ~aborted
    /\ aborted' = TRUE
    /\ status' = Assign(error)
    /\ abortCalls' = CallbacksOf(AbortList)
    /\ callback' = ClearCallbacks(Range(AbortList))
    /\ idle' = idle \o AbortList
    /\ queued' = <<>> /\ waiting' = <<>>
    /\ asleep' = FALSE
    /\ UNCHANGED <<kind, completed, user, used, credits, connected, toQueue, waiter, released,
                   posting, ackHandler, poller, pollerCall, called, device, history>>

\* HandleDisconnect clears connected ...
Disconnect ==
    /\ connected
    /\ connected' = FALSE
    /\ UNCHANGED <<kind, fifos, data, credits, status, aborted, toQueue, wait, posting,
                   ackHandler, poller, calls, device, history>>

\* ... then takes configureLock, under which AddCredit runs to its end, and aborts
AbortOnDisconnect ==
    /\ ~connected
    /\ posting["ack"] = NoBuffer /\ ackHandler \notin Errors
    /\ Abort("Disconnected")

\* RdmaConnectedSessionBase::Cancel, from AbortSession and CloseSession
Cancel == Abort("OperationCancelled")

\* The callbacks of an abort, outside queueLock; only those that are set
CallAbortCallback ==
    /\ abortCalls # <<>>
    /\ called' = IF Head(abortCalls) = 0 THEN called
                 ELSE [called EXCEPT ![Head(abortCalls)] = @ + 1]
    /\ abortCalls' = Tail(abortCalls)
    /\ UNCHANGED <<kind, fifos, data, credits, status, aborted, connected, toQueue, wait,
                   posting, ackHandler, poller, pollerCall, device, history>>

-----------------------------------------------------------------------------
Next ==
    \/ WaitForIdleBuffer \/ WaitForCompletedBuffer \/ WakeUp \/ TimeOut
    \/ SpuriousWakeUp
    \/ \E b \in Buffers, bytes \in Sizes : QueueBufferRegion(b, bytes)
    \/ \E b \in Buffers : ReleaseBuffer(b) \/ ReleaseReceivedBufferRegion(b)
    \/ PostConfigureTake
    \/ \E b \in Buffers : PostConfigureQueue(b)
    \/ \E w \in Posters : QueueToQp(w)
    \/ \E bytes \in Sizes : AddCredit(bytes)
    \/ RecordCreditError
    \/ \E failed \in BOOLEAN : HandleCompletion(failed)
    \/ UnknownOpcode \/ PollFails
    \/ CallCompletionCallback
    \/ Disconnect \/ AbortOnDisconnect \/ Cancel
    \/ CallAbortCallback

Spec == Init /\ [][Next]_vars

\* The threads that owe a callback run it
Fairness == WF_vars(CallCompletionCallback) /\ WF_vars(CallAbortCallback)

FairSpec == Spec /\ Fairness

-----------------------------------------------------------------------------
(* Properties                                                              *)

\* What each owner holds
Holdings == [idle |-> Range(idle), queued |-> Range(queued),
             completed |-> Range(completed), waiting |-> Range(waiting),
             user |-> user]

\* Every buffer has exactly one owner and is on its list once: no path of
\* completion, abort, release, credit or failed submission loses or duplicates a
\* buffer.  So no list outgrows its tCircularFifo (which asserts on overflow).  After
\* an abort nothing is queued, not even by a submission or a credit that was under way
\* (the assertions of ~RdmaBufferQueue).
OneOwner ==
    /\ \A b \in Buffers :
          \E p \in DOMAIN Holdings :
              /\ b \in Holdings[p]
              /\ \A q \in DOMAIN Holdings \ {p} : b \notin Holdings[q]
    /\ \A list \in {idle, queued, completed, waiting} : IsInjective(list)
    /\ aborted => queued = <<>> /\ waiting = <<>> /\ status # "ok"

\* "Buffers should be completed in-order" (the ASSERT_ALWAYS of
\* HandleCompletion): although buffers are put in queuedBuffers under the lock and
\* posted outside it by two threads, the oldest work request that the completion
\* thread can find is always that of the oldest queued buffer.  There are two
\* exceptions, after which a later completion fails the assertion: a full queue pair,
\* for which QueueToQp throws while the buffer stays in queuedBuffers
\* (RdmaBufferQueue.cpp:216), and a failed completion that PollForReceive rejects for
\* its opcode (linux/RdmaConnectedSession.cpp:223).
CompletesInOrder ==
    ~aborted /\ ~orphaned /\ poller # "gone" /\ qp # <<>> =>
        queued # <<>> /\ Head(qp) = Head(queued)

\* Where the callback of submission s still is
CallbackHolders(s) ==
    {<<"buffer", b>> : b \in {c \in Range(queued) \cup Range(waiting) : callback[c] = s}}
    \cup {<<"abort", i>> : i \in {j \in DOMAIN abortCalls : abortCalls[j] = s}}
    \cup {<<"poller", x>> : x \in {pollerCall} \cap {s}}

\* Exactly one callback for every submission that was accepted, whichever of
\* completion, failure, disconnection and cancellation gets there first, and none
\* for one that was rejected.  (For clients that submit only what they own, and without
\* the exceptions of CompletesInOrder: a failed assertion loses the callback.)
CallbackExactlyOnce ==
    ~strayed /\ ~orphaned =>
        \A s \in 1 .. submits :
            called[s] + Cardinality(CallbackHolders(s)) =
                IF s \in accepted THEN 1 ELSE 0

\* Buffers are sent in the order in which they were submitted, also when some had
\* to wait for credits and others did not; and none is sent before one that waits,
\* as long as the ack handler runs.  The one way to overtake is a credit too small for
\* the oldest waiting buffer: until AddCredit has recorded the error, outside the lock,
\* a later and smaller buffer may take that credit.  (For clients that submit only what
\* they own.)  RdmaBufferQueue.cpp:188-246.
SendsInOrder ==
    ~strayed =>
        /\ \A m, n \in DOMAIN sendLog : m < n => sendLog[m] < sendLog[n]
        /\ ackHandler = "running" =>
              \A m \in DOMAIN sendLog, b \in Range(waiting) : sendLog[m] < callback[b]

\* A thread that sleeps sleeps for a reason: the queue has not failed and, in
\* WaitForCompletedBuffer, nothing is completed but something is queued; in
\* WaitForIdleBuffer, nothing is idle.  Two changes do not notify a sender and are the
\* only exceptions: ReleaseBuffer, and an error that a submission or AddCredit records.
\* RdmaBufferQueue.cpp:75-139, 248-256.
SleepsForAReason ==
    asleep =>
        /\ status = "ok" \/ (direction = "Send" /\ status \in {"SendTooLarge", "PostFailed"})
        /\ waiter = "completed" => completed = <<>> /\ queued # <<>>
        /\ waiter = "idle" => idle = <<>> \/ released

\* An abort answers everybody: every submission accepted gets its callback, also when
\* the completion thread had ended before.  (With the exceptions of
\* CallbackExactlyOnce.)  RdmaBufferQueue::Abort, RdmaBufferQueue.cpp:37-73.
AbortAnswersAll ==
    aborted ~> (strayed \/ orphaned \/ \A s \in accepted : called[s] = 1)

=============================================================================
