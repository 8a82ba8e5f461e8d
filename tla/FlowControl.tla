---------------------------- MODULE FlowControl ----------------------------
(***************************************************************************)
(* The credit protocol between the two ends of a connection                *)
(* (core/common/RdmaConnectedSessionBase.cpp): a receiver announces every  *)
(* buffer it has posted in a credit message, and the sender posts a        *)
(* message only against a credit.                                          *)
(*                                                                         *)
(* The sender has its transfer queue, the credit buffers that it keeps     *)
(* posted for the receiver's messages, and AckHandlerThread, which turns   *)
(* the credits of a message into calls of AddCredit.  The receiver has its *)
(* transfer queue and as many credit buffers, which it sends.  One section *)
(* under queueLock or configureLock is one step, and so is one work        *)
(* request that the queue pair takes, carries or completes.                *)
(*                                                                         *)
(* An operation of a buffer queue is atomic here: BufferQueue takes it     *)
(* apart, and shows that what is put in queuedBuffers is posted in that    *)
(* order.  Failed work requests are there, too; here the connection fails  *)
(* as a whole, and then each end handles its disconnection.                *)
(***************************************************************************)
EXTENDS Integers, Sequences, SequencesExt

CONSTANTS
    Sizes,                  \* lengths of receive buffers and of messages
    Externals,              \* TRUE in it: ConfigureExternalBuffer at the receiver
    BufferCounts,           \* values of the receiver's maxConcurrentTransactions
    CreditBuffers,          \* credit buffers of each end (100 in the code)
    MaxCreditsPerBuffer,    \* credits in one message (kMaxCreditsPerBuffer)
    MaxSends,               \* bound: messages that the sender submits
    MaxPosts                \* bound: buffers that the receiver posts

ASSUME FlowControlAssumption ==
    /\ Sizes \subseteq Nat \ {0}
    /\ Externals \subseteq BOOLEAN
    /\ BufferCounts \subseteq Nat
    /\ {CreditBuffers, MaxCreditsPerBuffer} \subseteq Nat \ {0}
    /\ {MaxSends, MaxPosts} \subseteq Nat

Ends == {"sender", "receiver"}

VARIABLES
    link,           \* external: the connection is up
    connected,      \* connected[e]
    configured,     \* configured[e]: transferBuffers exists
    transferStatus, \* transferStatus[e]: queueStatus of transferBuffers
    creditStatus,   \* creditStatus[e]: queueStatus of creditBuffers
    disconnecting,  \* disconnecting[e]: how far HandleDisconnect is
    \* the sender
    preConfigureCredits, availableCredits, waiting,
    creditsPosted,  \* credit buffers posted to receive a message
    creditsDone,    \* completedBuffers of creditBuffers: the messages in them
    ackHandler,     \* where AckHandlerThread is, and the credits it has yet to add
    \* the receiver
    external, bufferLen, maxConcurrentTransactions,
    idle,           \* idle transfer buffers
    held,           \* received buffers that have not been given back
    posted,         \* external: lengths of the receive buffers in the queue pair
    creditsIdle,    \* idle credit buffers
    creditsSent,    \* credit messages sent whose completion is not handled yet
    caller,         \* where the receiver's call of configure or release is
    owed,           \* lengths of the buffers that this call has yet to announce
    \* external: messages on the way
    dataNet, creditNet,
    \* history
    submitted, posts,
    unannounced     \* a call ended by Timeout before it announced its buffers

senderVars   == <<preConfigureCredits, availableCredits, waiting, creditsPosted,
                  creditsDone, ackHandler>>
receiverVars == <<idle, held, posted, creditsIdle, creditsSent, caller, owed>>
kind         == <<external, bufferLen, maxConcurrentTransactions>>
status       == <<connected, transferStatus, creditStatus, disconnecting>>
history      == <<submitted, posts, unannounced>>
vars         == <<link, status, configured, kind, senderVars, receiverVars, dataNet,
                  creditNet, history>>

Errors == {"Disconnected", "SendTooLarge"}

Callers == {"none", "configure", "update", "asleep", "awake", "send"}

\* PreConnect: the sender has posted all its credit buffers and started
\* AckHandlerThread; PostConnect: both ends are connected.
Init ==
    /\ link = TRUE
    /\ connected = [e \in Ends |-> TRUE]
    /\ configured = [e \in Ends |-> FALSE]
    /\ transferStatus = [e \in Ends |-> "ok"]
    /\ creditStatus = [e \in Ends |-> "ok"]
    /\ disconnecting = [e \in Ends |-> "no"]
    /\ preConfigureCredits = <<>> /\ availableCredits = <<>> /\ waiting = <<>>
    /\ creditsPosted = CreditBuffers
    /\ creditsDone = <<>>
    /\ ackHandler = [at |-> "wait", left |-> <<>>]
    /\ external \in Externals
    /\ bufferLen \in (IF external THEN {0} ELSE Sizes)
    /\ maxConcurrentTransactions \in BufferCounts
    /\ idle = maxConcurrentTransactions /\ held = 0 /\ posted = <<>>
    /\ creditsIdle = CreditBuffers /\ creditsSent = 0
    /\ caller = [at |-> "none", call |-> "none"]
    /\ owed = <<>>
    /\ dataNet = <<>> /\ creditNet = <<>>
    /\ submitted = 0 /\ posts = 0 /\ unannounced = FALSE

-----------------------------------------------------------------------------
(* The sender                                                              *)

\* Mutant: credits that came before the configuration are forgotten
ConfigureWithoutCredits ==
    /\ ~configured["sender"] /\ connected["sender"]
    /\ configured' = [configured EXCEPT !["sender"] = TRUE]
    /\ preConfigureCredits' = <<>>
    /\ UNCHANGED <<link, status, kind, availableCredits, waiting, creditsPosted, creditsDone,
                   ackHandler, receiverVars, dataNet, creditNet, history>>

\* ConfigureBuffers at the sender, with ProcessPreConfigureCredits under the same
\* configureLock.  (ConfigureExternalBuffer does not test connected; a sender that is
\* not connected queues nothing.)
ConfigureSender ==
    /\ ~configured["sender"] /\ connected["sender"]
    /\ configured' = [configured EXCEPT !["sender"] = TRUE]
    /\ availableCredits' = preConfigureCredits
    /\ preConfigureCredits' = <<>>
    /\ UNCHANGED <<link, status, kind, waiting, creditsPosted, creditsDone, ackHandler,
                   receiverVars, dataNet, creditNet, history>>

\* Mutant: a message is posted although it does not fit the credit
FitsAlways(bytes, credit) == TRUE

\* The test of QueueBuffer and AddCredit
Fits(bytes, credit) == bytes <= credit

\* QueueBufferRegion or QueueExternalBufferRegion at the sender, as far as it gets:
\* the message waits for a credit, uses the oldest one, or is too large for it.
SubmitSend(bytes) ==
    /\ configured["sender"] /\ connected["sender"] /\ transferStatus["sender"] = "ok"
    /\ submitted < MaxSends
    /\ submitted' = submitted + 1
    /\ \/ /\ availableCredits = <<>>
          /\ waiting' = Append(waiting, bytes)
          /\ UNCHANGED <<availableCredits, dataNet, transferStatus>>
       \/ /\ availableCredits # <<>> /\ Fits(bytes, Head(availableCredits))
          /\ availableCredits' = Tail(availableCredits)
          /\ dataNet' = Append(dataNet, bytes)
          /\ UNCHANGED <<waiting, transferStatus>>
       \/ /\ availableCredits # <<>> /\ ~Fits(bytes, Head(availableCredits))
          /\ transferStatus' = [transferStatus EXCEPT !["sender"] = "SendTooLarge"]
          /\ UNCHANGED <<availableCredits, waiting, dataNet>>
    /\ UNCHANGED <<link, connected, creditStatus, disconnecting, configured,
                   kind, preConfigureCredits, creditsPosted, creditsDone, ackHandler,
                   receiverVars, creditNet, posts, unannounced>>

\* AckHandlerThread in WaitForCompletedBuffer(-1): the oldest credit message, or the
\* end of the thread when the queue has failed and has none left
AckTake ==
    /\ ackHandler.at = "wait"
    /\ \/ /\ creditsDone # <<>>
          /\ ackHandler' = [at |-> "add", left |-> Head(creditsDone)]
          /\ creditsDone' = Tail(creditsDone)
       \/ /\ creditsDone = <<>> /\ creditStatus["sender"] # "ok"
          /\ ackHandler' = [at |-> "gone", left |-> <<>>]
          /\ UNCHANGED creditsDone
    /\ UNCHANGED <<link, status, configured, kind, preConfigureCredits, availableCredits,
                   waiting, creditsPosted, receiverVars, dataNet, creditNet, history>>

\* The wait has no predicate loop: a thread that wakes up for nothing throws Timeout,
\* and AckHandlerThread ends silently, with nothing of its own, on a connection that
\* is in order.  (The wait throws NoBuffersQueued only if no credit buffer is posted;
\* then one of them is completed, because the thread itself has none.)
AckWakesForNothing ==
    /\ ackHandler.at = "wait" /\ creditsDone = <<>> /\ creditStatus["sender"] = "ok"
    /\ ackHandler' = [at |-> "timedOut", left |-> <<>>]
    /\ UNCHANGED <<link, status, configured, kind, preConfigureCredits, availableCredits,
                   waiting, creditsPosted, creditsDone, receiverVars, dataNet, creditNet,
                   history>>

\* RdmaConnectedSessionBase::AddCredit, under configureLock, for the next credit of
\* the message: kept until the queue is configured, else given to it.  (The buffers
\* of a queue that was aborted do not wait any more.)
AddCredit ==
    /\ ackHandler.at = "add" /\ ackHandler.left # <<>>
    /\ disconnecting["sender"] # "transfer"      \* configureLock
    /\ LET credit == Head(ackHandler.left)
           all    == Append(availableCredits, credit)
           next   == [at |-> "add", left |-> Tail(ackHandler.left)]
       IN  \/ /\ ~configured["sender"]
              /\ preConfigureCredits' = Append(preConfigureCredits, credit)
              /\ ackHandler' = next
              /\ UNCHANGED <<availableCredits, waiting, dataNet>>
           \/ /\ configured["sender"] /\ waiting = <<>>
              /\ availableCredits' = all
              /\ ackHandler' = next
              /\ UNCHANGED <<preConfigureCredits, waiting, dataNet>>
           \/ /\ configured["sender"] /\ waiting # <<>>
              /\ Fits(Head(waiting), Head(all))
              /\ waiting' = Tail(waiting)
              /\ dataNet' = Append(dataNet, Head(waiting))
              /\ availableCredits' = Tail(all)
              /\ ackHandler' = next
              /\ UNCHANGED preConfigureCredits
           \/ /\ configured["sender"] /\ waiting # <<>>
              /\ ~Fits(Head(waiting), Head(all))
              /\ availableCredits' = all
              /\ ackHandler' = [at |-> "fail", left |-> <<>>]
              /\ UNCHANGED <<preConfigureCredits, waiting, dataNet>>
    /\ UNCHANGED <<link, status, configured, kind, creditsPosted, creditsDone, receiverVars,
                   creditNet, history>>

\* The catch clause of RdmaBufferQueue::AddCredit; the rethrown exception ends
\* AckHandlerThread, with its credit buffer and with the credits left in it.
AckFails ==
    /\ ackHandler.at = "fail"
    /\ transferStatus' = [transferStatus EXCEPT !["sender"] =
                             IF @ = "ok" THEN "SendTooLarge" ELSE @]
    /\ ackHandler' = [at |-> "gone", left |-> <<>>]
    /\ UNCHANGED <<link, connected, creditStatus, disconnecting, configured,
                   kind, preConfigureCredits, availableCredits, waiting, creditsPosted,
                   creditsDone, receiverVars, dataNet, creditNet, history>>

\* Mutant: the buffer of a message is not posted again
AckKeepsBuffer ==
    /\ ackHandler.at = "add" /\ ackHandler.left = <<>>
    /\ ackHandler' = [at |-> IF creditStatus["sender"] = "ok" THEN "wait" ELSE "gone",
                      left |-> <<>>]
    /\ UNCHANGED <<link, status, configured, kind, preConfigureCredits, availableCredits,
                   waiting, creditsPosted, creditsDone, receiverVars, dataNet, creditNet,
                   history>>

\* All credits of the message are added: its buffer is posted again
AckRequeue ==
    /\ ackHandler.at = "add" /\ ackHandler.left = <<>>
    /\ \/ /\ creditStatus["sender"] = "ok"
          /\ creditsPosted' = creditsPosted + 1
          /\ ackHandler' = [at |-> "wait", left |-> <<>>]
       \/ /\ creditStatus["sender"] # "ok"
          /\ ackHandler' = [at |-> "gone", left |-> <<>>]
          /\ UNCHANGED creditsPosted
    /\ UNCHANGED <<link, status, configured, kind, preConfigureCredits, availableCredits,
                   waiting, creditsDone, receiverVars, dataNet, creditNet, history>>

-----------------------------------------------------------------------------
(* The receiver                                                            *)

\* ConfigureBuffers (which needs the connection) or ConfigureExternalBuffer
ConfigureReceiver ==
    /\ ~configured["receiver"] /\ caller.at = "none"
    /\ connected["receiver"] \/ (external /\ disconnecting["receiver"] # "transfer")
    /\ configured' = [configured EXCEPT !["receiver"] = TRUE]
    /\ caller' = IF external THEN caller ELSE [at |-> "configure", call |-> "configure"]
    /\ UNCHANGED <<link, status, kind, senderVars, idle, held, posted, creditsIdle,
                   creditsSent, owed, dataNet, creditNet, history>>

\* QueueBuffer of the transfer queue, and the credit that is now owed for it
Post(len) ==
    /\ posts' = posts + 1
    /\ posted' = Append(posted, len)
    /\ owed' = Append(owed, len)

\* The first loop of PostConfigure: every idle buffer is posted; the second announces
\* them, if there are any.  An exception ends the call, and with it the announcement
\* of what was posted.
PostConfigure ==
    /\ caller.at = "configure"
    /\ \/ /\ transferStatus["receiver"] = "ok" /\ idle > 0
          /\ Post(bufferLen)
          /\ idle' = idle - 1
          /\ UNCHANGED caller
       \/ /\ transferStatus["receiver"] = "ok" /\ idle = 0
          /\ caller' = IF owed # <<>> THEN [caller EXCEPT !.at = "update"]
                                      ELSE [at |-> "none", call |-> "none"]
          /\ UNCHANGED <<idle, posted, owed, posts>>
       \/ /\ transferStatus["receiver"] # "ok"
          /\ caller' = [at |-> "none", call |-> "none"]
          /\ owed' = <<>>
          /\ UNCHANGED <<idle, posted, posts>>
    /\ UNCHANGED <<link, status, configured, kind, senderVars, held, creditsIdle,
                   creditsSent, dataNet, creditNet, submitted, unannounced>>

\* QueueExternalBufferRegion at a receiver, with the length the user chooses.  The
\* call keeps its access suspended to its end.
QueueExternalBufferRegion(len) ==
    /\ external /\ configured["receiver"] /\ caller.at = "none"
    /\ connected["receiver"] /\ transferStatus["receiver"] = "ok"
    /\ idle > 0
    /\ posts < MaxPosts
    /\ Post(len)
    /\ idle' = idle - 1
    /\ caller' = [at |-> "update", call |-> "queue"]
    /\ UNCHANGED <<link, status, configured, kind, senderVars, held, creditsIdle,
                   creditsSent, dataNet, creditNet, submitted, unannounced>>

\* easyrdma_ReleaseReceivedBufferRegion: the buffer is posted again and its credit
\* owed; if the error is Disconnected it is released to idle, and the call succeeds.
ReleaseReceivedBufferRegion ==
    /\ ~external /\ held > 0 /\ caller.at = "none"
    /\ posts < MaxPosts
    /\ held' = held - 1
    /\ \/ /\ connected["receiver"] /\ transferStatus["receiver"] = "ok"
          /\ Post(bufferLen)
          /\ caller' = [at |-> "update", call |-> "release"]
          /\ UNCHANGED idle
       \/ /\ ~connected["receiver"] \/ transferStatus["receiver"] = "Disconnected"
          /\ idle' = idle + 1
          /\ UNCHANGED <<posted, owed, posts, caller>>
    /\ UNCHANGED <<link, status, configured, kind, senderVars, creditsIdle, creditsSent,
                   dataNet, creditNet, submitted, unannounced>>

\* The call ends.  After an error the buffers it has not announced stay posted.  A
\* release that fails with Disconnected tries to release its buffer to idle, which
\* is rejected: the buffer is not the user's any more.
CallEnds(result) ==
    /\ caller' = [at |-> "none", call |-> "none"]
    /\ owed' = <<>>
    /\ unannounced' = (unannounced \/ result = "Timeout")

\* The end of WaitForIdleBuffer: there is a credit buffer, the queue has failed, or
\* the thread woke up for nothing
TakeCreditBuffer ==
    \/ /\ creditStatus["receiver"] = "ok" /\ creditsIdle > 0
       /\ creditsIdle' = creditsIdle - 1
       /\ caller' = [caller EXCEPT !.at = "send"]
       /\ UNCHANGED <<owed, unannounced>>
    \/ /\ creditStatus["receiver"] # "ok"
       /\ CallEnds(creditStatus["receiver"])
       /\ UNCHANGED creditsIdle
    \/ /\ creditStatus["receiver"] = "ok" /\ creditsIdle = 0 /\ caller.at = "awake"
       /\ CallEnds("Timeout")
       /\ UNCHANGED creditsIdle

\* SendCreditUpdate, WaitForIdleBuffer(-1): it blocks if no credit buffer is idle
WaitForCreditBuffer ==
    /\ caller.at \in {"update", "awake"}
    /\ \/ TakeCreditBuffer
       \/ /\ creditStatus["receiver"] = "ok" /\ creditsIdle = 0 /\ caller.at = "update"
          /\ caller' = [caller EXCEPT !.at = "asleep"]
          /\ UNCHANGED <<creditsIdle, owed, unannounced>>
    /\ UNCHANGED <<link, status, configured, kind, senderVars, idle, held, posted,
                   creditsSent, dataNet, creditNet, submitted, posts>>

\* The wait has no predicate loop
SpuriousWakeUp ==
    /\ caller.at = "asleep"
    /\ caller' = [caller EXCEPT !.at = "awake"]
    /\ UNCHANGED <<link, status, configured, kind, senderVars, idle, held, posted,
                   creditsIdle, creditsSent, owed, dataNet, creditNet, history>>

\* The credits of one message: as many as fit in it, the rest for the next round
Announce ==
    LET n == IF Len(owed) < MaxCreditsPerBuffer THEN Len(owed) ELSE MaxCreditsPerBuffer
    IN  /\ creditNet' = Append(creditNet, SubSeq(owed, 1, n))
        /\ owed' = SubSeq(owed, n + 1, Len(owed))

\* SendCreditUpdate, QueueBuffer: the credits go out, and the call ends with the
\* last of them.  When the queue has failed its buffer stays with the caller.
SendCreditUpdate ==
    /\ caller.at = "send"
    /\ \/ /\ creditStatus["receiver"] = "ok"
          /\ Announce
          /\ \/ owed' # <<>> /\ caller' = [caller EXCEPT !.at = "update"]
             \/ owed' = <<>> /\ caller' = [at |-> "none", call |-> "none"]
          /\ UNCHANGED unannounced
       \/ /\ creditStatus["receiver"] # "ok"
          /\ CallEnds(creditStatus["receiver"])
          /\ UNCHANGED creditNet
    /\ UNCHANGED <<link, status, configured, kind, senderVars, idle, held, posted,
                   creditsIdle, creditsSent, dataNet, submitted, posts>>

\* Mutant: the thread that waits for a credit buffer is not notified
CreditSentQuietly ==
    /\ creditsSent > 0
    /\ creditsSent' = creditsSent - 1
    /\ creditsIdle' = creditsIdle + 1
    /\ UNCHANGED <<link, status, configured, kind, senderVars, idle, held, posted, caller,
                   owed, dataNet, creditNet, history>>

\* HandleCompletion of a credit message at the receiver: its buffer is idle again,
\* and idleAvailableCond is notified.  An aborted queue has taken it back already.
CreditSent ==
    /\ creditsSent > 0
    /\ creditsSent' = creditsSent - 1
    /\ creditsIdle' = IF creditStatus["receiver"] = "ok" THEN creditsIdle + 1 ELSE creditsIdle
    /\ caller' = IF caller.at = "asleep" THEN [caller EXCEPT !.at = "awake"] ELSE caller
    /\ UNCHANGED <<link, status, configured, kind, senderVars, idle, held, posted, owed,
                   dataNet, creditNet, history>>

-----------------------------------------------------------------------------
(* The connection                                                          *)

\* A message arrives in the oldest posted buffer.  If it does not fit there the
\* connection breaks.  The buffer is completed, unless the queue was aborted.
DeliverData ==
    /\ link
    /\ dataNet # <<>> /\ posted # <<>>
    /\ dataNet' = Tail(dataNet)
    /\ posted' = Tail(posted)
    /\ link' = (Head(dataNet) <= Head(posted))
    /\ LET handled == transferStatus["receiver"] = "ok"
       IN  /\ idle' = IF handled /\ external THEN idle + 1 ELSE idle
           /\ held' = IF handled /\ ~external THEN held + 1 ELSE held
    /\ UNCHANGED <<status, configured, kind, senderVars, creditsIdle, creditsSent, caller,
                   owed, creditNet, history>>

\* A credit message arrives in a posted credit buffer: it is completed at both ends
DeliverCredit ==
    /\ link
    /\ creditNet # <<>> /\ creditsPosted > 0
    /\ creditNet' = Tail(creditNet)
    /\ creditsPosted' = creditsPosted - 1
    /\ creditsSent' = creditsSent + 1
    /\ creditsDone' = IF creditStatus["sender"] = "ok" THEN Append(creditsDone, Head(creditNet))
                                                     ELSE creditsDone
    /\ UNCHANGED <<link, status, configured, kind, preConfigureCredits, availableCredits,
                   waiting, ackHandler, idle, held, posted, creditsIdle, caller, owed,
                   dataNet, history>>

\* The connection breaks, or one end closes it.  It need not break when a message has
\* no buffer: rnr_retry_count is 10, of which the queue pair keeps 7, for ever.
Break ==
    /\ link
    /\ link' = FALSE
    /\ UNCHANGED <<status, configured, kind, senderVars, receiverVars, dataNet, creditNet,
                   history>>

-----------------------------------------------------------------------------
(* Disconnection                                                           *)

\* Abort of a transfer queue, if there is one: a sender's messages wait no more, a
\* receiver's buffers are idle again (those in the queue pair are there still)
AbortTransfer(e, error) ==
    /\ transferStatus' = [transferStatus EXCEPT ![e] =
                             IF configured[e] /\ @ = "ok" THEN error ELSE @]
    /\ waiting' = IF e = "sender" THEN <<>> ELSE waiting

\* Abort of a credit queue, which wakes up whoever waits for a buffer
AbortCredits(e, error) ==
    /\ creditStatus' = [creditStatus EXCEPT ![e] = IF @ = "ok" THEN error ELSE @]
    /\ caller' = IF e = "receiver" /\ caller.at = "asleep" THEN [caller EXCEPT !.at = "awake"]
                                                          ELSE caller

\* HandleDisconnect: connected is cleared, then under configureLock the transfer
\* queue is aborted and then the credit queue.
HandleDisconnect(e) ==
    \/ /\ ~link /\ disconnecting[e] = "no"
       /\ disconnecting' = [disconnecting EXCEPT ![e] = "begun"]
       /\ connected' = [connected EXCEPT ![e] = FALSE]
       /\ UNCHANGED <<transferStatus, creditStatus, waiting, caller>>
    \/ /\ disconnecting[e] = "begun"
       /\ e = "sender" => ackHandler.at # "fail"  \* configureLock
       /\ disconnecting' = [disconnecting EXCEPT ![e] = "transfer"]
       /\ AbortTransfer(e, "Disconnected")
       /\ UNCHANGED <<connected, creditStatus, caller>>
    \/ /\ disconnecting[e] = "transfer"
       /\ disconnecting' = [disconnecting EXCEPT ![e] = "done"]
       /\ AbortCredits(e, "Disconnected")
       /\ UNCHANGED <<connected, transferStatus, waiting>>

Disconnection(e) ==
    /\ HandleDisconnect(e)
    /\ UNCHANGED <<link, configured, kind, preConfigureCredits, availableCredits,
                   creditsPosted, creditsDone, ackHandler, idle, held, posted, creditsIdle,
                   creditsSent, owed, dataNet, creditNet, history>>

-----------------------------------------------------------------------------
\* The threads of the library and of a call that is under way, and the transport
Progress ==
    \/ AckTake \/ AddCredit \/ AckFails \/ AckRequeue
    \/ PostConfigure \/ WaitForCreditBuffer \/ SendCreditUpdate \/ CreditSent
    \/ DeliverData \/ DeliverCredit
    \/ \E e \in Ends : Disconnection(e)

Next ==
    \/ Progress
    \/ ConfigureSender \/ ConfigureReceiver
    \/ \E bytes \in Sizes : SubmitSend(bytes) \/ QueueExternalBufferRegion(bytes)
    \/ ReleaseReceivedBufferRegion
    \/ SpuriousWakeUp \/ AckWakesForNothing
    \/ Break

Spec == Init /\ [][Next]_vars

\* Threads are scheduled, and a message that has a buffer arrives.  One that has none
\* may wait for ever, and nothing has to break.
Fairness == WF_vars(Progress)

FairSpec == Spec /\ Fairness

-----------------------------------------------------------------------------
(* Properties                                                              *)

\* The connection and both pairs of queues are in order, and no call has given up
\* between posting a buffer and announcing it
Healthy ==
    /\ link
    /\ \A e \in Ends : transferStatus[e] = "ok" /\ creditStatus[e] = "ok"
    /\ ackHandler.at # "fail"
    /\ ~unannounced

\* Every credit stands for one posted buffer, and in the order in which they were
\* posted: behind the buffers that messages under way will fill, the posted buffers
\* are those of the credits that the sender has, has kept from before its
\* configuration, is adding, has received, that are under way or are yet to be
\* sent.  None is lost, duplicated or overtaken, whichever end configures first.
CreditsMatchBuffers ==
    Healthy =>
        posted = SubSeq(posted, 1, Len(dataNet))
                 \o availableCredits \o preConfigureCredits \o ackHandler.left
                 \o FlattenSeq(creditsDone) \o FlattenSeq(creditNet) \o owed

\* A message always finds a posted buffer, and one that it fits in, until the
\* connection is gone, also after one end has failed.  The sizes
\* may disagree if a thread that waited for a credit buffer woke up for nothing and
\* left its buffer unannounced.
DataFindsBuffer ==
    link =>
        /\ Len(dataNet) <= Len(posted)
        /\ ~unannounced => \A i \in DOMAIN dataNet : dataNet[i] <= posted[i]

\* A credit message always finds a posted credit buffer, if the receiver has fewer
\* transfer buffers than there are credit buffers, also when AckHandlerThread woke up
\* for nothing and reads no more of them.  (One less, because a credit may be used
\* before the buffer it came in is posted again.)  Nothing is said once the thread
\* has met a message that is too large for its credit, or has ended with the queue:
\* then it keeps the buffer of the credits that it was adding.
CreditFindsBuffer ==
    /\ maxConcurrentTransactions < CreditBuffers
    /\ link /\ creditStatus["sender"] = "ok" /\ ackHandler.at \notin {"fail", "gone"}
    => Len(creditNet) <= creditsPosted

\* AckHandlerThread has ended while the connection is up, and the credit buffers that
\* it would post again are used up.
NobodyReads ==
    link /\ ackHandler.at \in {"gone", "timedOut"} /\ creditsPosted = 0

\* A call of the receiver that has to announce buffers returns, although it waits
\* for a credit buffer without a timeout and with the session's access: unless
\* AckHandlerThread has ended at the other end, for a wakeup without cause or for a
\* message that was too large, and its connection stays up for ever.
CallReturns ==
    <>[]NobodyReads \/ (caller.at # "none" ~> caller.at = "none")

=============================================================================
