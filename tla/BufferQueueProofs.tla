------------------------- MODULE BufferQueueProofs -------------------------
(***************************************************************************)
(* Proofs about BufferQueue, for every set of buffers, every queue pair,   *)
(* every size and every number of submissions and credits: the ownership   *)
(* of buffers, the order of completions and of sends, the reasons to sleep *)
(* and the callbacks.  At the end, the ring behind each of the lists       *)
(* (CircularFifo), for every kind of element and every capacity.           *)
(***************************************************************************)
EXTENDS BufferQueue, CircularFifo, FiniteSetTheorems, SequenceTheorems, TLAPS

\* A list of buffers, without repetitions
IsList(s) == s \in Seq(Buffers) /\ IsInjective(s)

\* Sets that have every buffer once between them
Partition(I, Q, C, W, U) ==
    /\ I \cup Q \cup C \cup W \cup U = Buffers
    /\ I \cap Q = {} /\ I \cap C = {} /\ I \cap W = {} /\ I \cap U = {}
    /\ Q \cap C = {} /\ Q \cap W = {} /\ Q \cap U = {}
    /\ C \cap W = {} /\ C \cap U = {}
    /\ W \cap U = {}

\* The lists and their owners
ListsInv ==
    /\ IsList(idle) /\ IsList(queued) /\ IsList(completed) /\ IsList(waiting)
    /\ Partition(Range(idle), Range(queued), Range(completed), Range(waiting), user)
    /\ aborted => queued = <<>> /\ waiting = <<>> /\ status # "ok"

\* What the variables are, with the callback of a buffer among the submissions made
TypeInv ==
    /\ direction \in {"Send", "Receive"} /\ external \in BOOLEAN
    /\ usePolling => AutoQueueRx
    /\ used \in [Buffers -> Nat]
    /\ callback \in [Buffers -> 0 .. submits]
    /\ credits \in Seq(Nat)
    /\ posting \in [Posters -> Buffers \cup {NoBuffer}]
    /\ qp \in Seq(Buffers)
    /\ submits \in 0 .. MaxSubmits
    /\ toQueue \in Nat
    /\ sendLog \in Seq(Nat)
    /\ status \in {"ok"} \cup Errors
    /\ poller \in {"poll", "call", "gone"}
    /\ ackHandler \in {"running", "SendTooLarge", "PostFailed", "gone"}

-----------------------------------------------------------------------------
(* Lists                                                                   *)

\* Taking the head of a list takes that buffer.
LEMMA TailList ==
    ASSUME NEW s, IsList(s), s # <<>>
    PROVE  /\ IsList(Tail(s)) /\ Head(s) \in Range(s) /\ Head(s) \in Buffers
           /\ Range(Tail(s)) = Range(s) \ {Head(s)}
           /\ Range(s) \subseteq Buffers
<1>1. /\ s \in Seq(Buffers)
      /\ Len(s) \in Nat \ {0}
      /\ DOMAIN s = 1 .. Len(s)
      /\ Head(s) = s[1]
      /\ Tail(s) \in Seq(Buffers)
      /\ \A i \in 1 .. Len(s) - 1 : Tail(s)[i] = s[i + 1]
      /\ DOMAIN Tail(s) = 1 .. Len(s) - 1
  BY DEF IsList
<1>2. Head(s) \in Range(s) /\ Range(s) \subseteq Buffers /\ Head(s) \in Buffers
  BY <1>1 DEF Range
<1>3. \A i, j \in 1 .. Len(s) : s[i] = s[j] => i = j
  BY <1>1 DEF IsList, IsInjective
<1>4. IsList(Tail(s))
  BY <1>1, <1>3 DEF IsList, IsInjective
<1>5. Range(Tail(s)) \subseteq Range(s) \ {Head(s)}
  BY <1>1, <1>3 DEF Range
<1>6. ASSUME NEW x \in Range(s), x # Head(s)
      PROVE  x \in Range(Tail(s))
  <2>1. PICK i \in 1 .. Len(s) : x = s[i]
    BY <1>1 DEF Range
  <2>2. i - 1 \in 1 .. Len(s) - 1 /\ Tail(s)[i - 1] = s[i]
    BY <1>1, <1>6, <2>1
  <2> QED
    BY <1>1, <2>1, <2>2 DEF Range
<1> QED
  BY <1>2, <1>4, <1>5, <1>6

\* Appending a new buffer to a list adds it.
LEMMA AppendList ==
    ASSUME NEW s, IsList(s), NEW b \in Buffers, b \notin Range(s)
    PROVE  /\ IsList(Append(s, b)) /\ Range(Append(s, b)) = Range(s) \cup {b}
           /\ Append(s, b) # <<>>
<1> DEFINE r == Append(s, b)
<1>1. s \in Seq(Buffers) /\ Len(s) \in Nat /\ DOMAIN s = 1 .. Len(s)
  BY DEF IsList
<1>2. r \in Seq(Buffers) /\ Len(r) = Len(s) + 1
  BY <1>1, AppendProperties
<1>3. \A i \in 1 .. Len(s) : r[i] = s[i]
  BY <1>1, AppendProperties
<1>4. r[Len(s) + 1] = b
  BY <1>1, AppendProperties
<1>5. DOMAIN r = 1 .. Len(s) + 1
  BY <1>2
<1>6. r # <<>>
  BY <1>1, <1>2
<1> HIDE DEF r
<1>7. Range(r) = Range(s) \cup {b}
  <2>1. ASSUME NEW x \in Range(r) PROVE x \in Range(s) \cup {b}
    <3>1. PICK i \in 1 .. Len(s) + 1 : x = r[i]
      BY <1>5, <2>1 DEF Range
    <3>2. CASE i = Len(s) + 1
      BY <1>4, <3>1, <3>2
    <3>3. CASE i \in 1 .. Len(s)
      BY <1>1, <1>3, <3>1, <3>3 DEF Range
    <3> QED
      BY <1>1, <3>2, <3>3
  <2>2. Range(s) \subseteq Range(r)
    BY <1>1, <1>3, <1>5 DEF Range
  <2>3. b \in Range(r)
    BY <1>1, <1>4, <1>5 DEF Range
  <2> QED
    BY <2>1, <2>2, <2>3
<1>8. IsInjective(r)
  <2> SUFFICES ASSUME NEW i \in 1 .. Len(s) + 1, NEW j \in 1 .. Len(s) + 1, r[i] = r[j]
               PROVE  i = j
    BY <1>5 DEF IsInjective
  <2>1. \A k, l \in 1 .. Len(s) : s[k] = s[l] => k = l
    BY <1>1 DEF IsList, IsInjective
  <2>2. \A k \in 1 .. Len(s) : s[k] # b
    BY <1>1 DEF Range
  <2> QED
    BY <1>1, <1>3, <1>4, <2>1, <2>2
<1> QED
  BY <1>2, <1>6, <1>7, <1>8 DEF IsList, r

\* Two lists of different buffers make one list.
LEMMA ConcatList ==
    ASSUME NEW s, NEW r, IsList(s), IsList(r), Range(s) \cap Range(r) = {}
    PROVE  IsList(s \o r) /\ Range(s \o r) = Range(s) \cup Range(r)
<1>1. /\ s \in Seq(Buffers) /\ Len(s) \in Nat /\ DOMAIN s = 1 .. Len(s)
      /\ r \in Seq(Buffers) /\ Len(r) \in Nat /\ DOMAIN r = 1 .. Len(r)
  BY DEF IsList
<1>2. s \o r \in Seq(Buffers) /\ Len(s \o r) = Len(s) + Len(r)
  BY <1>1, ConcatProperties
<1>3. \A i \in 1 .. Len(s) + Len(r) :
          (s \o r)[i] = IF i <= Len(s) THEN s[i] ELSE r[i - Len(s)]
  BY <1>1, ConcatProperties
<1>4. Range(s \o r) = Range(s) \cup Range(r)
  BY <1>1, RangeConcatenation
<1>5. IsInjective(s \o r)
  <2> SUFFICES ASSUME NEW i \in 1 .. Len(s) + Len(r), NEW j \in 1 .. Len(s) + Len(r),
                      (s \o r)[i] = (s \o r)[j]
               PROVE  i = j
    BY <1>2 DEF IsInjective
  <2>1. \A k, l \in 1 .. Len(s) : s[k] = s[l] => k = l
    BY <1>1 DEF IsList, IsInjective
  <2>2. \A k, l \in 1 .. Len(r) : r[k] = r[l] => k = l
    BY <1>1 DEF IsList, IsInjective
  <2>3. \A k \in 1 .. Len(s), l \in 1 .. Len(r) : s[k] # r[l]
    BY <1>1 DEF Range
  <2> QED
    BY <1>1, <1>3, <2>1, <2>2, <2>3
<1> QED
  BY <1>2, <1>4, <1>5 DEF IsList

\* The empty list
LEMMA EmptyList == IsList(<<>>) /\ Range(<<>>) = {}
  BY DEF IsList, IsInjective, Range

-----------------------------------------------------------------------------
(* Ownership                                                               *)

\* The ways in which a step moves buffers
Stays     == /\ idle' = idle /\ queued' = queued /\ completed' = completed
             /\ waiting' = waiting /\ user' = user
Queues(b) == /\ queued' = Append(queued, b) /\ user' = user \ {b} /\ status = "ok"
             /\ idle' = idle /\ completed' = completed /\ waiting' = waiting
Waits(b)  == /\ waiting' = Append(waiting, b) /\ user' = user \ {b} /\ status = "ok"
             /\ idle' = idle /\ completed' = completed /\ queued' = queued
Frees(b)  == /\ idle' = Append(idle, b) /\ user' = user \ {b}
             /\ queued' = queued /\ completed' = completed /\ waiting' = waiting
Sends     == /\ waiting # <<>> /\ waiting' = Tail(waiting)
             /\ queued' = Append(queued, Head(waiting))
             /\ idle' = idle /\ completed' = completed /\ user' = user
Completes == /\ queued # <<>> /\ queued' = Tail(queued)
             /\ \/ idle' = Append(idle, Head(queued)) /\ completed' = completed
                \/ completed' = Append(completed, Head(queued)) /\ idle' = idle
             /\ waiting' = waiting /\ user' = user
Aborts    == /\ idle' = idle \o AbortList /\ queued' = <<>> /\ waiting' = <<>>
             /\ completed' = completed /\ user' = user

Moves ==
    \/ Stays \/ TakeIdle \/ TakeCompleted
    \/ \E b \in user : Queues(b) \/ Waits(b) \/ Frees(b)
    \/ Sends \/ Completes

\* A step moves buffers in one of these ways, and an error stays.
FifoStep ==
    \/ Moves /\ aborted' = aborted /\ (status # "ok" => status' # "ok")
    \/ Aborts /\ aborted' /\ status' # "ok"

\* Each of them leaves every buffer with one owner.
LEMMA FifoStepLists ==
    ASSUME ListsInv, FifoStep
    PROVE  ListsInv'
<1>1. /\ IsList(idle) /\ IsList(queued) /\ IsList(completed) /\ IsList(waiting)
      /\ Partition(Range(idle), Range(queued), Range(completed), Range(waiting), user)
      /\ aborted => queued = <<>> /\ waiting = <<>> /\ status # "ok"
  BY DEF ListsInv
<1>2. user \subseteq Buffers
  BY <1>1 DEF Partition
<1>3. CASE Aborts /\ aborted' /\ status' # "ok"
  <2>1. IsList(AbortList) /\ Range(AbortList) = Range(queued) \cup Range(waiting)
    BY <1>1, ConcatList DEF AbortList, Partition
  <2>2. IsList(idle') /\ Range(idle') = Range(idle) \cup Range(queued) \cup Range(waiting)
    <3>1. Range(idle) \cap Range(AbortList) = {}
      BY <1>1, <2>1 DEF Partition
    <3> QED
      BY <1>1, <1>3, <2>1, <3>1, ConcatList DEF Aborts
  <2>3. /\ IsList(queued') /\ IsList(waiting') /\ Range(queued') = {} /\ Range(waiting') = {}
    BY <1>3, EmptyList DEF Aborts
  <2>4. Partition(Range(idle'), Range(queued'), Range(completed'), Range(waiting'), user')
    BY <1>1, <1>3, <2>2, <2>3 DEF Partition, Aborts
  <2> QED
    BY <1>1, <1>3, <2>2, <2>3, <2>4 DEF ListsInv, Aborts
<1>4. CASE Moves /\ aborted' = aborted /\ (status # "ok" => status' # "ok")
  <2> DEFINE Goal == /\ IsList(idle') /\ IsList(queued') /\ IsList(completed') /\ IsList(waiting')
                     /\ Partition(Range(idle'), Range(queued'), Range(completed'),
                                  Range(waiting'), user')
  <2>1. CASE Stays
    <3>1. Goal
      BY <1>1, <2>1 DEF Stays
    <3> QED
      BY <1>1, <1>4, <2>1, <3>1 DEF ListsInv, Stays
  <2>2. CASE TakeIdle
    <3>1. /\ IsList(idle') /\ Range(idle') = Range(idle) \ {Head(idle)}
          /\ Head(idle) \in Range(idle) /\ Head(idle) \in Buffers
      BY <1>1, <2>2, TailList DEF TakeIdle
    <3>2. Goal
      BY <1>1, <2>2, <3>1 DEF TakeIdle, Partition
    <3> QED
      BY <1>1, <1>4, <2>2, <3>2 DEF ListsInv, TakeIdle
  <2>3. CASE TakeCompleted
    <3>1. /\ IsList(completed') /\ Range(completed') = Range(completed) \ {Head(completed)}
          /\ Head(completed) \in Range(completed) /\ Head(completed) \in Buffers
      BY <1>1, <2>3, TailList DEF TakeCompleted
    <3>2. Goal
      BY <1>1, <2>3, <3>1 DEF TakeCompleted, Partition
    <3> QED
      BY <1>1, <1>4, <2>3, <3>2 DEF ListsInv, TakeCompleted
  <2>4. ASSUME NEW b \in user, Queues(b)
        PROVE  ListsInv'
    <3>1. b \notin Range(queued) /\ b \in Buffers
      BY <1>1, <1>2 DEF Partition
    <3>2. IsList(queued') /\ Range(queued') = Range(queued) \cup {b}
      BY <1>1, <2>4, <3>1, AppendList DEF Queues
    <3>3. Goal
      BY <1>1, <2>4, <3>1, <3>2 DEF Queues, Partition
    <3> QED
      BY <1>1, <1>4, <2>4, <3>3 DEF ListsInv, Queues
  <2>5. ASSUME NEW b \in user, Waits(b)
        PROVE  ListsInv'
    <3>1. b \notin Range(waiting) /\ b \in Buffers
      BY <1>1, <1>2 DEF Partition
    <3>2. IsList(waiting') /\ Range(waiting') = Range(waiting) \cup {b}
      BY <1>1, <2>5, <3>1, AppendList DEF Waits
    <3>3. Goal
      BY <1>1, <2>5, <3>1, <3>2 DEF Waits, Partition
    <3> QED
      BY <1>1, <1>4, <2>5, <3>3 DEF ListsInv, Waits
  <2>6. ASSUME NEW b \in user, Frees(b)
        PROVE  ListsInv'
    <3>1. b \notin Range(idle) /\ b \in Buffers
      BY <1>1, <1>2 DEF Partition
    <3>2. IsList(idle') /\ Range(idle') = Range(idle) \cup {b}
      BY <1>1, <2>6, <3>1, AppendList DEF Frees
    <3>3. Goal
      BY <1>1, <2>6, <3>1, <3>2 DEF Frees, Partition
    <3> QED
      BY <1>1, <1>4, <2>6, <3>3 DEF ListsInv, Frees
  <2>7. CASE Sends
    <3>1. /\ IsList(waiting') /\ Range(waiting') = Range(waiting) \ {Head(waiting)}
          /\ Head(waiting) \in Range(waiting) /\ Head(waiting) \in Buffers
      BY <1>1, <2>7, TailList DEF Sends
    <3>2. Head(waiting) \notin Range(queued)
      BY <1>1, <3>1 DEF Partition
    <3>3. IsList(queued') /\ Range(queued') = Range(queued) \cup {Head(waiting)}
      BY <1>1, <2>7, <3>1, <3>2, AppendList DEF Sends
    <3>4. Goal
      BY <1>1, <2>7, <3>1, <3>3 DEF Sends, Partition
    <3> QED
      BY <1>1, <1>4, <2>7, <3>4 DEF ListsInv, Sends
  <2>8. CASE Completes
    <3>1. /\ IsList(queued') /\ Range(queued') = Range(queued) \ {Head(queued)}
          /\ Head(queued) \in Range(queued) /\ Head(queued) \in Buffers
      BY <1>1, <2>8, TailList DEF Completes
    <3>2. Head(queued) \notin Range(idle) /\ Head(queued) \notin Range(completed)
      BY <1>1, <3>1 DEF Partition
    <3>3. Goal
      <4>1. CASE idle' = Append(idle, Head(queued)) /\ completed' = completed
        <5>1. IsList(idle') /\ Range(idle') = Range(idle) \cup {Head(queued)}
          BY <1>1, <3>1, <3>2, <4>1, AppendList
        <5> QED
          BY <1>1, <2>8, <3>1, <4>1, <5>1 DEF Completes, Partition
      <4>2. CASE completed' = Append(completed, Head(queued)) /\ idle' = idle
        <5>1. IsList(completed') /\ Range(completed') = Range(completed) \cup {Head(queued)}
          BY <1>1, <3>1, <3>2, <4>2, AppendList
        <5> QED
          BY <1>1, <2>8, <3>1, <4>2, <5>1 DEF Completes, Partition
      <4> QED
        BY <2>8, <4>1, <4>2 DEF Completes
    <3> QED
      BY <1>1, <1>4, <2>8, <3>3 DEF ListsInv, Completes
  <2> QED
    BY <1>4, <2>1, <2>2, <2>3, <2>4, <2>5, <2>6, <2>7, <2>8 DEF Moves
<1> QED
  BY <1>3, <1>4 DEF FifoStep

\* QueueBuffer moves the buffer that it was given, or nothing.
LEMMA QueueBufferMoves ==
    ASSUME NEW b, NEW bytes, NEW s, QueueBuffer(b, bytes, s)
    PROVE  /\ Stays \/ (b \in user /\ (Queues(b) \/ Waits(b)))
           /\ status # "ok" => status' # "ok"
  BY DEF QueueBuffer, Stays, Queues, Waits, MayQueue, fifos

\* The steps of the model move buffers in these ways.
LEMMA NextFifoStep ==
    ASSUME [Next]_vars
    PROVE  FifoStep
<1>1. CASE \/ WaitForIdleBuffer \/ WaitForCompletedBuffer \/ WakeUp \/ PostConfigureTake
  <2>1. Stays \/ TakeIdle \/ TakeCompleted
    BY <1>1 DEF WaitForIdleBuffer, WaitForCompletedBuffer, WakeUp, PostConfigureTake, Stays, fifos
  <2>2. aborted' = aborted /\ status' = status
    BY <1>1 DEF WaitForIdleBuffer, WaitForCompletedBuffer, WakeUp, PostConfigureTake
  <2> QED
    BY <2>1, <2>2 DEF FifoStep, Moves
<1>2. CASE \/ TimeOut \/ SpuriousWakeUp \/ (\E w \in Posters : QueueToQp(w)) \/ RecordCreditError
           \/ UnknownOpcode \/ PollFails \/ CallCompletionCallback \/ Disconnect
           \/ CallAbortCallback \/ UNCHANGED vars
  <2>1. Stays
    BY <1>2 DEF TimeOut, SpuriousWakeUp, QueueToQp, RecordCreditError, UnknownOpcode, PollFails,
       CallCompletionCallback, Disconnect, CallAbortCallback, vars, fifos, Stays
  <2>2. aborted' = aborted /\ (status # "ok" => status' # "ok")
    BY <1>2 DEF TimeOut, SpuriousWakeUp, QueueToQp, RecordCreditError, UnknownOpcode, PollFails,
       CallCompletionCallback, Disconnect, CallAbortCallback, vars, Assign
  <2> QED
    BY <2>1, <2>2 DEF FifoStep, Moves
<1>3. ASSUME NEW b \in Buffers, NEW bytes \in Sizes, QueueBufferRegion(b, bytes)
      PROVE  FifoStep
  <2>1. /\ Stays \/ (b \in user /\ (Queues(b) \/ Waits(b)))
        /\ status # "ok" => status' # "ok"
    <3>1. CASE connected /\ QueueBuffer(b, bytes, submits')
      BY <3>1, QueueBufferMoves
    <3>2. CASE UNCHANGED <<fifos, credits, status, posting, accepted, sendLog>>
      BY <3>2 DEF Stays, fifos
    <3> QED
      BY <1>3, <3>1, <3>2 DEF QueueBufferRegion, QueueIfConnected
  <2>2. aborted' = aborted
    BY <1>3 DEF QueueBufferRegion
  <2> QED
    BY <2>1, <2>2 DEF FifoStep, Moves
<1>4. ASSUME NEW b \in Buffers, PostConfigureQueue(b)
      PROVE  FifoStep
  <2>1. /\ Stays \/ (b \in user /\ (Queues(b) \/ Waits(b)))
        /\ status # "ok" => status' # "ok"
    BY <1>4, QueueBufferMoves DEF PostConfigureQueue
  <2>2. aborted' = aborted
    BY <1>4 DEF PostConfigureQueue
  <2> QED
    BY <2>1, <2>2 DEF FifoStep, Moves
<1>5. ASSUME NEW b \in Buffers, ReleaseReceivedBufferRegion(b)
      PROVE  FifoStep
  <2>1. /\ Stays \/ (b \in user /\ (Queues(b) \/ Waits(b) \/ Frees(b)))
        /\ status # "ok" => status' # "ok"
    <3>1. CASE QueueBuffer(b, used[b], callback[b])
      BY <3>1, QueueBufferMoves
    <3>2. CASE /\ user' = user \ {b} /\ idle' = Append(idle, b)
               /\ UNCHANGED <<queued, completed, waiting, credits, status, posting,
                              accepted, sendLog>>
      BY <1>5, <3>2 DEF Frees, ReleaseReceivedBufferRegion
    <3> QED
      BY <1>5, <3>1, <3>2 DEF ReleaseReceivedBufferRegion
  <2>2. aborted' = aborted
    BY <1>5 DEF ReleaseReceivedBufferRegion
  <2> QED
    BY <2>1, <2>2 DEF FifoStep, Moves
<1>6. ASSUME NEW b \in Buffers, ReleaseBuffer(b)
      PROVE  FifoStep
  BY <1>6 DEF ReleaseBuffer, FifoStep, Moves, Frees
<1>7. ASSUME NEW bytes \in Sizes, AddCredit(bytes)
      PROVE  FifoStep
  <2>1. Stays \/ Sends
    BY <1>7 DEF AddCredit, Stays, Sends
  <2>2. aborted' = aborted /\ status' = status
    BY <1>7 DEF AddCredit
  <2> QED
    BY <2>1, <2>2 DEF FifoStep, Moves
<1>8. ASSUME NEW failed \in BOOLEAN, HandleCompletion(failed)
      PROVE  FifoStep
  <2>1. Stays \/ Completes
    BY <1>8 DEF HandleCompletion, Stays, Completes, fifos
  <2>2. aborted' = aborted /\ (status # "ok" => status' # "ok")
    BY <1>8 DEF HandleCompletion, Assign
  <2> QED
    BY <2>1, <2>2 DEF FifoStep, Moves
<1>9. CASE AbortOnDisconnect \/ Cancel
  BY <1>9 DEF AbortOnDisconnect, Cancel, Abort, FifoStep, Aborts, Assign
<1> QED
  BY <1>1, <1>2, <1>3, <1>4, <1>5, <1>6, <1>7, <1>8, <1>9 DEF Next

\* At first every buffer is idle.
LEMMA InitLists == Init => ListsInv
<1> SUFFICES ASSUME Init PROVE ListsInv
  OBVIOUS
<1> DEFINE n == Cardinality(Buffers)
<1>1. n \in Nat /\ ExistsBijection(1 .. n, Buffers)
  BY FS_CardinalityType, BufferQueueAssumption
<1>2. idle \in Bijection(1 .. n, Buffers)
  <2>1. \E f : f \in Bijection(1 .. n, Buffers)
    BY <1>1 DEF ExistsBijection
  <2>2. idle = CHOOSE order \in Bijection(1 .. n, Buffers) : TRUE
    BY DEF Init
  <2> QED
    BY <2>1, <2>2
<1> HIDE DEF n
<1>3. /\ idle \in [1 .. n -> Buffers]
      /\ \A i, j \in 1 .. n : idle[i] = idle[j] => i = j
      /\ \A b \in Buffers : \E i \in 1 .. n : idle[i] = b
  BY <1>2 DEF Bijection, Injection, Surjection, IsInjective
<1>4. idle \in Seq(Buffers) /\ DOMAIN idle = 1 .. n
  BY <1>1, <1>3
<1>5. IsList(idle) /\ Range(idle) = Buffers
  BY <1>3, <1>4 DEF IsList, IsInjective, Range
<1>6. Partition(Range(idle), Range(queued), Range(completed), Range(waiting), user)
  BY <1>5, EmptyList DEF Init, Partition
<1> QED
  BY <1>5, <1>6, EmptyList DEF Init, ListsInv

\* Ownership needs nothing else: it is preserved whatever the other threads are doing.
THEOREM OwnersInvariance == Spec => []ListsInv
<1>1. ListsInv /\ [Next]_vars => ListsInv'
  BY NextFifoStep, FifoStepLists
<1> QED
  BY <1>1, InitLists, PTL DEF Spec

\* No path of completion, abort, release, credit or failed submission loses a buffer or
\* gives it two owners.
THEOREM Ownership == Spec => []OneOwner
<1>1. ASSUME ListsInv PROVE OneOwner
  <2>1. /\ IsList(idle) /\ IsList(queued) /\ IsList(completed) /\ IsList(waiting)
        /\ Partition(Range(idle), Range(queued), Range(completed), Range(waiting), user)
    BY <1>1 DEF ListsInv
  <2>2. ASSUME NEW b \in Buffers
        PROVE  \E p \in DOMAIN Holdings :
                  /\ b \in Holdings[p]
                  /\ \A q \in DOMAIN Holdings \ {p} : b \notin Holdings[q]
    <3>1. /\ DOMAIN Holdings = {"idle", "queued", "completed", "waiting", "user"}
          /\ Holdings["idle"] = Range(idle) /\ Holdings["queued"] = Range(queued)
          /\ Holdings["completed"] = Range(completed)
          /\ Holdings["waiting"] = Range(waiting) /\ Holdings["user"] = user
      BY DEF Holdings
    <3>2. \/ b \in Range(idle) \/ b \in Range(queued) \/ b \in Range(completed)
          \/ b \in Range(waiting) \/ b \in user
      BY <2>1 DEF Partition
    <3>3. /\ b \in Range(idle) => b \notin Range(queued) \cup Range(completed) \cup Range(waiting) \cup user
          /\ b \in Range(queued) => b \notin Range(completed) \cup Range(waiting) \cup user
          /\ b \in Range(completed) => b \notin Range(waiting) \cup user
          /\ b \in Range(waiting) => b \notin user
      BY <2>1 DEF Partition
    <3> QED
      BY <3>1, <3>2, <3>3
  <2>3. \A list \in {idle, queued, completed, waiting} : IsInjective(list)
    BY <2>1 DEF IsList
  <2> QED
    BY <1>1, <2>2, <2>3 DEF OneOwner, ListsInv
<1> QED
  BY <1>1, OwnersInvariance, PTL

-----------------------------------------------------------------------------
(* Types                                                                   *)

LEMMA KindStays ==
    ASSUME [Next]_vars
    PROVE  direction' = direction /\ external' = external /\ usePolling' = usePolling
  BY DEF Next, vars, kind, WaitForIdleBuffer, WaitForCompletedBuffer, WakeUp, TimeOut,
     SpuriousWakeUp, QueueBufferRegion, ReleaseBuffer, ReleaseReceivedBufferRegion,
     PostConfigureTake, PostConfigureQueue, QueueToQp, AddCredit, RecordCreditError,
     HandleCompletion, UnknownOpcode, PollFails, CallCompletionCallback, Disconnect,
     AbortOnDisconnect, Cancel, Abort, CallAbortCallback

\* What a step of the queue does to the types it writes
LEMMA QueueBufferTypes ==
    ASSUME TypeInv, NEW b \in Buffers, NEW bytes, NEW s \in Nat, QueueBuffer(b, bytes, s)
    PROVE  /\ credits' \in Seq(Nat)
           /\ posting' \in [Posters -> Buffers \cup {NoBuffer}]
           /\ status' \in {"ok"} \cup Errors
           /\ sendLog' \in Seq(Nat)
<1>1. /\ credits \in Seq(Nat) /\ sendLog \in Seq(Nat) /\ status \in {"ok"} \cup Errors
      /\ posting \in [Posters -> Buffers \cup {NoBuffer}]
  BY DEF TypeInv
<1>2. CASE UNCHANGED <<credits, posting, status, sendLog>>
  BY <1>1, <1>2
<1>3. CASE /\ posting' = [posting EXCEPT !["client"] = b]
           /\ UNCHANGED <<credits, status, sendLog>>
  BY <1>1, <1>3
<1>4. CASE /\ posting' = [posting EXCEPT !["client"] = b] /\ credits # <<>>
           /\ credits' = Tail(credits) /\ sendLog' = Append(sendLog, s)
           /\ UNCHANGED status
  <2>1. credits' \in Seq(Nat)
    BY <1>1, <1>4
  <2>2. sendLog' \in Seq(Nat)
    BY <1>1, <1>4
  <2> QED
    BY <1>1, <1>4, <2>1, <2>2
<1>5. CASE status' = "SendTooLarge" /\ UNCHANGED <<credits, posting, sendLog>>
  BY <1>1, <1>5 DEF Errors
<1> QED
  BY <1>2, <1>3, <1>4, <1>5 DEF QueueBuffer, PopCredit

LEMMA NextTypes ==
    ASSUME TypeInv, ListsInv, [Next]_vars
    PROVE  TypeInv'
<1> DEFINE Fixed == direction' = direction /\ external' = external /\ usePolling' = usePolling
<1>0. Fixed
  BY KindStays
<1>1. CASE \/ WaitForIdleBuffer \/ WaitForCompletedBuffer \/ WakeUp \/ TimeOut \/ SpuriousWakeUp
           \/ Disconnect \/ PollFails \/ CallAbortCallback \/ UNCHANGED vars
           \/ \E b \in Buffers : ReleaseBuffer(b)
  <2>1. /\ UNCHANGED <<used, callback, credits, posting, qp, submits, toQueue, sendLog, status,
                       poller, ackHandler>>
    BY <1>1 DEF WaitForIdleBuffer, WaitForCompletedBuffer, WakeUp, TimeOut, SpuriousWakeUp,
       Disconnect, PollFails, CallAbortCallback, vars, data, device, history, ReleaseBuffer
  <2> QED
    BY <1>0, <2>1 DEF TypeInv, AutoQueueRx
<1>2. CASE PostConfigureTake \/ RecordCreditError \/ CallCompletionCallback
  <2>1. /\ UNCHANGED <<used, callback, credits, posting, qp, submits, sendLog>>
        /\ toQueue' \in {toQueue, 0}
        /\ poller' \in {poller, "poll", "gone"}
        /\ \/ UNCHANGED <<ackHandler, status>>
           \/ ackHandler' = "gone" /\ ackHandler \in Errors /\ status' \in {status, ackHandler}
    BY <1>2 DEF PostConfigureTake, RecordCreditError, CallCompletionCallback, data, device,
       history, Assign
  <2> QED
    BY <1>0, <2>1 DEF TypeInv, AutoQueueRx
<1>3. ASSUME NEW b \in Buffers, NEW bytes \in Sizes, QueueBufferRegion(b, bytes)
      PROVE  TypeInv'
  <2>1. submits' = submits + 1 /\ submits' \in 0 .. MaxSubmits /\ submits \in 0 .. MaxSubmits
    BY <1>3, BufferQueueAssumption DEF QueueBufferRegion, TypeInv
  <2>2. callback' \in [Buffers -> 0 .. submits']
    BY <1>3, <2>1 DEF QueueBufferRegion, SetCompletionCallback, TypeInv
  <2>3. bytes \in Nat
    BY BufferQueueAssumption
  <2>4. used' \in [Buffers -> Nat]
    BY <1>3, <2>3 DEF QueueBufferRegion, SetUsed, TypeInv
  <2>5. /\ credits' \in Seq(Nat)
        /\ posting' \in [Posters -> Buffers \cup {NoBuffer}]
        /\ status' \in {"ok"} \cup Errors
        /\ sendLog' \in Seq(Nat)
    <3>1. CASE QueueBuffer(b, bytes, submits')
      <4>1. submits' \in Nat
        BY <2>1
      <4> QED
        BY <3>1, <4>1, QueueBufferTypes
    <3>2. CASE UNCHANGED <<fifos, credits, status, posting, accepted, sendLog>>
      BY <3>2 DEF TypeInv
    <3> QED
      BY <1>3, <3>1, <3>2 DEF QueueBufferRegion, QueueIfConnected
  <2>6. UNCHANGED <<qp, toQueue, poller, ackHandler>>
    BY <1>3 DEF QueueBufferRegion, device
  <2> QED
    BY <1>0, <2>1, <2>2, <2>4, <2>5, <2>6 DEF TypeInv, AutoQueueRx
<1>4. ASSUME NEW b \in Buffers, PostConfigureQueue(b) \/ ReleaseReceivedBufferRegion(b)
      PROVE  TypeInv'
  <2>1. /\ UNCHANGED <<used, callback, qp, submits, poller, ackHandler>>
        /\ toQueue' \in {toQueue, toQueue - 1, 0}
        /\ toQueue' = toQueue - 1 => toQueue > 0
    BY <1>4 DEF PostConfigureQueue, ReleaseReceivedBufferRegion, data, device, TypeInv
  <2>2. callback[b] \in Nat
    BY DEF TypeInv
  <2>3. /\ credits' \in Seq(Nat)
        /\ posting' \in [Posters -> Buffers \cup {NoBuffer}]
        /\ status' \in {"ok"} \cup Errors
        /\ sendLog' \in Seq(Nat)
    <3>1. CASE QueueBuffer(b, used[b], callback[b])
      BY <2>2, <3>1, QueueBufferTypes
    <3>2. CASE UNCHANGED <<credits, status, posting, sendLog>>
      BY <3>2 DEF TypeInv
    <3> QED
      BY <1>4, <3>1, <3>2 DEF PostConfigureQueue, ReleaseReceivedBufferRegion
  <2>4. toQueue' \in Nat
    BY <2>1 DEF TypeInv
  <2> QED
    BY <1>0, <2>1, <2>3, <2>4 DEF TypeInv, AutoQueueRx
<1>5. ASSUME NEW w \in Posters, QueueToQp(w)
      PROVE  TypeInv'
  <2>1. /\ UNCHANGED <<used, callback, credits, submits, sendLog, status, poller>>
        /\ toQueue' \in {toQueue, 0} /\ ackHandler' \in {ackHandler, "PostFailed"}
        /\ posting[w] # NoBuffer /\ posting' = [posting EXCEPT ![w] = NoBuffer]
        /\ qp' = qp \/ qp' = Append(qp, posting[w])
    BY <1>5 DEF QueueToQp, data, history
  <2>2. posting[w] \in Buffers
    BY <2>1 DEF TypeInv
  <2>3. qp' \in Seq(Buffers)
    <3>1. qp \in Seq(Buffers)
      BY DEF TypeInv
    <3> QED
      BY <2>1, <2>2, <3>1, AppendProperties
  <2>4. posting' \in [Posters -> Buffers \cup {NoBuffer}]
    BY <2>1 DEF TypeInv
  <2> QED
    BY <1>0, <2>1, <2>3, <2>4 DEF TypeInv, AutoQueueRx
<1>6. ASSUME NEW bytes \in Sizes, AddCredit(bytes)
      PROVE  TypeInv'
  <2>1. UNCHANGED <<used, callback, qp, submits, toQueue, status, poller>>
    BY <1>6 DEF AddCredit, data, device
  <2>2. credits \in Seq(Nat) /\ bytes \in Nat
    BY BufferQueueAssumption DEF TypeInv
  <2>3. Append(credits, bytes) \in Seq(Nat) /\ Append(credits, bytes) # <<>>
    BY <2>2, AppendProperties
  <2>4. Tail(Append(credits, bytes)) \in Seq(Nat)
    BY <2>3
  <2>5. credits' \in Seq(Nat)
    BY <1>6, <2>3, <2>4 DEF AddCredit, PopCredit
  <2>6. /\ ackHandler' \in {ackHandler, "SendTooLarge"}
        /\ \/ UNCHANGED <<posting, sendLog>>
           \/ /\ waiting # <<>> /\ posting' = [posting EXCEPT !["ack"] = Head(waiting)]
              /\ sendLog' = Append(sendLog, callback[Head(waiting)])
    BY <1>6 DEF AddCredit
  <2>7. /\ posting' \in [Posters -> Buffers \cup {NoBuffer}]
        /\ sendLog' \in Seq(Nat)
    <3>1. CASE UNCHANGED <<posting, sendLog>>
      BY <3>1 DEF TypeInv
    <3>2. CASE /\ waiting # <<>> /\ posting' = [posting EXCEPT !["ack"] = Head(waiting)]
               /\ sendLog' = Append(sendLog, callback[Head(waiting)])
      <4>1. Head(waiting) \in Buffers
        BY <3>2, TailList DEF ListsInv
      <4>2. callback[Head(waiting)] \in Nat /\ sendLog \in Seq(Nat)
        BY <4>1 DEF TypeInv
      <4>3. sendLog' \in Seq(Nat)
        BY <3>2, <4>2
      <4>4. posting' \in [Posters -> Buffers \cup {NoBuffer}]
        BY <3>2, <4>1 DEF TypeInv
      <4> QED
        BY <4>3, <4>4
    <3> QED
      BY <2>6, <3>1, <3>2
  <2> QED
    BY <1>0, <2>1, <2>5, <2>6, <2>7 DEF TypeInv, AutoQueueRx
<1>7. ASSUME NEW failed \in BOOLEAN, HandleCompletion(failed)
      PROVE  TypeInv'
  <2>1. /\ UNCHANGED <<credits, posting, submits, toQueue, sendLog, ackHandler>>
        /\ qp # <<>> /\ qp' = Tail(qp)
        /\ used' = [used EXCEPT ![Head(qp)] = BytesTransferred(Head(qp), failed)]
        /\ callback' = callback \/ callback' = ClearCallbacks({Head(qp)})
        /\ poller' \in {poller, "call", "gone"}
        /\ status' \in {status, "TransferFailed"}
    BY <1>7 DEF HandleCompletion, history, Assign, PollerThrows
  <2>2. qp' \in Seq(Buffers) /\ Head(qp) \in Buffers
    BY <2>1 DEF TypeInv
  <2>3. used' \in [Buffers -> Nat]
    BY <2>1, <2>2 DEF TypeInv, BytesTransferred
  <2>4. callback' \in [Buffers -> 0 .. submits']
    <3>1. submits' = submits /\ 0 \in 0 .. submits /\ callback \in [Buffers -> 0 .. submits]
      BY <2>1 DEF TypeInv
    <3> QED
      BY <2>1, <3>1 DEF ClearCallbacks
  <2> QED
    BY <1>0, <2>1, <2>2, <2>3, <2>4 DEF TypeInv, AutoQueueRx, Errors
<1>8. CASE UnknownOpcode
  <2>1. /\ UNCHANGED <<used, callback, credits, posting, submits, toQueue, sendLog, status,
                       ackHandler>>
        /\ poller' \in {poller, "gone"} /\ qp # <<>> /\ qp' = Tail(qp)
    BY <1>8 DEF UnknownOpcode, data, history, PollerThrows
  <2>2. qp' \in Seq(Buffers)
    BY <2>1 DEF TypeInv
  <2> QED
    BY <1>0, <2>1, <2>2 DEF TypeInv, AutoQueueRx
<1>9. CASE AbortOnDisconnect \/ Cancel
  <2>1. /\ UNCHANGED <<used, credits, posting, qp, submits, toQueue, sendLog, poller, ackHandler>>
        /\ callback' = ClearCallbacks(Range(AbortList))
        /\ status' \in {status, "Disconnected", "OperationCancelled"}
    BY <1>9 DEF AbortOnDisconnect, Cancel, Abort, device, history, Assign
  <2>2. callback' \in [Buffers -> 0 .. submits']
    <3>1. submits' = submits /\ 0 \in 0 .. submits /\ callback \in [Buffers -> 0 .. submits]
      BY <2>1 DEF TypeInv
    <3> QED
      BY <2>1, <3>1 DEF ClearCallbacks
  <2> QED
    BY <1>0, <2>1, <2>2 DEF TypeInv, AutoQueueRx, Errors
<1> QED
  BY <1>1, <1>2, <1>3, <1>4, <1>5, <1>6, <1>7, <1>8, <1>9 DEF Next

-----------------------------------------------------------------------------
(* Credits and the two threads that post                                   *)

\* A buffer waits only while there is no credit, until a credit that is too small ends the
\* ack handler.  So the client and the ack handler never post at the same time.
CreditInv ==
    /\ direction = "Receive" => /\ waiting = <<>> /\ sendLog = <<>>
                                /\ posting["ack"] = NoBuffer /\ ackHandler = "running"
    /\ ackHandler # "running" => posting["ack"] = NoBuffer
    /\ posting["ack"] # NoBuffer => credits = <<>>
    /\ waiting # <<>> /\ credits # <<>> => ackHandler # "running"
    /\ direction = "Send" /\ posting["client"] # NoBuffer
         => waiting = <<>> \/ ackHandler # "running"

LEMMA QueueBufferCredit ==
    ASSUME TypeInv, ListsInv, CreditInv, NEW b \in Buffers, NEW bytes, NEW s,
           posting["client"] = NoBuffer, QueueBuffer(b, bytes, s),
           direction' = direction, ackHandler' = ackHandler
    PROVE  CreditInv'
<1>1. posting \in [Posters -> Buffers \cup {NoBuffer}] /\ direction \in {"Send", "Receive"}
      /\ "client" \in Posters /\ "ack" \in Posters
  BY DEF TypeInv, Posters
<1>2. CASE UNCHANGED <<waiting, credits, posting, sendLog>>
  BY <1>2 DEF CreditInv
<1>3. CASE /\ posting' = [posting EXCEPT !["client"] = b] /\ direction = "Receive"
           /\ UNCHANGED <<waiting, credits, sendLog>>
  <2>1. posting'["ack"] = posting["ack"] /\ posting'["client"] = b
    BY <1>1, <1>3
  <2> QED
    BY <1>3, <2>1 DEF CreditInv
<1>4. CASE direction = "Send" /\ credits = <<>> /\ UNCHANGED <<credits, posting, sendLog>>
  BY <1>4 DEF CreditInv
<1>5. CASE /\ direction = "Send" /\ credits # <<>>
           /\ posting' = [posting EXCEPT !["client"] = b]
           /\ UNCHANGED waiting
  <2>1. posting'["ack"] = posting["ack"] /\ posting'["client"] = b
    BY <1>1, <1>5
  <2>2. posting["ack"] = NoBuffer /\ (waiting # <<>> => ackHandler # "running")
    BY <1>5 DEF CreditInv
  <2> QED
    BY <1>5, <2>1, <2>2 DEF CreditInv
<1> QED
  BY <1>2, <1>3, <1>4, <1>5 DEF QueueBuffer, fifos

LEMMA NextCredit ==
    ASSUME TypeInv, ListsInv, CreditInv, [Next]_vars
    PROVE  CreditInv'
<1>0. direction' = direction /\ direction \in {"Send", "Receive"}
      /\ posting \in [Posters -> Buffers \cup {NoBuffer}]
      /\ "client" \in Posters /\ "ack" \in Posters
  BY KindStays DEF TypeInv, Posters
<1>1. CASE \/ WaitForIdleBuffer \/ WaitForCompletedBuffer \/ WakeUp \/ TimeOut \/ SpuriousWakeUp
           \/ Disconnect \/ PollFails \/ CallAbortCallback \/ UNCHANGED vars
           \/ PostConfigureTake \/ CallCompletionCallback \/ UnknownOpcode
           \/ (\E b \in Buffers : ReleaseBuffer(b))
           \/ (\E failed \in BOOLEAN : HandleCompletion(failed))
  <2>1. UNCHANGED <<credits, posting, sendLog, ackHandler, waiting>>
    BY <1>1 DEF WaitForIdleBuffer, WaitForCompletedBuffer, WakeUp, TimeOut, SpuriousWakeUp,
       Disconnect, PollFails, CallAbortCallback, vars, fifos, history, ReleaseBuffer,
       PostConfigureTake, CallCompletionCallback, UnknownOpcode, HandleCompletion, TakeIdle,
       TakeCompleted
  <2> QED
    BY <1>0, <2>1 DEF CreditInv
<1>2. CASE RecordCreditError \/ AbortOnDisconnect \/ Cancel
  <2>1. /\ UNCHANGED <<credits, posting, sendLog>>
        /\ \/ ackHandler \in Errors /\ ackHandler' = "gone" /\ waiting' = waiting
           \/ ackHandler' = ackHandler /\ waiting' = <<>>
    BY <1>2 DEF RecordCreditError, AbortOnDisconnect, Cancel, Abort, fifos, history
  <2>2. "running" \notin Errors
    BY DEF Errors
  <2> QED
    BY <1>0, <2>1, <2>2 DEF CreditInv
<1>3. ASSUME NEW b \in Buffers, NEW bytes \in Sizes, QueueBufferRegion(b, bytes)
      PROVE  CreditInv'
  <2>1. posting["client"] = NoBuffer /\ ackHandler' = ackHandler
    BY <1>3 DEF QueueBufferRegion, ClientFree
  <2>2. CASE QueueBuffer(b, bytes, submits')
    BY <1>0, <2>1, <2>2, QueueBufferCredit
  <2>3. CASE UNCHANGED <<fifos, credits, status, posting, accepted, sendLog>>
    BY <1>0, <2>1, <2>3 DEF CreditInv, fifos
  <2> QED
    BY <1>3, <2>2, <2>3 DEF QueueBufferRegion, QueueIfConnected
<1>4. ASSUME NEW b \in Buffers, PostConfigureQueue(b) \/ ReleaseReceivedBufferRegion(b)
      PROVE  CreditInv'
  <2>1. posting["client"] = NoBuffer /\ ackHandler' = ackHandler
    BY <1>4 DEF PostConfigureQueue, ReleaseReceivedBufferRegion, ClientFree
  <2>2. CASE QueueBuffer(b, used[b], callback[b])
    BY <1>0, <2>1, <2>2, QueueBufferCredit
  <2>3. CASE UNCHANGED <<credits, posting, sendLog, waiting>>
    BY <1>0, <2>1, <2>3 DEF CreditInv
  <2> QED
    BY <1>4, <2>2, <2>3 DEF PostConfigureQueue, ReleaseReceivedBufferRegion
<1>5. ASSUME NEW w \in Posters, QueueToQp(w)
      PROVE  CreditInv'
  <2>1. /\ UNCHANGED <<credits, sendLog, waiting>> /\ posting[w] # NoBuffer
        /\ posting' = [posting EXCEPT ![w] = NoBuffer]
        /\ ackHandler' = ackHandler \/ (w = "ack" /\ ackHandler' = "PostFailed")
    BY <1>5 DEF QueueToQp, fifos, history
  <2>2. /\ posting'["ack"] \in {posting["ack"], NoBuffer}
        /\ posting'["client"] \in {posting["client"], NoBuffer}
        /\ w = "ack" => posting'["ack"] = NoBuffer
    BY <1>0, <2>1
  <2> QED
    BY <1>0, <2>1, <2>2 DEF CreditInv
<1>6. ASSUME NEW bytes \in Sizes, AddCredit(bytes)
      PROVE  CreditInv'
  <2>1. direction = "Send" /\ ackHandler = "running" /\ posting["ack"] = NoBuffer
    BY <1>6 DEF AddCredit
  <2>2. CASE waiting = <<>> /\ UNCHANGED <<queued, waiting, posting, ackHandler, sendLog>>
    BY <1>0, <2>1, <2>2 DEF CreditInv
  <2>3. CASE ackHandler' = "SendTooLarge" /\ UNCHANGED <<queued, waiting, posting, sendLog>>
    BY <1>0, <2>1, <2>3 DEF CreditInv
  <2>4. CASE /\ waiting # <<>> /\ credits' = PopCredit(Append(credits, bytes))
             /\ posting' = [posting EXCEPT !["ack"] = Head(waiting)]
             /\ UNCHANGED ackHandler
    <3>1. credits = <<>> /\ posting["client"] = NoBuffer
      BY <2>1, <2>4 DEF CreditInv
    <3>2. credits' = <<>>
      BY <2>4, <3>1 DEF PopCredit
    <3>3. posting'["client"] = NoBuffer
      BY <1>0, <2>4, <3>1
    <3> QED
      BY <1>0, <2>1, <2>4, <3>2, <3>3 DEF CreditInv
  <2> QED
    BY <1>6, <2>2, <2>3, <2>4 DEF AddCredit
<1> QED
  BY <1>1, <1>2, <1>3, <1>4, <1>5, <1>6 DEF Next

-----------------------------------------------------------------------------
(* Waiting threads                                                         *)

\* Senders wait for idle buffers, receivers for completed ones, so that every completion
\* notifies the thread that sleeps.
SleepInv ==
    /\ waiter \in {"none", "idle", "completed", "polling"}
    /\ waiter = "idle" => PutBackToIdle
    /\ waiter \in {"completed", "polling"} => ~PutBackToIdle
    /\ asleep => waiter \in {"idle", "completed"} /\ ~usePolling
    /\ SleepsForAReason

\* While a thread sleeps, a submission leaves it a reason to.
LEMMA QueueBufferSleeps ==
    ASSUME SleepInv, TypeInv, NEW b, NEW bytes, NEW s, QueueBuffer(b, bytes, s),
           UNCHANGED <<kind, wait>>
    PROVE  SleepInv'
<1>1. PutBackToIdle' = PutBackToIdle /\ UNCHANGED <<waiter, asleep, released, direction, usePolling>>
  BY DEF PutBackToIdle, kind, wait
<1>2. /\ idle' = idle /\ completed' = completed
      /\ queued' = queued \/ queued' = Append(queued, b)
      /\ status' = status \/ (direction = "Send" /\ status' = "SendTooLarge")
  BY DEF QueueBuffer, fifos
<1>3. queued # <<>> => queued' # <<>>
  BY <1>2
<1> QED
  BY <1>1, <1>2, <1>3 DEF SleepInv, SleepsForAReason

LEMMA NextSleep ==
    ASSUME TypeInv, ListsInv, CreditInv, SleepInv, [Next]_vars
    PROVE  SleepInv'
<1>0. /\ direction' = direction /\ usePolling' = usePolling /\ PutBackToIdle' = PutBackToIdle
      /\ AutoQueueRx <=> ~PutBackToIdle
      /\ usePolling => ~PutBackToIdle
  BY KindStays DEF TypeInv, PutBackToIdle, AutoQueueRx
<1>1. CASE WaitForIdleBuffer
  <2>1. /\ waiter = "none" /\ PutBackToIdle /\ status' = status
        /\ \/ UNCHANGED <<waiter, asleep, released>>
           \/ /\ status = "ok" /\ idle = <<>> /\ waiter' = "idle" /\ asleep' /\ ~released'
              /\ idle' = idle
    BY <1>0, <1>1 DEF WaitForIdleBuffer, wait, fifos
  <2> QED
    BY <1>0, <2>1 DEF SleepInv, SleepsForAReason
<1>2. CASE WaitForCompletedBuffer
  <2>1. /\ waiter = "none" /\ ~PutBackToIdle /\ status' = status
        /\ \/ UNCHANGED <<waiter, asleep, released>>
           \/ /\ status = "ok" /\ completed = <<>> /\ (queued # <<>> \/ waiting # <<>>)
              /\ \/ usePolling /\ waiter' = "polling" /\ ~asleep'
                 \/ ~usePolling /\ waiter' = "completed"
              /\ completed' = completed /\ queued' = queued
    BY <1>2 DEF WaitForCompletedBuffer, wait, fifos
  <2>2. waiting = <<>>
    BY <2>1 DEF CreditInv, TypeInv, PutBackToIdle
  <2> QED
    BY <1>0, <2>1, <2>2 DEF SleepInv, SleepsForAReason
<1>3. CASE WakeUp \/ TimeOut \/ SpuriousWakeUp
  <2>1. /\ waiter' \in {"none", waiter} /\ ~asleep'
    BY <1>3 DEF WakeUp, TimeOut, SpuriousWakeUp
  <2> QED
    BY <1>0, <2>1 DEF SleepInv, SleepsForAReason
<1>4. CASE \/ (\E w \in Posters : QueueToQp(w)) \/ Disconnect \/ CallAbortCallback
           \/ UNCHANGED vars
  <2>1. UNCHANGED <<waiter, asleep, released, status, idle, queued, completed>>
    BY <1>4 DEF QueueToQp, Disconnect, CallAbortCallback, vars, wait, fifos
  <2> QED
    BY <1>0, <2>1 DEF SleepInv, SleepsForAReason
<1>5. CASE PostConfigureTake
  <2>1. /\ UNCHANGED <<waiter, asleep, released, status, queued, completed>>
        /\ idle' = idle \/ idle # <<>>
    BY <1>5 DEF PostConfigureTake, wait, fifos, TakeIdle
  <2> QED
    BY <1>0, <2>1 DEF SleepInv, SleepsForAReason
<1>6. ASSUME NEW b \in Buffers, NEW bytes \in Sizes, QueueBufferRegion(b, bytes)
      PROVE  SleepInv'
  <2>1. UNCHANGED <<kind, wait>>
    BY <1>6 DEF QueueBufferRegion
  <2>2. CASE QueueBuffer(b, bytes, submits')
    BY <2>1, <2>2, QueueBufferSleeps
  <2>3. CASE UNCHANGED <<fifos, credits, status, posting, accepted, sendLog>>
    BY <1>0, <2>1, <2>3 DEF SleepInv, SleepsForAReason, fifos, wait
  <2> QED
    BY <1>6, <2>2, <2>3 DEF QueueBufferRegion, QueueIfConnected
<1>7. ASSUME NEW b \in Buffers, PostConfigureQueue(b) \/ ReleaseReceivedBufferRegion(b)
      PROVE  SleepInv'
  <2>1. UNCHANGED <<kind, wait>>
    BY <1>7 DEF PostConfigureQueue, ReleaseReceivedBufferRegion
  <2>2. CASE QueueBuffer(b, used[b], callback[b])
    BY <2>1, <2>2, QueueBufferSleeps
  <2>3. CASE ReleaseReceivedBufferRegion(b) /\ UNCHANGED <<queued, completed, status>>
    <3>1. ~PutBackToIdle
      BY <1>0, <2>3 DEF ReleaseReceivedBufferRegion
    <3> QED
      BY <1>0, <2>1, <2>3, <3>1 DEF SleepInv, SleepsForAReason, wait
  <2> QED
    BY <1>7, <2>2, <2>3 DEF PostConfigureQueue, ReleaseReceivedBufferRegion
<1>8. ASSUME NEW b \in Buffers, ReleaseBuffer(b)
      PROVE  SleepInv'
  <2>1. released' = asleep /\ UNCHANGED <<waiter, asleep, status, queued, completed>>
    BY <1>8 DEF ReleaseBuffer
  <2> QED
    BY <1>0, <2>1 DEF SleepInv, SleepsForAReason
<1>9. CASE (\E bytes \in Sizes : AddCredit(bytes)) \/ RecordCreditError
  <2>1. /\ UNCHANGED <<waiter, asleep, released, idle, completed>>
        /\ queued' = queued \/ \E b : queued' = Append(queued, b)
        /\ \/ status' = status
           \/ ackHandler \in Errors /\ status = "ok" /\ status' = ackHandler
    BY <1>9 DEF AddCredit, RecordCreditError, wait, fifos, Assign
  <2>2. queued # <<>> => queued' # <<>>
    BY <2>1
  <2>3. ackHandler \in Errors => ackHandler \in {"SendTooLarge", "PostFailed"} /\ direction = "Send"
    BY DEF Errors, TypeInv, CreditInv
  <2> QED
    BY <1>0, <2>1, <2>2, <2>3 DEF SleepInv, SleepsForAReason
<1>10. ASSUME NEW failed \in BOOLEAN, HandleCompletion(failed)
       PROVE  SleepInv'
  <2>1. CASE /\ UNCHANGED <<fifos, status, asleep>>
             /\ waiter' = waiter \/ (usePolling /\ waiter' = "none")
    <3>1. released' = released
      BY <1>10 DEF HandleCompletion
    <3> QED
      BY <1>0, <2>1, <3>1 DEF SleepInv, SleepsForAReason, fifos
  <2>2. CASE /\ waiter' = waiter
             /\ \/ PutBackToIdle /\ Notify("idle")
                \/ ~PutBackToIdle /\ Notify("completed")
    <3>1. ~asleep'
      BY <2>2 DEF SleepInv, Notify
    <3> QED
      BY <1>0, <2>2, <3>1 DEF SleepInv, SleepsForAReason
  <2> QED
    BY <1>10, <2>1, <2>2 DEF HandleCompletion, PollerThrows
<1>11. CASE UnknownOpcode \/ PollFails \/ CallCompletionCallback
  <2>1. /\ UNCHANGED <<fifos, status, asleep, released>>
        /\ \/ waiter' = waiter
           \/ waiter' = "none" /\ (usePolling \/ waiter = "polling")
           \/ usePolling /\ waiter' = "completed"
    BY <1>11 DEF UnknownOpcode, PollFails, CallCompletionCallback, PollerThrows
  <2> QED
    BY <1>0, <2>1 DEF SleepInv, SleepsForAReason, fifos
<1>12. CASE AbortOnDisconnect \/ Cancel
  <2>1. ~asleep' /\ waiter' = waiter
    BY <1>12 DEF AbortOnDisconnect, Cancel, Abort
  <2> QED
    BY <1>0, <2>1 DEF SleepInv, SleepsForAReason
<1> QED
  BY <1>1, <1>2, <1>3, <1>4, <1>5, <1>6, <1>7, <1>8, <1>9, <1>10, <1>11, <1>12 DEF Next

-----------------------------------------------------------------------------
(* The queue pair                                                          *)

\* The buffer that is queued and not yet in the queue pair
Posted ==
    IF posting["client"] # NoBuffer THEN <<posting["client"]>>
    ELSE IF posting["ack"] # NoBuffer THEN <<posting["ack"]>> ELSE <<>>

\* Until an abort the work requests are of queued buffers, and as long as none was refused
\* or not handled they are of all of them, in order, but for the one being posted.
DeviceInv ==
    /\ posting["client"] = NoBuffer \/ posting["ack"] = NoBuffer
    /\ ~aborted =>
          /\ IsList(qp) /\ Range(qp) \subseteq Range(queued)
          /\ \A w \in Posters :
                posting[w] # NoBuffer => posting[w] \in Range(queued) \ Range(qp)
    /\ ~aborted /\ ~orphaned /\ poller # "gone" => queued = qp \o Posted

\* A thread puts a buffer in queuedBuffers and will post it.
LEMMA PostingStarts ==
    ASSUME TypeInv, ListsInv, DeviceInv, NEW w \in Posters, NEW b \in Buffers,
           posting["client"] = NoBuffer, posting["ack"] = NoBuffer,
           b \notin Range(queued), queued' = Append(queued, b),
           posting' = [posting EXCEPT ![w] = b],
           UNCHANGED <<qp, aborted, orphaned, poller>>
    PROVE  DeviceInv'
<1>1. posting \in [Posters -> Buffers \cup {NoBuffer}] /\ Posters = {"client", "ack"}
      /\ NoBuffer \notin Buffers
  BY BufferQueueAssumption DEF TypeInv, Posters
<1>2. posting'[w] = b /\ \A v \in Posters \ {w} : posting'[v] = NoBuffer
  BY <1>1
<1>3. IsList(queued) /\ Range(queued') = Range(queued) \cup {b}
  BY AppendList DEF ListsInv
<1>4. ASSUME ~aborted
      PROVE  /\ IsList(qp) /\ Range(qp) \subseteq Range(queued')
             /\ \A v \in Posters :
                   posting'[v] # NoBuffer => posting'[v] \in Range(queued') \ Range(qp)
  BY <1>2, <1>3, <1>4 DEF DeviceInv
<1>5. ASSUME ~aborted, ~orphaned, poller # "gone"
      PROVE  queued' = qp \o Posted'
  <2>1. queued = qp \o <<>>
    BY <1>5 DEF DeviceInv, Posted
  <2>2. qp \in Seq(Buffers)
    BY DEF TypeInv
  <2>3. queued = qp
    BY <2>1, <2>2, ConcatEmptySeq
  <2>4. Posted' = <<b>>
    BY <1>1, <1>2 DEF Posted
  <2> QED
    BY <2>2, <2>3, <2>4, AppendIsConcat
<1> QED
  BY <1>1, <1>2, <1>4, <1>5 DEF DeviceInv

\* It posts it, or the queue pair is full.
LEMMA PostingEnds ==
    ASSUME TypeInv, DeviceInv, NEW w \in Posters, posting[w] # NoBuffer,
           posting' = [posting EXCEPT ![w] = NoBuffer],
           \/ qp' = Append(qp, posting[w]) /\ orphaned' = orphaned
           \/ qp' = qp /\ orphaned',
           UNCHANGED <<queued, aborted, poller>>
    PROVE  DeviceInv'
<1>1. posting \in [Posters -> Buffers \cup {NoBuffer}] /\ Posters = {"client", "ack"}
      /\ NoBuffer \notin Buffers
  BY BufferQueueAssumption DEF TypeInv, Posters
<1>2. PICK b \in Buffers : posting[w] = b
  BY <1>1
<1>3. \A v \in Posters : posting'[v] = NoBuffer
  BY <1>1 DEF DeviceInv
<1>4. ASSUME ~aborted
      PROVE  IsList(qp') /\ Range(qp') \subseteq Range(queued)
  <2>1. IsList(qp) /\ b \in Range(queued) \ Range(qp) /\ Range(qp) \subseteq Range(queued)
    BY <1>2, <1>4 DEF DeviceInv
  <2> QED
    BY <1>2, <2>1, AppendList
<1>5. ASSUME ~aborted, ~orphaned', poller # "gone"
      PROVE  queued = qp' \o Posted'
  <2>1. ~orphaned /\ qp' = Append(qp, b)
    BY <1>2, <1>5
  <2>2. Posted = <<b>> /\ Posted' = <<>>
    BY <1>1, <1>2, <1>3 DEF Posted, DeviceInv
  <2>3. queued = qp \o <<b>>
    BY <1>5, <2>1, <2>2 DEF DeviceInv
  <2>4. qp \in Seq(Buffers)
    BY DEF TypeInv
  <2>5. queued = Append(qp, b) /\ Append(qp, b) \in Seq(Buffers)
    BY <2>3, <2>4, AppendIsConcat, AppendProperties
  <2> QED
    BY <2>1, <2>2, <2>5, ConcatEmptySeq
<1> QED
  BY <1>1, <1>3, <1>4, <1>5 DEF DeviceInv

\* The oldest work request is that of the oldest queued buffer.
LEMMA OldestFirst ==
    ASSUME TypeInv, DeviceInv, ~aborted, ~orphaned, poller # "gone", qp # <<>>
    PROVE  /\ queued # <<>> /\ Head(queued) = Head(qp)
           /\ Tail(queued) = Tail(qp) \o Posted
<1>1. qp \in Seq(Buffers) /\ Posted \in Seq(Buffers)
  BY DEF TypeInv, Posted, Posters
<1>2. queued = qp \o Posted
  BY DEF DeviceInv
<1>3. Head(qp \o Posted) = Head(qp) /\ Tail(qp \o Posted) = Tail(qp) \o Posted /\ qp \o Posted # <<>>
  BY <1>1, ConcatSimplifications
<1> QED
  BY <1>2, <1>3

\* QueueBuffer begins to post, if it queues.
LEMMA QueueBufferDevice ==
    ASSUME TypeInv, ListsInv, CreditInv, DeviceInv, NEW b \in Buffers, NEW bytes, NEW s,
           posting["client"] = NoBuffer, QueueBuffer(b, bytes, s),
           UNCHANGED <<qp, aborted, orphaned, poller>>
    PROVE  DeviceInv'
<1>1. CASE UNCHANGED <<queued, posting>>
  BY <1>1 DEF DeviceInv, Posted
<1>2. CASE /\ b \in user /\ queued' = Append(queued, b)
           /\ posting' = [posting EXCEPT !["client"] = b]
           /\ direction = "Receive" \/ credits # <<>>
  <2>1. posting["ack"] = NoBuffer
    BY <1>2 DEF CreditInv
  <2>2. b \notin Range(queued)
    BY <1>2 DEF ListsInv, Partition
  <2>3. "client" \in Posters
    BY DEF Posters
  <2> QED
    BY <1>2, <2>1, <2>2, <2>3, PostingStarts
<1> QED
  BY <1>1, <1>2 DEF QueueBuffer, MayQueue, fifos

LEMMA NextDevice ==
    ASSUME TypeInv, ListsInv, CreditInv, DeviceInv, [Next]_vars
    PROVE  DeviceInv'
<1>1. CASE \/ WaitForIdleBuffer \/ WaitForCompletedBuffer \/ WakeUp \/ TimeOut \/ SpuriousWakeUp
           \/ Disconnect \/ PollFails \/ CallAbortCallback \/ UNCHANGED vars
           \/ PostConfigureTake \/ RecordCreditError \/ CallCompletionCallback
           \/ (\E b \in Buffers : ReleaseBuffer(b))
  <2>1. /\ UNCHANGED <<posting, qp, queued, aborted, orphaned>>
        /\ poller' = poller \/ poller = "call"
    BY <1>1 DEF WaitForIdleBuffer, WaitForCompletedBuffer, WakeUp, TimeOut, SpuriousWakeUp,
       Disconnect, PollFails, CallAbortCallback, vars, fifos, device, ReleaseBuffer,
       PostConfigureTake, RecordCreditError, CallCompletionCallback, TakeIdle, TakeCompleted
  <2> QED
    BY <2>1 DEF DeviceInv, Posted
<1>2. ASSUME NEW b \in Buffers, NEW bytes \in Sizes, QueueBufferRegion(b, bytes)
      PROVE  DeviceInv'
  <2>1. posting["client"] = NoBuffer /\ UNCHANGED <<qp, aborted, orphaned, poller>>
    BY <1>2 DEF QueueBufferRegion, ClientFree, device
  <2>2. CASE QueueBuffer(b, bytes, submits')
    BY <2>1, <2>2, QueueBufferDevice
  <2>3. CASE UNCHANGED <<fifos, credits, status, posting, accepted, sendLog>>
    BY <2>1, <2>3 DEF DeviceInv, Posted, fifos
  <2> QED
    BY <1>2, <2>2, <2>3 DEF QueueBufferRegion, QueueIfConnected
<1>3. ASSUME NEW b \in Buffers, PostConfigureQueue(b) \/ ReleaseReceivedBufferRegion(b)
      PROVE  DeviceInv'
  <2>1. posting["client"] = NoBuffer /\ UNCHANGED <<qp, aborted, orphaned, poller>>
    BY <1>3 DEF PostConfigureQueue, ReleaseReceivedBufferRegion, ClientFree, device
  <2>2. CASE QueueBuffer(b, used[b], callback[b])
    BY <2>1, <2>2, QueueBufferDevice
  <2>3. CASE UNCHANGED <<queued, posting>>
    BY <2>1, <2>3 DEF DeviceInv, Posted
  <2> QED
    BY <1>3, <2>2, <2>3 DEF PostConfigureQueue, ReleaseReceivedBufferRegion
<1>4. ASSUME NEW w \in Posters, QueueToQp(w)
      PROVE  DeviceInv'
  <2>1. /\ posting[w] # NoBuffer /\ posting' = [posting EXCEPT ![w] = NoBuffer]
        /\ \/ qp' = Append(qp, posting[w]) /\ orphaned' = orphaned
           \/ qp' = qp /\ orphaned'
        /\ UNCHANGED <<queued, aborted, poller>>
    BY <1>4 DEF QueueToQp, fifos
  <2> QED
    BY <2>1, PostingEnds
<1>5. ASSUME NEW bytes \in Sizes, AddCredit(bytes)
      PROVE  DeviceInv'
  <2>1. UNCHANGED <<qp, aborted, orphaned, poller>>
    BY <1>5 DEF AddCredit, device
  <2>2. CASE UNCHANGED <<queued, posting>>
    BY <2>1, <2>2 DEF DeviceInv, Posted
  <2>3. CASE /\ waiting # <<>> /\ queued' = Append(queued, Head(waiting))
             /\ posting' = [posting EXCEPT !["ack"] = Head(waiting)]
    <3>1. posting["client"] = NoBuffer /\ posting["ack"] = NoBuffer
      BY <1>5, <2>3 DEF AddCredit, CreditInv
    <3>2. Head(waiting) \in Buffers /\ Head(waiting) \in Range(waiting)
      BY <2>3, TailList DEF ListsInv
    <3>3. Head(waiting) \notin Range(queued) /\ "ack" \in Posters
      BY <3>2 DEF ListsInv, Partition, Posters
    <3> QED
      BY <2>1, <2>3, <3>1, <3>2, <3>3, PostingStarts
  <2> QED
    BY <1>5, <2>2, <2>3 DEF AddCredit
<1>6. ASSUME NEW failed \in BOOLEAN, HandleCompletion(failed)
      PROVE  DeviceInv'
  <2>1. /\ UNCHANGED <<posting, aborted, orphaned>> /\ poller = "poll"
        /\ qp # <<>> /\ qp' = Tail(qp)
    BY <1>6 DEF HandleCompletion, MayPoll
  <2>2. CASE aborted
    BY <2>1, <2>2 DEF DeviceInv
  <2>3. CASE ~aborted
    <3>1. /\ IsList(qp') /\ Range(qp') = Range(qp) \ {Head(qp)} /\ Head(qp) \in Range(qp)
          /\ Range(qp) \subseteq Range(queued)
          /\ \A v \in Posters :
                posting[v] # NoBuffer => posting[v] \in Range(queued) \ Range(qp)
      BY <2>1, <2>3, TailList DEF DeviceInv
    <3>2. CASE queued # <<>> /\ Head(qp) = Head(queued) /\ queued' = Tail(queued)
      <4>1. Range(queued') = Range(queued) \ {Head(qp)}
        BY <3>2, TailList DEF ListsInv
      <4>2. ~orphaned => queued' = qp' \o Posted'
        <5>1. Posted' = Posted
          BY <2>1 DEF Posted
        <5> QED
          BY <2>1, <2>3, <3>2, <5>1, OldestFirst
      <4> QED
        BY <2>1, <3>1, <4>1, <4>2 DEF DeviceInv
    <3>3. CASE queued # <<>> /\ Head(qp) # Head(queued) /\ queued' = queued
      <4>1. orphaned
        BY <2>1, <2>3, <3>3, OldestFirst
      <4> QED
        BY <2>1, <3>1, <3>3, <4>1 DEF DeviceInv
    <3> QED
      BY <1>6, <2>3, <3>2, <3>3 DEF HandleCompletion, fifos
  <2> QED
    BY <2>2, <2>3
<1>7. CASE UnknownOpcode
  <2>1. /\ UNCHANGED <<posting, aborted, queued>>
        /\ qp # <<>> /\ qp' = Tail(qp)
        /\ orphaned' \/ poller' = "gone"
    BY <1>7 DEF UnknownOpcode, PollerThrows, fifos
  <2>2. ~aborted => IsList(qp') /\ Range(qp') \subseteq Range(qp)
    BY <2>1, TailList DEF DeviceInv
  <2> QED
    BY <2>1, <2>2 DEF DeviceInv
<1>8. CASE AbortOnDisconnect \/ Cancel
  <2>1. aborted' /\ UNCHANGED posting
    BY <1>8 DEF AbortOnDisconnect, Cancel, Abort
  <2> QED
    BY <2>1 DEF DeviceInv
<1> QED
  BY <1>1, <1>2, <1>3, <1>4, <1>5, <1>6, <1>7, <1>8 DEF Next

-----------------------------------------------------------------------------
(* The order of sends                                                      *)

\* PostConfigure queues receive buffers, before any submission.
ConfigureInv == toQueue > 0 => AutoQueueRx /\ submits = 0

LEMMA NextConfigure ==
    ASSUME TypeInv, ConfigureInv, [Next]_vars
    PROVE  ConfigureInv'
<1>1. AutoQueueRx' = AutoQueueRx /\ toQueue \in Nat
  BY KindStays DEF AutoQueueRx, TypeInv
<1>2. ASSUME NEW b \in Buffers, NEW bytes \in Sizes, QueueBufferRegion(b, bytes)
      PROVE  toQueue' = 0
  BY <1>2 DEF QueueBufferRegion, ClientFree
<1>3. \/ toQueue' = 0
      \/ toQueue' = toQueue - 1 /\ toQueue > 0 /\ submits' = submits
      \/ toQueue' = toQueue /\ submits' = submits
  BY <1>1, <1>2 DEF Next, vars, history, WaitForIdleBuffer, WaitForCompletedBuffer, WakeUp,
     TimeOut, SpuriousWakeUp, ReleaseBuffer, ReleaseReceivedBufferRegion,
     PostConfigureTake, PostConfigureQueue, QueueToQp, AddCredit, RecordCreditError,
     HandleCompletion, UnknownOpcode, PollFails, CallCompletionCallback, Disconnect,
     AbortOnDisconnect, Cancel, Abort, CallAbortCallback
<1> QED
  BY <1>1, <1>3 DEF ConfigureInv

Increasing(s) == \A m, n \in DOMAIN s : m < n => s[m] < s[n]

\* The buffers that wait are later submissions than those sent, and wait in order.
SendInv ==
    ~strayed =>
        /\ Increasing(sendLog)
        /\ \A m \in DOMAIN sendLog : sendLog[m] <= submits
        /\ \A i, j \in DOMAIN waiting : i < j => callback[waiting[i]] < callback[waiting[j]]
        /\ ackHandler = "running" =>
              \A m \in DOMAIN sendLog, b \in Range(waiting) : sendLog[m] < callback[b]

\* A later submission at the end of an increasing log
LEMMA AppendIncreasing ==
    ASSUME NEW s \in Seq(Nat), NEW x \in Nat, Increasing(s), \A m \in DOMAIN s : s[m] < x
    PROVE  /\ Increasing(Append(s, x))
           /\ \A m \in DOMAIN Append(s, x) : Append(s, x)[m] = x \/ \E k \in DOMAIN s : Append(s, x)[m] = s[k]
<1>1. Len(s) \in Nat /\ DOMAIN s = 1 .. Len(s)
  OBVIOUS
<1>2. /\ DOMAIN Append(s, x) = 1 .. Len(s) + 1 /\ Append(s, x)[Len(s) + 1] = x
      /\ \A m \in 1 .. Len(s) : Append(s, x)[m] = s[m]
  BY AppendProperties
<1>3. \A m \in 1 .. Len(s) : s[m] \in Nat
  BY <1>1
<1>4. Increasing(Append(s, x))
  <2> SUFFICES ASSUME NEW m \in 1 .. Len(s) + 1, NEW n \in 1 .. Len(s) + 1, m < n
               PROVE  Append(s, x)[m] < Append(s, x)[n]
    BY <1>2 DEF Increasing
  <2>1. m \in 1 .. Len(s) /\ Append(s, x)[m] = s[m]
    BY <1>1, <1>2
  <2>2. CASE n = Len(s) + 1
    BY <1>1, <1>2, <2>1, <2>2
  <2>3. CASE n \in 1 .. Len(s)
    <3>1. s[m] < s[n]
      BY <1>1, <2>1, <2>3 DEF Increasing
    <3> QED
      BY <1>2, <2>1, <2>3, <3>1
  <2> QED
    BY <1>1, <2>2, <2>3
<1> QED
  BY <1>1, <1>2, <1>4

\* A step that neither sends nor lets wait
LEMMA SendSame ==
    ASSUME SendInv, ListsInv, sendLog' = sendLog, waiting' = waiting \/ waiting' = <<>>,
           \A b \in Range(waiting) : callback'[b] = callback[b],
           ackHandler' = "running" => ackHandler = "running",
           ~strayed' => ~strayed, submits' \in {submits, submits + 1}, submits \in Nat,
           sendLog \in Seq(Nat)
    PROVE  SendInv'
<1> SUFFICES ASSUME ~strayed'
             PROVE  /\ Increasing(sendLog)
                    /\ \A m \in DOMAIN sendLog : sendLog[m] <= submits'
                    /\ \A i, j \in DOMAIN waiting' :
                          i < j => callback'[waiting'[i]] < callback'[waiting'[j]]
                    /\ ackHandler' = "running" =>
                          \A m \in DOMAIN sendLog, b \in Range(waiting') : sendLog[m] < callback'[b]
  BY DEF SendInv
<1>1. ~strayed
  OBVIOUS
<1>2. Increasing(sendLog) /\ \A m \in DOMAIN sendLog : sendLog[m] <= submits'
  <2>1. \A m \in DOMAIN sendLog : sendLog[m] \in Nat /\ sendLog[m] <= submits
    BY <1>1 DEF SendInv
  <2> QED
    BY <1>1, <2>1 DEF SendInv
<1>3. CASE waiting' = <<>>
  BY <1>2, <1>3, EmptyList
<1>4. CASE waiting' = waiting
  <2>1. \A i \in DOMAIN waiting : waiting[i] \in Range(waiting)
    BY DEF Range
  <2>2. \A i, j \in DOMAIN waiting : i < j => callback'[waiting[i]] < callback'[waiting[j]]
    BY <1>1, <2>1 DEF SendInv
  <2>3. ackHandler' = "running" =>
           \A m \in DOMAIN sendLog, b \in Range(waiting) : sendLog[m] < callback'[b]
    BY <1>1 DEF SendInv
  <2> QED
    BY <1>2, <1>4, <2>2, <2>3
<1> QED
  BY <1>3, <1>4

\* A submission goes ahead, or waits behind all others.
LEMMA SubmissionOrder ==
    ASSUME TypeInv, ListsInv, CreditInv, SendInv, NEW b \in user, NEW bytes \in Sizes,
           QueueBufferRegion(b, bytes)
    PROVE  SendInv'
<1>1. /\ submits' = submits + 1 /\ submits \in Nat /\ ~strayed /\ b \in Buffers
      /\ callback' = [callback EXCEPT ![b] = submits + 1] /\ ackHandler' = ackHandler
      /\ callback \in [Buffers -> 0 .. submits] /\ sendLog \in Seq(Nat)
      /\ b \notin Range(waiting)
  BY DEF QueueBufferRegion, SetCompletionCallback, TypeInv, ListsInv, Partition
<1>2. Range(waiting) \subseteq Buffers
  BY DEF ListsInv, Partition
<1>3. \A c \in Range(waiting) : callback'[c] = callback[c] /\ callback[c] \in 0 .. submits
  BY <1>1, <1>2
<1>4. CASE sendLog' = sendLog /\ waiting' = waiting
  BY <1>1, <1>3, <1>4, SendSame
<1>5. CASE direction = "Send" /\ credits # <<>> /\ sendLog' = Append(sendLog, submits + 1)
           /\ waiting' = waiting
  <2>1. waiting # <<>> => ackHandler # "running"
    BY <1>5 DEF CreditInv
  <2>2. /\ Increasing(sendLog) /\ \A m \in DOMAIN sendLog : sendLog[m] \in Nat /\ sendLog[m] <= submits
    BY <1>1 DEF SendInv
  <2>3. \A m \in DOMAIN sendLog : sendLog[m] < submits + 1
    BY <1>1, <2>2
  <2>4. /\ Increasing(sendLog')
        /\ \A m \in DOMAIN sendLog' :
              sendLog'[m] = submits + 1 \/ \E k \in DOMAIN sendLog : sendLog'[m] = sendLog[k]
    <3>1. submits + 1 \in Nat
      BY <1>1
    <3> QED
      BY <1>1, <1>5, <2>2, <2>3, <3>1, AppendIncreasing
  <2>5. \A m \in DOMAIN sendLog' : sendLog'[m] <= submits'
    BY <1>1, <2>2, <2>4
  <2>6. \A i \in DOMAIN waiting : waiting[i] \in Range(waiting)
    BY DEF Range
  <2>7. \A i, j \in DOMAIN waiting : i < j => callback'[waiting[i]] < callback'[waiting[j]]
    BY <1>1, <1>3, <2>6 DEF SendInv
  <2>8. ackHandler' = "running" => Range(waiting') = {}
    BY <1>1, <1>5, <2>1, EmptyList
  <2> QED
    BY <1>5, <2>4, <2>5, <2>7, <2>8 DEF SendInv
<1>6. CASE waiting' = Append(waiting, b) /\ sendLog' = sendLog
  <2>1. waiting \in Seq(Buffers) /\ Len(waiting) \in Nat /\ DOMAIN waiting = 1 .. Len(waiting)
    BY DEF ListsInv, IsList
  <2>2. /\ DOMAIN waiting' = 1 .. Len(waiting) + 1 /\ waiting'[Len(waiting) + 1] = b
        /\ \A i \in 1 .. Len(waiting) : waiting'[i] = waiting[i]
    BY <1>1, <1>6, <2>1, AppendProperties
  <2>3. Range(waiting') = Range(waiting) \cup {b}
    BY <1>1, <1>6, AppendList DEF ListsInv
  <2>4. callback'[b] = submits + 1
    BY <1>1
  <2>5. \A m \in DOMAIN sendLog : sendLog[m] \in Nat /\ sendLog[m] <= submits
    BY <1>1 DEF SendInv
  <2>6. \A m \in DOMAIN sendLog : sendLog[m] <= submits'
    BY <1>1, <2>5
  <2>7. ASSUME NEW i \in DOMAIN waiting', NEW j \in DOMAIN waiting', i < j
        PROVE  callback'[waiting'[i]] < callback'[waiting'[j]]
    <3>1. i \in 1 .. Len(waiting) /\ waiting'[i] = waiting[i] /\ waiting[i] \in Range(waiting)
      BY <2>1, <2>2, <2>7 DEF Range
    <3>2. CASE j = Len(waiting) + 1
      <4>1. callback'[waiting'[i]] \in 0 .. submits /\ callback'[waiting'[j]] = submits + 1
        BY <1>3, <2>2, <2>4, <3>1, <3>2
      <4> QED
        BY <1>1, <4>1
    <3>3. CASE j \in 1 .. Len(waiting)
      <4>1. waiting'[j] = waiting[j] /\ waiting[j] \in Range(waiting)
        BY <2>1, <2>2, <3>3 DEF Range
      <4>2. callback[waiting[i]] < callback[waiting[j]]
        BY <1>1, <2>1, <2>7, <3>1, <3>3 DEF SendInv
      <4> QED
        BY <1>3, <3>1, <4>1, <4>2
    <3> QED
      BY <2>1, <2>2, <2>7, <3>2, <3>3
  <2>8. ASSUME ackHandler = "running", NEW m \in DOMAIN sendLog, NEW c \in Range(waiting')
        PROVE  sendLog[m] < callback'[c]
    <3>1. CASE c = b
      BY <1>1, <2>4, <2>5, <3>1
    <3>2. CASE c \in Range(waiting)
      BY <1>1, <1>3, <2>8, <3>2 DEF SendInv
    <3> QED
      BY <2>3, <3>1, <3>2
  <2> QED
    BY <1>1, <1>6, <2>6, <2>7, <2>8 DEF SendInv
<1> QED
  BY <1>1, <1>4, <1>5, <1>6 DEF QueueBufferRegion, QueueIfConnected, QueueBuffer, fifos

\* The oldest waiting buffer goes ahead with a new credit.
LEMMA CreditOrder ==
    ASSUME TypeInv, ListsInv, SendInv, ~strayed, ackHandler = "running",
           waiting # <<>>, waiting' = Tail(waiting),
           sendLog' = Append(sendLog, callback[Head(waiting)]),
           UNCHANGED <<callback, submits, strayed>>
    PROVE  SendInv'
<1>1. /\ waiting \in Seq(Buffers) /\ Len(waiting) \in Nat \ {0}
      /\ DOMAIN waiting = 1 .. Len(waiting)
      /\ Head(waiting) = waiting[1] /\ DOMAIN Tail(waiting) = 1 .. Len(waiting) - 1
      /\ \A i \in 1 .. Len(waiting) - 1 : Tail(waiting)[i] = waiting[i + 1]
  BY DEF ListsInv, IsList
<1>2. PICK x : x = callback[Head(waiting)]
  OBVIOUS
<1>3. Head(waiting) \in Range(waiting) /\ Head(waiting) \in Buffers
  BY TailList DEF ListsInv
<1>4. x \in 0 .. submits /\ submits \in Nat /\ sendLog \in Seq(Nat)
  BY <1>2, <1>3 DEF TypeInv
<1>5. /\ Increasing(sendLog) /\ \A m \in DOMAIN sendLog : sendLog[m] \in Nat /\ sendLog[m] <= submits
      /\ \A m \in DOMAIN sendLog : sendLog[m] < x
  BY <1>2, <1>3, <1>4 DEF SendInv
<1>6. /\ Increasing(sendLog')
      /\ \A m \in DOMAIN sendLog' :
            sendLog'[m] = x \/ \E k \in DOMAIN sendLog : sendLog'[m] = sendLog[k]
  BY <1>2, <1>4, <1>5, AppendIncreasing
<1>7. \A m \in DOMAIN sendLog' : sendLog'[m] <= submits
  BY <1>4, <1>5, <1>6
<1>8. \A i, j \in 1 .. Len(waiting) : i < j => callback[waiting[i]] < callback[waiting[j]]
  BY <1>1 DEF SendInv
<1>9. \A i, j \in DOMAIN waiting' : i < j => callback[waiting'[i]] < callback[waiting'[j]]
  BY <1>1, <1>8
<1>10. ASSUME NEW m \in DOMAIN sendLog', NEW b \in Range(waiting')
       PROVE  sendLog'[m] < callback[b]
  <2>1. PICK i \in 1 .. Len(waiting) - 1 : b = waiting[i + 1]
    BY <1>1 DEF Range
  <2>2. x < callback[b]
    BY <1>1, <1>2, <1>8, <2>1
  <2>3. b \in Range(waiting)
    BY <1>1, <2>1 DEF Range
  <2>4. CASE sendLog'[m] = x
    BY <2>2, <2>4
  <2>5. CASE \E k \in DOMAIN sendLog : sendLog'[m] = sendLog[k]
    BY <2>3, <2>5 DEF SendInv
  <2> QED
    BY <1>6, <2>4, <2>5
<1> QED
  BY <1>6, <1>7, <1>9, <1>10 DEF SendInv

LEMMA NextSend ==
    ASSUME TypeInv, ListsInv, CreditInv, DeviceInv, ConfigureInv, SendInv, [Next]_vars
    PROVE  SendInv'
<1>0. submits \in Nat /\ sendLog \in Seq(Nat) /\ direction' = direction
      /\ callback \in [Buffers -> 0 .. submits] /\ Range(waiting) \subseteq Buffers
  BY KindStays DEF TypeInv, ListsInv, Partition
<1>1. CASE \/ WaitForIdleBuffer \/ WaitForCompletedBuffer \/ WakeUp \/ TimeOut \/ SpuriousWakeUp
           \/ Disconnect \/ PollFails \/ CallAbortCallback \/ UNCHANGED vars \/ UnknownOpcode
           \/ PostConfigureTake \/ RecordCreditError \/ CallCompletionCallback
           \/ (\E b \in Buffers : ReleaseBuffer(b)) \/ (\E w \in Posters : QueueToQp(w))
  <2>1. /\ UNCHANGED <<sendLog, waiting, callback, strayed, submits>>
        /\ ackHandler' \in {ackHandler, "gone", "PostFailed"}
    BY <1>1 DEF WaitForIdleBuffer, WaitForCompletedBuffer, WakeUp, TimeOut, SpuriousWakeUp,
       Disconnect, PollFails, CallAbortCallback, vars, fifos, data, history, ReleaseBuffer,
       UnknownOpcode, PostConfigureTake, RecordCreditError, CallCompletionCallback, TakeIdle,
       TakeCompleted, QueueToQp
  <2> QED
    BY <1>0, <2>1, SendSame
<1>2. ASSUME NEW b \in Buffers, NEW bytes \in Sizes, QueueBufferRegion(b, bytes)
      PROVE  SendInv'
  <2>1. CASE b \in user
    BY <1>2, <2>1, SubmissionOrder
  <2>2. CASE b \notin user
    BY <1>2, <2>2 DEF QueueBufferRegion, SendInv
  <2> QED
    BY <2>1, <2>2
<1>3. ASSUME NEW b \in Buffers, PostConfigureQueue(b) \/ ReleaseReceivedBufferRegion(b)
      PROVE  SendInv'
  <2>1. direction = "Receive"
    BY <1>3 DEF PostConfigureQueue, ReleaseReceivedBufferRegion, ConfigureInv, AutoQueueRx
  <2>2. UNCHANGED <<sendLog, waiting, callback, strayed, submits, ackHandler>>
    BY <1>3, <2>1 DEF PostConfigureQueue, ReleaseReceivedBufferRegion, QueueBuffer, fifos, data
  <2> QED
    BY <1>0, <2>2, SendSame
<1>4. ASSUME NEW bytes \in Sizes, AddCredit(bytes)
      PROVE  SendInv'
  <2>1. UNCHANGED <<callback, strayed, submits>> /\ ackHandler = "running"
    BY <1>4 DEF AddCredit, data
  <2>2. CASE UNCHANGED <<waiting, sendLog>>
    BY <1>0, <2>1, <2>2, SendSame
  <2>3. CASE /\ waiting # <<>> /\ waiting' = Tail(waiting)
             /\ sendLog' = Append(sendLog, callback[Head(waiting)])
    <3>1. CASE strayed
      BY <2>1, <3>1 DEF SendInv
    <3>2. CASE ~strayed
      BY <2>1, <2>3, <3>2, CreditOrder
    <3> QED
      BY <3>1, <3>2
  <2> QED
    BY <1>4, <2>2, <2>3 DEF AddCredit
<1>5. ASSUME NEW failed \in BOOLEAN, HandleCompletion(failed)
      PROVE  SendInv'
  <2>1. /\ UNCHANGED <<sendLog, waiting, strayed, submits, ackHandler>> /\ qp # <<>>
        /\ callback' = callback \/ (~aborted /\ callback' = ClearCallbacks({Head(qp)}))
    BY <1>5 DEF HandleCompletion, fifos, history
  <2>2. ~aborted => Head(qp) \notin Range(waiting)
    <3>1. ~aborted => Head(qp) \in Range(queued)
      BY <2>1, TailList DEF DeviceInv
    <3> QED
      BY <3>1 DEF ListsInv, Partition
  <2>3. \A c \in Range(waiting) : callback'[c] = callback[c]
    BY <1>0, <2>1, <2>2 DEF ClearCallbacks
  <2> QED
    BY <1>0, <2>1, <2>3, SendSame
<1>6. CASE AbortOnDisconnect \/ Cancel
  <2>1. /\ UNCHANGED <<sendLog, strayed, submits, ackHandler>> /\ waiting' = <<>>
    BY <1>6 DEF AbortOnDisconnect, Cancel, Abort, history
  <2> QED
    BY <1>0, <2>1, EmptyList DEF SendInv
<1> QED
  BY <1>1, <1>2, <1>3, <1>4, <1>5, <1>6 DEF Next

-----------------------------------------------------------------------------
(* Callbacks                                                               *)

\* The buffers whose callbacks are owed
Owed == Range(queued) \cup Range(waiting)

CallTypes ==
    /\ accepted \subseteq 1 .. submits
    /\ called \in [Submissions -> Nat]
    /\ abortCalls \in Seq(0 .. submits)
    /\ pollerCall \in 0 .. submits
    /\ ~aborted => abortCalls = <<>>
    /\ poller # "call" => pollerCall = 0

\* In a receive queue that works, a buffer that is not queued has no callback: so queueing
\* it again, without a new one, never answers a submission twice.
RequeueInv ==
    AutoQueueRx /\ connected /\ status = "ok" /\ ~strayed =>
        \A b \in Buffers \ Range(queued) : callback[b] = 0

\* The callback of a submission is with one buffer, or among those an abort has to call, or
\* with the completion thread, or was called once.
OnceInv ==
    ~strayed /\ ~orphaned =>
        /\ \A s \in Submissions : called[s] \in {0, 1}
        /\ \A s \in Submissions \ accepted : called[s] = 0
        /\ pollerCall # 0 => pollerCall \in accepted /\ called[pollerCall] = 0
        /\ \A b \in Owed : callback[b] # 0 =>
              /\ callback[b] \in accepted /\ called[callback[b]] = 0
              /\ pollerCall # callback[b]
        /\ \A b, c \in Owed : callback[b] # 0 /\ callback[b] = callback[c] => b = c
        /\ \A i \in DOMAIN abortCalls : abortCalls[i] # 0 =>
              /\ abortCalls[i] \in accepted /\ called[abortCalls[i]] = 0
              /\ pollerCall # abortCalls[i]
        /\ \A i, j \in DOMAIN abortCalls :
              abortCalls[i] # 0 /\ abortCalls[i] = abortCalls[j] => i = j
        /\ \A s \in accepted :
              \/ called[s] = 1
              \/ pollerCall = s
              \/ \E b \in Owed : callback[b] = s
              \/ \E i \in DOMAIN abortCalls : abortCalls[i] = s

\* The callbacks of a list of buffers are those of its members.
LEMMA CallbacksOfList ==
    ASSUME NEW s, IsList(s), callback \in [Buffers -> 0 .. submits]
    PROVE  /\ CallbacksOf(s) \in Seq(0 .. submits) /\ DOMAIN CallbacksOf(s) = DOMAIN s
           /\ \A i \in DOMAIN s : s[i] \in Range(s) /\ CallbacksOf(s)[i] = callback[s[i]]
<1>1. s \in Seq(Buffers) /\ Len(s) \in Nat /\ DOMAIN s = 1 .. Len(s)
  BY DEF IsList
<1>2. \A i \in DOMAIN s : s[i] \in Range(s) /\ s[i] \in Buffers
  BY <1>1 DEF Range
<1>3. CallbacksOf(s) \in [1 .. Len(s) -> 0 .. submits]
  BY <1>1, <1>2 DEF CallbacksOf
<1>4. CallbacksOf(s) \in Seq(0 .. submits)
  <2>1. \A S : \A f \in [1 .. Len(s) -> S] : f \in Seq(S)
    BY <1>1
  <2> QED
    BY <1>3, <2>1
<1> QED
  BY <1>1, <1>2, <1>4 DEF CallbacksOf

\* Sequences over a set are sequences over a larger one.
LEMMA LaterSubmits ==
    ASSUME NEW n \in Nat, NEW s \in Seq(0 .. n)
    PROVE  s \in Seq(0 .. n + 1)
<1>1. \A S, T : S \subseteq T => \A q \in Seq(S) : q \in Seq(T)
  OBVIOUS
<1>2. 0 .. n \subseteq 0 .. n + 1
  OBVIOUS
<1> QED
  BY <1>1, <1>2

\* Counting a call
LEMMA OneMoreCall ==
    ASSUME NEW f \in [Submissions -> Nat], NEW s
    PROVE  [f EXCEPT ![s] = @ + 1] \in [Submissions -> Nat]
<1>1. CASE s \in Submissions
  <2>1. f[s] + 1 \in Nat
    BY <1>1
  <2> QED
    BY <2>1
<1>2. CASE s \notin Submissions
  BY <1>2
<1> QED
  BY <1>1, <1>2

LEMMA NextCallTypes ==
    ASSUME TypeInv, ListsInv, ConfigureInv, CallTypes, [Next]_vars
    PROVE  CallTypes'
<1>0. /\ submits \in Nat /\ submits <= MaxSubmits /\ MaxSubmits \in Nat
      /\ callback \in [Buffers -> 0 .. submits] /\ qp \in Seq(Buffers)
  BY BufferQueueAssumption DEF TypeInv
<1>1. CASE \/ WaitForIdleBuffer \/ WaitForCompletedBuffer \/ WakeUp \/ TimeOut \/ SpuriousWakeUp
           \/ Disconnect \/ PollFails \/ UNCHANGED vars \/ UnknownOpcode
           \/ PostConfigureTake \/ RecordCreditError
           \/ (\E b \in Buffers : ReleaseBuffer(b)) \/ (\E w \in Posters : QueueToQp(w))
           \/ (\E bytes \in Sizes : AddCredit(bytes))
  <2>1. /\ UNCHANGED <<accepted, called, abortCalls, pollerCall, aborted, submits>>
        /\ poller' = poller \/ poller = "poll"
    BY <1>1 DEF WaitForIdleBuffer, WaitForCompletedBuffer, WakeUp, TimeOut, SpuriousWakeUp,
       Disconnect, PollFails, vars, history, calls, ReleaseBuffer, UnknownOpcode, MayPoll,
       PostConfigureTake, RecordCreditError, QueueToQp, AddCredit
  <2> QED
    BY <2>1 DEF CallTypes
<1>2. ASSUME NEW b \in Buffers, NEW bytes \in Sizes, QueueBufferRegion(b, bytes)
      PROVE  CallTypes'
  <2>1. /\ UNCHANGED <<called, abortCalls, pollerCall, aborted, poller>> /\ submits' = submits + 1
        /\ accepted' \subseteq accepted \cup {submits + 1}
    BY <1>2 DEF QueueBufferRegion, QueueIfConnected, QueueBuffer, calls
  <2>2. accepted' \subseteq 1 .. submits + 1
    BY <1>0, <2>1 DEF CallTypes
  <2>3. abortCalls' \in Seq(0 .. submits + 1)
    BY <1>0, <2>1, LaterSubmits DEF CallTypes
  <2>4. pollerCall' \in 0 .. submits + 1
    BY <1>0, <2>1 DEF CallTypes
  <2> QED
    BY <2>1, <2>2, <2>3, <2>4 DEF CallTypes
<1>3. ASSUME NEW b \in Buffers, PostConfigureQueue(b) \/ ReleaseReceivedBufferRegion(b)
      PROVE  CallTypes'
  <2>1. /\ UNCHANGED <<called, abortCalls, pollerCall, aborted, poller, submits>>
        /\ accepted' \subseteq accepted \cup ({callback[b]} \ {0})
    BY <1>3 DEF PostConfigureQueue, ReleaseReceivedBufferRegion, QueueBuffer, calls,
       ConfigureInv, AutoQueueRx
  <2> QED
    BY <1>0, <2>1 DEF CallTypes
<1>4. ASSUME NEW failed \in BOOLEAN, HandleCompletion(failed)
      PROVE  CallTypes'
  <2>1. /\ UNCHANGED <<accepted, called, abortCalls, aborted, submits>>
        /\ poller = "poll" /\ Head(qp) \in Buffers
        /\ \/ pollerCall' \in {0, callback[Head(qp)]} /\ poller' = "call"
           \/ pollerCall' = pollerCall
    BY <1>0, <1>4 DEF HandleCompletion, PollerThrows, MayPoll, history
  <2>2. pollerCall' \in 0 .. submits
    BY <1>0, <2>1 DEF CallTypes
  <2>3. poller' # "call" => pollerCall' = 0
    BY <2>1 DEF CallTypes
  <2> QED
    BY <2>1, <2>2, <2>3 DEF CallTypes
<1>5. CASE CallCompletionCallback
  <2>1. /\ UNCHANGED <<accepted, abortCalls, aborted, submits>> /\ pollerCall' = 0
        /\ \/ called' = called
           \/ pollerCall # 0 /\ called' = [called EXCEPT ![pollerCall] = @ + 1]
    BY <1>5 DEF CallCompletionCallback, history
  <2>2. called' \in [Submissions -> Nat]
    BY <2>1, OneMoreCall DEF CallTypes
  <2> QED
    BY <1>0, <2>1, <2>2 DEF CallTypes
<1>6. CASE AbortOnDisconnect \/ Cancel
  <2>1. /\ UNCHANGED <<accepted, called, pollerCall, submits, poller>> /\ aborted'
        /\ abortCalls' = CallbacksOf(AbortList)
    BY <1>6 DEF AbortOnDisconnect, Cancel, Abort, history
  <2>2. IsList(AbortList)
    BY ConcatList DEF AbortList, ListsInv, Partition
  <2>3. abortCalls' \in Seq(0 .. submits)
    BY <1>0, <2>1, <2>2, CallbacksOfList
  <2> QED
    BY <2>1, <2>3 DEF CallTypes
<1>7. CASE CallAbortCallback
  <2>1. /\ UNCHANGED <<accepted, pollerCall, submits, poller, aborted>>
        /\ abortCalls # <<>> /\ abortCalls' = Tail(abortCalls)
        /\ \/ called' = called
           \/ Head(abortCalls) # 0 /\ called' = [called EXCEPT ![Head(abortCalls)] = @ + 1]
    BY <1>7 DEF CallAbortCallback, history
  <2>2. abortCalls' \in Seq(0 .. submits)
    <3>1. \A S : \A q \in Seq(S) : q # <<>> => Tail(q) \in Seq(S)
      OBVIOUS
    <3> QED
      BY <2>1, <3>1 DEF CallTypes
  <2>3. called' \in [Submissions -> Nat]
    BY <2>1, OneMoreCall DEF CallTypes
  <2> QED
    BY <2>1, <2>2, <2>3 DEF CallTypes
<1> QED
  BY <1>1, <1>2, <1>3, <1>4, <1>5, <1>6, <1>7 DEF Next

LEMMA NextRequeue ==
    ASSUME TypeInv, ListsInv, CreditInv, ConfigureInv, RequeueInv, [Next]_vars
    PROVE  RequeueInv'
<1> SUFFICES ASSUME AutoQueueRx', connected', status' = "ok", ~strayed',
                    NEW c \in Buffers \ Range(queued')
             PROVE  callback'[c] = 0
  BY DEF RequeueInv
<1>0. /\ AutoQueueRx /\ direction = "Receive" /\ ~PutBackToIdle /\ IsList(queued)
      /\ callback \in [Buffers -> 0 .. submits]
  BY KindStays DEF AutoQueueRx, PutBackToIdle, ListsInv, TypeInv
<1>1. CASE UNCHANGED <<queued, callback, strayed>> /\ connected /\ status = "ok"
  BY <1>0, <1>1 DEF RequeueInv
<1>2. CASE \/ WaitForIdleBuffer \/ WaitForCompletedBuffer \/ WakeUp \/ TimeOut \/ SpuriousWakeUp
           \/ PollFails \/ UNCHANGED vars \/ UnknownOpcode \/ CallCompletionCallback
           \/ PostConfigureTake \/ CallAbortCallback
           \/ (\E b \in Buffers : ReleaseBuffer(b)) \/ (\E w \in Posters : QueueToQp(w))
  <2>1. UNCHANGED <<queued, callback, strayed, connected, status>>
    BY <1>2 DEF WaitForIdleBuffer, WaitForCompletedBuffer, WakeUp, TimeOut, SpuriousWakeUp,
       PollFails, vars, history, data, fifos, ReleaseBuffer, UnknownOpcode, TakeIdle,
       TakeCompleted, PostConfigureTake, QueueToQp, CallCompletionCallback, CallAbortCallback
  <2> QED
    BY <1>1, <2>1
<1>3. ASSUME NEW b \in Buffers, NEW bytes \in Sizes, QueueBufferRegion(b, bytes)
      PROVE  callback'[c] = 0
  <2>1. connected /\ b \in user /\ ~strayed /\ callback' = [callback EXCEPT ![b] = submits + 1]
    BY <1>3 DEF QueueBufferRegion, SetCompletionCallback
  <2>2. status = "ok" /\ queued' = Append(queued, b)
    BY <1>0, <1>3, <2>1 DEF QueueBufferRegion, QueueIfConnected, QueueBuffer, MayQueue
  <2>3. Range(queued') = Range(queued) \cup {b}
    BY <1>0, <2>1, <2>2, AppendList DEF ListsInv, Partition
  <2>4. c \notin Range(queued) /\ c # b
    BY <2>3
  <2>5. callback[c] = 0
    BY <1>0, <2>1, <2>2, <2>4 DEF RequeueInv
  <2> QED
    BY <1>0, <2>1, <2>4, <2>5
<1>4. ASSUME NEW b \in Buffers, PostConfigureQueue(b) \/ ReleaseReceivedBufferRegion(b)
      PROVE  callback'[c] = 0
  <2>1. /\ UNCHANGED <<callback, strayed, connected, status>> /\ b \in user
        /\ queued' = queued \/ queued' = Append(queued, b)
    BY <1>0, <1>4 DEF PostConfigureQueue, ReleaseReceivedBufferRegion, QueueBuffer, data, fifos
  <2>2. Range(queued) \subseteq Range(queued')
    <3>1. b \notin Range(queued)
      BY <2>1 DEF ListsInv, Partition
    <3>2. Range(Append(queued, b)) = Range(queued) \cup {b}
      BY <1>0, <3>1, AppendList
    <3> QED
      BY <2>1, <3>2
  <2> QED
    BY <1>0, <2>1, <2>2 DEF RequeueInv
<1>5. ASSUME NEW bytes \in Sizes, AddCredit(bytes)
      PROVE  FALSE
  BY <1>0, <1>5 DEF AddCredit
<1>6. CASE RecordCreditError
  BY <1>0, <1>6 DEF RecordCreditError, CreditInv, Errors
<1>7. ASSUME NEW failed \in BOOLEAN, HandleCompletion(failed)
      PROVE  callback'[c] = 0
  <2>1. UNCHANGED <<strayed, connected>> /\ status = "ok"
    BY <1>7 DEF HandleCompletion, history, Assign
  <2>2. CASE UNCHANGED <<queued, callback>>
    BY <1>1, <2>1, <2>2
  <2>3. CASE queued # <<>> /\ queued' = Tail(queued) /\ callback' = ClearCallbacks({Head(queued)})
    <3>1. Range(queued') = Range(queued) \ {Head(queued)}
      BY <1>0, <2>3, TailList
    <3>2. CASE c = Head(queued)
      BY <2>3, <3>2 DEF ClearCallbacks
    <3>3. CASE c \notin Range(queued)
      BY <1>0, <2>1, <2>3, <3>3 DEF RequeueInv, ClearCallbacks
    <3> QED
      BY <3>1, <3>2, <3>3
  <2>4. CASE UNCHANGED queued /\ callback' = ClearCallbacks({Head(qp)})
    BY <1>0, <2>1, <2>4 DEF RequeueInv, ClearCallbacks
  <2> QED
    BY <1>7, <2>2, <2>3, <2>4 DEF HandleCompletion, fifos
<1>8. CASE Disconnect
  BY <1>8 DEF Disconnect
<1>9. CASE AbortOnDisconnect \/ Cancel
  BY <1>9 DEF AbortOnDisconnect, Cancel, Abort, Assign
<1> QED
  BY <1>2, <1>3, <1>4, <1>5, <1>6, <1>7, <1>8, <1>9 DEF Next

\* The callbacks of the buffers that are owed one stay as they are.
LEMMA OnceSame ==
    ASSUME OnceInv, Owed' = Owed, \A b \in Owed : callback'[b] = callback[b],
           pollerCall' = pollerCall, abortCalls' = abortCalls, called' = called,
           accepted' = accepted, ~strayed' /\ ~orphaned' => ~strayed /\ ~orphaned
    PROVE  OnceInv'
<1> SUFFICES ASSUME ~strayed', ~orphaned' PROVE OnceInv'
  BY DEF OnceInv
<1>1. ~strayed /\ ~orphaned
  OBVIOUS
<1>2. Submissions' = Submissions
  BY DEF Submissions
<1> QED
  BY <1>1, <1>2 DEF OnceInv

\* A buffer without a callback is queued: nothing is owed for it.
LEMMA OnceRequeue ==
    ASSUME OnceInv, NEW b, Owed' = Owed \cup {b}, callback[b] = 0,
           callback' = callback, accepted' = accepted,
           pollerCall' = pollerCall, abortCalls' = abortCalls, called' = called,
           ~strayed' /\ ~orphaned' => ~strayed /\ ~orphaned
    PROVE  OnceInv'
<1> SUFFICES ASSUME ~strayed', ~orphaned' PROVE OnceInv'
  BY DEF OnceInv
<1>1. ~strayed /\ ~orphaned
  OBVIOUS
<1>2. Submissions' = Submissions
  BY DEF Submissions
<1>3. \A c \in Owed' : callback[c] # 0 => c \in Owed
  OBVIOUS
<1>4. Owed \subseteq Owed'
  OBVIOUS
<1> QED
  BY <1>1, <1>2, <1>3, <1>4 DEF OnceInv

\* A new submission is accepted: its callback is with its buffer.
LEMMA OnceSubmit ==
    ASSUME OnceInv, CallTypes, NEW b, b \notin Owed, Owed' = Owed \cup {b},
           NEW s \in Submissions, s \notin accepted, s # 0, s # pollerCall,
           \A i \in DOMAIN abortCalls : abortCalls[i] # s,
           callback'[b] = s, \A c \in Owed : callback'[c] = callback[c] /\ callback[c] # s,
           accepted' = accepted \cup {s},
           pollerCall' = pollerCall, abortCalls' = abortCalls, called' = called,
           ~strayed' /\ ~orphaned' => ~strayed /\ ~orphaned
    PROVE  OnceInv'
<1> SUFFICES ASSUME ~strayed', ~orphaned' PROVE OnceInv'
  BY DEF OnceInv
<1>1. ~strayed /\ ~orphaned
  OBVIOUS
<1>2. Submissions' = Submissions
  BY DEF Submissions
<1>3. /\ \A t \in Submissions : called[t] \in {0, 1}
      /\ \A t \in Submissions \ accepted : called[t] = 0
      /\ pollerCall # 0 => pollerCall \in accepted /\ called[pollerCall] = 0
  BY <1>1 DEF OnceInv
<1>4. ASSUME NEW c \in Owed', callback'[c] # 0
      PROVE  /\ callback'[c] \in accepted' /\ called[callback'[c]] = 0
             /\ pollerCall # callback'[c]
  <2>1. CASE c = b
    BY <1>3, <2>1
  <2>2. CASE c \in Owed
    BY <1>1, <1>4, <2>2 DEF OnceInv
  <2> QED
    BY <2>1, <2>2
<1>5. ASSUME NEW c \in Owed', NEW d \in Owed', callback'[c] # 0, callback'[c] = callback'[d]
      PROVE  c = d
  BY <1>1, <1>5 DEF OnceInv
<1>6. ASSUME NEW t \in accepted'
      PROVE  \/ called[t] = 1 \/ pollerCall = t
             \/ \E c \in Owed' : callback'[c] = t
             \/ \E i \in DOMAIN abortCalls : abortCalls[i] = t
  <2>1. CASE t = s
    BY <2>1
  <2>2. CASE t \in accepted
    BY <1>1, <2>2 DEF OnceInv
  <2> QED
    BY <2>1, <2>2
<1> QED
  BY <1>1, <1>2, <1>3, <1>4, <1>5, <1>6 DEF OnceInv

\* The completion thread takes the callback of a queued buffer.
LEMMA OnceComplete ==
    ASSUME OnceInv, NEW b \in Owed, Owed' = Owed \ {b}, pollerCall = 0, 0 \notin accepted,
           \A c \in Owed' : callback'[c] = callback[c],
           pollerCall' = callback[b], abortCalls = <<>>,
           UNCHANGED <<abortCalls, called, accepted, strayed, orphaned>>
    PROVE  OnceInv'
<1> SUFFICES ASSUME ~strayed', ~orphaned' PROVE OnceInv'
  BY DEF OnceInv
<1>1. ~strayed /\ ~orphaned /\ Submissions' = Submissions
  BY DEF Submissions
<1>2. DOMAIN abortCalls = {}
  OBVIOUS
<1>3. ASSUME NEW t \in accepted
      PROVE  called[t] = 1 \/ pollerCall' = t \/ \E c \in Owed' : callback'[c] = t
  <2>1. CASE called[t] = 1
    BY <2>1
  <2>2. CASE pollerCall = t
    BY <2>2
  <2>3. CASE \E c \in Owed : callback[c] = t
    BY <2>3
  <2> QED
    BY <1>1, <1>2, <2>1, <2>2, <2>3 DEF OnceInv
<1>4. ASSUME NEW c \in Owed', callback'[c] # 0
      PROVE  /\ callback'[c] \in accepted /\ called[callback'[c]] = 0
             /\ pollerCall' # callback'[c]
  BY <1>1, <1>4 DEF OnceInv
<1>5. \A c, d \in Owed' : callback'[c] # 0 /\ callback'[c] = callback'[d] => c = d
  BY <1>1 DEF OnceInv
<1>6. pollerCall' # 0 => pollerCall' \in accepted /\ called[pollerCall'] = 0
  BY <1>1 DEF OnceInv
<1>7. /\ \A t \in Submissions : called[t] \in {0, 1}
      /\ \A t \in Submissions \ accepted : called[t] = 0
  BY <1>1 DEF OnceInv
<1> QED
  BY <1>1, <1>2, <1>3, <1>4, <1>5, <1>6, <1>7 DEF OnceInv

\* The completion thread calls the callback it has.
LEMMA OnceCall ==
    ASSUME OnceInv, called \in [Submissions -> Nat], accepted \subseteq Submissions,
           pollerCall # 0, 0 \notin accepted,
           called' = [called EXCEPT ![pollerCall] = @ + 1], pollerCall' = 0,
           UNCHANGED <<queued, waiting, callback, abortCalls, accepted, strayed, orphaned>>
    PROVE  OnceInv'
<1> SUFFICES ASSUME ~strayed', ~orphaned' PROVE OnceInv'
  BY DEF OnceInv
<1>1. ~strayed /\ ~orphaned /\ Submissions' = Submissions /\ Owed' = Owed
  BY DEF Submissions, Owed
<1>2. called[pollerCall] = 0 /\ pollerCall \in accepted
  BY <1>1 DEF OnceInv
<1>3. called'[pollerCall] = 1 /\ \A t \in Submissions \ {pollerCall} : called'[t] = called[t]
  BY <1>2
<1>4. /\ \A t \in Submissions : called'[t] \in {0, 1}
      /\ \A t \in Submissions \ accepted : called'[t] = 0
  BY <1>1, <1>2, <1>3 DEF OnceInv
<1>5. ASSUME NEW x \in accepted, x # pollerCall, called[x] = 0
      PROVE  called'[x] = 0 /\ pollerCall' # x
  BY <1>3, <1>5
<1>6. \A b \in Owed : callback[b] # 0 =>
         /\ callback[b] \in accepted /\ called'[callback[b]] = 0
         /\ pollerCall' # callback[b]
  BY <1>1, <1>5 DEF OnceInv
<1>7. \A i \in DOMAIN abortCalls : abortCalls[i] # 0 =>
         /\ abortCalls[i] \in accepted /\ called'[abortCalls[i]] = 0
         /\ pollerCall' # abortCalls[i]
  BY <1>1, <1>5 DEF OnceInv
<1>8. ASSUME NEW t \in accepted
      PROVE  \/ called'[t] = 1
             \/ \E b \in Owed : callback[b] = t
             \/ \E i \in DOMAIN abortCalls : abortCalls[i] = t
  <2>1. CASE t = pollerCall
    BY <1>3, <2>1
  <2>2. CASE t # pollerCall
    BY <1>1, <1>3, <2>2 DEF OnceInv
  <2> QED
    BY <2>1, <2>2
<1>9. /\ \A b, c \in Owed : callback[b] # 0 /\ callback[b] = callback[c] => b = c
      /\ \A i, j \in DOMAIN abortCalls :
            abortCalls[i] # 0 /\ abortCalls[i] = abortCalls[j] => i = j
  BY <1>1 DEF OnceInv
<1> QED
  BY <1>1, <1>4, <1>6, <1>7, <1>8, <1>9 DEF OnceInv

\* The first abort takes the callbacks of all buffers that are owed one.
LEMMA OnceAbort ==
    ASSUME OnceInv, ListsInv, callback \in [Buffers -> 0 .. submits], abortCalls = <<>>,
           abortCalls' = CallbacksOf(AbortList), queued' = <<>>, waiting' = <<>>,
           UNCHANGED <<pollerCall, called, accepted, strayed, orphaned>>
    PROVE  OnceInv'
<1> SUFFICES ASSUME ~strayed', ~orphaned' PROVE OnceInv'
  BY DEF OnceInv
<1>1. ~strayed /\ ~orphaned /\ Submissions' = Submissions
  BY DEF Submissions
<1>2. Owed' = {} /\ DOMAIN abortCalls = {}
  BY EmptyList DEF Owed
<1>3. PICK list : list = AbortList
  OBVIOUS
<1>4. IsList(list) /\ Range(list) = Owed
  BY <1>3, ConcatList DEF AbortList, ListsInv, Partition, Owed
<1>5. /\ DOMAIN abortCalls' = DOMAIN list
      /\ \A i \in DOMAIN list : list[i] \in Owed /\ abortCalls'[i] = callback[list[i]]
  BY <1>3, <1>4, CallbacksOfList
<1>6. \A i, j \in DOMAIN list : list[i] = list[j] => i = j
  BY <1>4 DEF IsList, IsInjective
<1>7. \A b \in Owed : \E i \in DOMAIN list : list[i] = b
  BY <1>4 DEF Range
<1>8. \A i \in DOMAIN abortCalls' : abortCalls'[i] # 0 =>
         /\ abortCalls'[i] \in accepted /\ called[abortCalls'[i]] = 0
         /\ pollerCall # abortCalls'[i]
  BY <1>1, <1>5 DEF OnceInv
<1>9. ASSUME NEW i \in DOMAIN abortCalls', NEW j \in DOMAIN abortCalls',
             abortCalls'[i] # 0, abortCalls'[i] = abortCalls'[j]
      PROVE  i = j
  <2>1. list[i] = list[j]
    BY <1>1, <1>5, <1>9 DEF OnceInv
  <2> QED
    BY <1>5, <1>6, <1>9, <2>1
<1>10. ASSUME NEW t \in accepted
       PROVE  \/ called[t] = 1 \/ pollerCall = t
              \/ \E i \in DOMAIN abortCalls' : abortCalls'[i] = t
  <2>1. ASSUME NEW b \in Owed, callback[b] = t
        PROVE  \E i \in DOMAIN abortCalls' : abortCalls'[i] = t
    BY <1>5, <1>7, <2>1
  <2> QED
    BY <1>1, <1>2, <2>1 DEF OnceInv
<1>11. /\ \A t \in Submissions : called[t] \in {0, 1}
       /\ \A t \in Submissions \ accepted : called[t] = 0
       /\ pollerCall # 0 => pollerCall \in accepted /\ called[pollerCall] = 0
  BY <1>1 DEF OnceInv
<1> QED
  BY <1>1, <1>2, <1>8, <1>9, <1>10, <1>11 DEF OnceInv

\* It calls the first of them, if it is set.
LEMMA OnceAbortCall ==
    ASSUME OnceInv, called \in [Submissions -> Nat], accepted \subseteq Submissions,
           0 \notin accepted, Owed = {},
           abortCalls \in Seq(0 .. submits), abortCalls # <<>>, abortCalls' = Tail(abortCalls),
           \/ Head(abortCalls) = 0 /\ called' = called
           \/ Head(abortCalls) # 0 /\ called' = [called EXCEPT ![Head(abortCalls)] = @ + 1],
           UNCHANGED <<queued, waiting, callback, pollerCall, accepted, strayed, orphaned>>
    PROVE  OnceInv'
<1> SUFFICES ASSUME ~strayed', ~orphaned' PROVE OnceInv'
  BY DEF OnceInv
<1>1. ~strayed /\ ~orphaned /\ Submissions' = Submissions /\ Owed' = {}
  BY DEF Submissions, Owed
<1>2. PICK n \in Nat \ {0} : n = Len(abortCalls)
  OBVIOUS
<1>3. /\ DOMAIN abortCalls = 1 .. n /\ DOMAIN abortCalls' = 1 .. n - 1
      /\ \A i \in 1 .. n - 1 : abortCalls'[i] = abortCalls[i + 1]
  BY <1>2
<1>4. PICK h : h = Head(abortCalls) /\ h = abortCalls[1] /\ 1 \in DOMAIN abortCalls
  BY <1>2, <1>3
<1>5. h # 0 => h \in accepted /\ called[h] = 0 /\ pollerCall # h
  BY <1>1, <1>4 DEF OnceInv
<1>6. \A i \in DOMAIN abortCalls' : i + 1 \in DOMAIN abortCalls /\ i + 1 # 1
                                    /\ abortCalls'[i] = abortCalls[i + 1]
  BY <1>2, <1>3
<1>7. \A x \in Submissions \ {h} : called'[x] = called[x]
  BY <1>4
<1>8. h # 0 => called'[h] = 1
  BY <1>4, <1>5
<1>9. /\ \A t \in Submissions : called'[t] \in {0, 1}
      /\ \A t \in Submissions \ accepted : called'[t] = 0
  <2>1. CASE h = 0
    BY <1>1, <1>4, <2>1 DEF OnceInv
  <2>2. CASE h # 0
    BY <1>1, <1>5, <1>7, <1>8, <2>2 DEF OnceInv
  <2> QED
    BY <2>1, <2>2
<1>10. pollerCall # 0 => pollerCall \in accepted /\ called'[pollerCall] = 0
  <2>1. CASE h = 0
    BY <1>1, <1>4, <2>1 DEF OnceInv
  <2>2. CASE h # 0
    BY <1>1, <1>5, <1>7, <2>2 DEF OnceInv
  <2> QED
    BY <2>1, <2>2
<1>11. ASSUME NEW i \in DOMAIN abortCalls', abortCalls'[i] # 0
       PROVE  /\ abortCalls'[i] \in accepted /\ called'[abortCalls'[i]] = 0
              /\ pollerCall # abortCalls'[i]
  <2>1. PICK j \in DOMAIN abortCalls : j = i + 1 /\ j # 1 /\ abortCalls'[i] = abortCalls[j]
    BY <1>6
  <2>2. /\ abortCalls[j] \in accepted /\ called[abortCalls[j]] = 0
        /\ pollerCall # abortCalls[j]
    BY <1>1, <1>11, <2>1 DEF OnceInv
  <2>3. abortCalls[j] # h
    BY <1>1, <1>4, <1>11, <2>1 DEF OnceInv
  <2> QED
    BY <1>7, <2>1, <2>2, <2>3
<1>12. ASSUME NEW i \in DOMAIN abortCalls', NEW j \in DOMAIN abortCalls',
              abortCalls'[i] # 0, abortCalls'[i] = abortCalls'[j]
       PROVE  i = j
  <2>1. i + 1 = j + 1
    BY <1>1, <1>6, <1>12 DEF OnceInv
  <2> QED
    BY <1>3, <2>1
<1>13. ASSUME NEW t \in accepted
       PROVE  \/ called'[t] = 1 \/ pollerCall = t
              \/ \E i \in DOMAIN abortCalls' : abortCalls'[i] = t
  <2>1. CASE t = h
    BY <1>8, <2>1
  <2>2. CASE called[t] = 1 /\ t # h
    BY <1>7, <2>2
  <2>3. ASSUME NEW i \in DOMAIN abortCalls, abortCalls[i] = t, t # h
        PROVE  \E j \in DOMAIN abortCalls' : abortCalls'[j] = t
    <3>1. i # 1 /\ i - 1 \in 1 .. n - 1
      BY <1>2, <1>3, <1>4, <2>3
    <3>2. abortCalls'[i - 1] = t
      BY <1>3, <2>3, <3>1
    <3> QED
      BY <1>3, <3>1, <3>2
  <2> QED
    BY <1>1, <2>1, <2>2, <2>3 DEF OnceInv
<1> QED
  BY <1>1, <1>9, <1>10, <1>11, <1>12, <1>13 DEF OnceInv

LEMMA NextOnce ==
    ASSUME TypeInv, ListsInv, CreditInv, DeviceInv, ConfigureInv, CallTypes, RequeueInv, OnceInv,
           [Next]_vars
    PROVE  OnceInv'
<1>0. /\ submits \in Nat /\ submits <= MaxSubmits /\ MaxSubmits \in Nat
      /\ callback \in [Buffers -> 0 .. submits]
      /\ IsList(queued) /\ IsList(waiting) /\ Owed \subseteq Buffers \ user
      /\ Range(queued) \cap Range(waiting) = {}
  BY BufferQueueAssumption DEF TypeInv, ListsInv, Partition, Owed
<1>1. /\ accepted \subseteq Submissions /\ 0 \notin accepted /\ called \in [Submissions -> Nat]
      /\ submits + 1 \notin accepted /\ pollerCall # submits + 1
      /\ \A b \in Buffers : callback[b] # submits + 1
  BY <1>0 DEF CallTypes, Submissions
<1>2. \A i \in DOMAIN abortCalls : abortCalls[i] # submits + 1
  <2>1. \A S : \A q \in Seq(S) : \A i \in DOMAIN q : q[i] \in S
    OBVIOUS
  <2>2. \A i \in DOMAIN abortCalls : abortCalls[i] \in 0 .. submits
    BY <2>1 DEF CallTypes
  <2> QED
    BY <1>0, <2>2
<1>3. CASE \/ WaitForIdleBuffer \/ WaitForCompletedBuffer \/ WakeUp \/ TimeOut \/ SpuriousWakeUp
           \/ Disconnect \/ PollFails \/ UNCHANGED vars \/ UnknownOpcode
           \/ PostConfigureTake \/ RecordCreditError
           \/ (\E b \in Buffers : ReleaseBuffer(b)) \/ (\E w \in Posters : QueueToQp(w))
  <2>1. UNCHANGED <<queued, waiting, callback, pollerCall, abortCalls, called, accepted, strayed>>
    BY <1>3 DEF WaitForIdleBuffer, WaitForCompletedBuffer, WakeUp, TimeOut, SpuriousWakeUp,
       Disconnect, PollFails, vars, history, calls, data, fifos, ReleaseBuffer,
       UnknownOpcode, PostConfigureTake, RecordCreditError, QueueToQp, TakeIdle, TakeCompleted
  <2>2. Owed' = Owed
    BY <2>1 DEF Owed
  <2>3. ~orphaned' => ~orphaned
    <3>1. CASE UnknownOpcode
      BY <3>1 DEF UnknownOpcode
    <3>2. CASE \E w \in Posters : QueueToQp(w)
      BY <3>2 DEF QueueToQp
    <3> QED
      BY <1>3, <3>1, <3>2 DEF WaitForIdleBuffer, WaitForCompletedBuffer, WakeUp, TimeOut,
         SpuriousWakeUp, Disconnect, PollFails, vars, device, ReleaseBuffer,
         PostConfigureTake, RecordCreditError
  <2> QED
    BY <2>1, <2>2, <2>3, OnceSame
<1>4. ASSUME NEW b \in Buffers, NEW bytes \in Sizes, QueueBufferRegion(b, bytes)
      PROVE  OnceInv'
  <2>1. /\ UNCHANGED <<pollerCall, abortCalls, called, orphaned>>
        /\ strayed' = (b \notin user)
        /\ ~strayed /\ submits < MaxSubmits
        /\ callback' = [callback EXCEPT ![b] = submits + 1]
    BY <1>4 DEF QueueBufferRegion, calls, device, SetCompletionCallback
  <2>2. CASE b \notin user
    BY <2>1, <2>2 DEF OnceInv
  <2>3. CASE b \in user
    <3>1. b \notin Owed /\ \A c \in Owed : callback'[c] = callback[c]
      BY <1>0, <2>1, <2>3
    <3>2. CASE UNCHANGED <<queued, waiting, accepted>>
      <4>1. Owed' = Owed
        BY <3>2 DEF Owed
      <4> QED
        BY <2>1, <3>1, <3>2, <4>1, OnceSame
    <3>3. CASE /\ accepted' = accepted \cup {submits + 1}
               /\ \/ queued' = Append(queued, b) /\ waiting' = waiting
                  \/ waiting' = Append(waiting, b) /\ queued' = queued
      <4>1. Owed' = Owed \cup {b}
        BY <1>0, <3>1, <3>3, AppendList DEF Owed
      <4>2. submits + 1 \in Submissions /\ submits + 1 # 0
        BY <1>0, <2>1 DEF Submissions
      <4>3. callback'[b] = submits + 1 /\ \A c \in Owed : callback[c] # submits + 1
        BY <1>0, <1>1, <2>1
      <4> QED
        BY <1>1, <1>2, <2>1, <3>1, <3>3, <4>1, <4>2, <4>3, OnceSubmit
    <3>4. submits' = submits + 1 /\ QueueIfConnected(b, bytes, submits')
      BY <1>4 DEF QueueBufferRegion
    <3>5. submits + 1 # 0
      BY <1>0
    <3> QED
      BY <3>2, <3>3, <3>4, <3>5 DEF QueueIfConnected, QueueBuffer, fifos
  <2> QED
    BY <2>2, <2>3
<1>5. ASSUME NEW b \in Buffers, PostConfigureQueue(b) \/ ReleaseReceivedBufferRegion(b)
      PROVE  OnceInv'
  <2>1. /\ UNCHANGED <<callback, pollerCall, abortCalls, called, orphaned, strayed>>
        /\ AutoQueueRx /\ direction = "Receive" /\ b \in user
    BY <1>5 DEF PostConfigureQueue, ReleaseReceivedBufferRegion, calls, device, data,
       ConfigureInv, AutoQueueRx
  <2>2. CASE UNCHANGED <<queued, waiting, accepted>>
    <3>1. Owed' = Owed
      BY <2>2 DEF Owed
    <3> QED
      BY <2>1, <2>2, <3>1, OnceSame
  <2>3. CASE /\ queued' = Append(queued, b) /\ waiting' = waiting /\ status = "ok"
             /\ accepted' = accepted \cup ({callback[b]} \ {0})
    <3>1. CASE strayed
      BY <2>1, <3>1 DEF OnceInv
    <3>2. CASE ~strayed
      <4>1. b \notin Owed
        BY <1>0, <2>1
      <4>2. callback[b] = 0
        <5>1. CASE PostConfigureQueue(b)
          BY <1>0, <5>1 DEF PostConfigureQueue, ConfigureInv
        <5>2. CASE ReleaseReceivedBufferRegion(b)
          <6>1. connected
            BY <2>3, <5>2 DEF ReleaseReceivedBufferRegion
          <6> QED
            BY <2>1, <2>3, <3>2, <4>1, <6>1 DEF RequeueInv, Owed
        <5> QED
          BY <1>5, <5>1, <5>2
      <4>3. accepted' = accepted
        BY <2>3, <4>2
      <4>4. Owed' = Owed \cup {b}
        BY <1>0, <2>3, <4>1, AppendList DEF Owed
      <4> QED
        BY <2>1, <4>2, <4>3, <4>4, OnceRequeue
    <3> QED
      BY <3>1, <3>2
  <2> QED
    BY <1>5, <2>1, <2>2, <2>3 DEF PostConfigureQueue, ReleaseReceivedBufferRegion, QueueBuffer,
       MayQueue, fifos
<1>6. ASSUME NEW bytes \in Sizes, AddCredit(bytes)
      PROVE  OnceInv'
  <2>1. UNCHANGED <<callback, pollerCall, abortCalls, called, accepted, strayed, orphaned>>
    BY <1>6 DEF AddCredit, data, calls, device
  <2>2. Owed' = Owed
    <3>1. CASE UNCHANGED <<queued, waiting>>
      BY <3>1 DEF Owed
    <3>2. CASE /\ waiting # <<>> /\ waiting' = Tail(waiting)
               /\ queued' = Append(queued, Head(waiting))
      <4>1. /\ Range(waiting') = Range(waiting) \ {Head(waiting)}
            /\ Head(waiting) \in Range(waiting) /\ Head(waiting) \in Buffers
        BY <1>0, <3>2, TailList
      <4>2. Range(queued') = Range(queued) \cup {Head(waiting)}
        BY <1>0, <3>2, <4>1, AppendList
      <4> QED
        BY <4>1, <4>2 DEF Owed
    <3> QED
      BY <1>6, <3>1, <3>2 DEF AddCredit
  <2> QED
    BY <2>1, <2>2, OnceSame
<1>7. ASSUME NEW failed \in BOOLEAN, HandleCompletion(failed)
      PROVE  OnceInv'
  <2>1. /\ UNCHANGED <<abortCalls, called, accepted, strayed, orphaned>>
        /\ poller = "poll" /\ qp # <<>>
    BY <1>7 DEF HandleCompletion, history, MayPoll
  <2>2. pollerCall = 0
    BY <2>1 DEF CallTypes
  <2>3. CASE UNCHANGED <<fifos, callback>> /\ pollerCall' = 0
    <3>1. Owed' = Owed
      BY <2>3 DEF Owed, fifos
    <3> QED
      BY <2>1, <2>2, <2>3, <3>1, OnceSame
  <2>4. CASE /\ ~aborted /\ queued # <<>> /\ queued' = Tail(queued) /\ waiting' = waiting
             /\ pollerCall' = callback[Head(queued)]
             /\ callback' = ClearCallbacks({Head(queued)})
    <3>1. Range(queued') = Range(queued) \ {Head(queued)} /\ Head(queued) \in Range(queued)
      BY <1>0, <2>4, TailList
    <3>2. Owed' = Owed \ {Head(queued)} /\ Head(queued) \in Owed
      BY <1>0, <2>4, <3>1 DEF Owed
    <3>3. \A c \in Owed' : callback'[c] = callback[c]
      BY <1>0, <2>4, <3>2 DEF ClearCallbacks
    <3>4. abortCalls = <<>>
      BY <2>4 DEF CallTypes
    <3> QED
      BY <1>1, <2>1, <2>2, <2>4, <3>2, <3>3, <3>4, OnceComplete
  <2>5. CASE ~aborted /\ queued # <<>> /\ Head(qp) # Head(queued)
    <3>1. orphaned
      BY <2>1, <2>5, OldestFirst
    <3> QED
      BY <2>1, <3>1 DEF OnceInv
  <2> QED
    BY <1>7, <2>3, <2>4, <2>5 DEF HandleCompletion
<1>8. CASE CallCompletionCallback
  <2>1. /\ UNCHANGED <<queued, waiting, callback, abortCalls, accepted, strayed, orphaned>>
        /\ pollerCall' = 0
    BY <1>8 DEF CallCompletionCallback, fifos, data, device, history
  <2>2. CASE pollerCall = 0 /\ called' = called
    <3>1. Owed' = Owed
      BY <2>1 DEF Owed
    <3> QED
      BY <2>1, <2>2, <3>1, OnceSame
  <2>3. CASE pollerCall # 0 /\ called' = [called EXCEPT ![pollerCall] = @ + 1]
    BY <1>1, <2>1, <2>3, OnceCall
  <2> QED
    BY <1>8, <2>2, <2>3 DEF CallCompletionCallback
<1>9. CASE AbortOnDisconnect \/ Cancel
  <2>1. /\ UNCHANGED <<pollerCall, called, accepted, strayed, orphaned>> /\ ~aborted
        /\ abortCalls' = CallbacksOf(AbortList) /\ queued' = <<>> /\ waiting' = <<>>
    BY <1>9 DEF AbortOnDisconnect, Cancel, Abort, history, device
  <2>2. abortCalls = <<>>
    BY <2>1 DEF CallTypes
  <2> QED
    BY <1>0, <2>1, <2>2, OnceAbort
<1>10. CASE CallAbortCallback
  <2>1. /\ UNCHANGED <<queued, waiting, callback, pollerCall, accepted, strayed, orphaned>>
        /\ abortCalls # <<>> /\ abortCalls' = Tail(abortCalls)
        /\ \/ Head(abortCalls) = 0 /\ called' = called
           \/ Head(abortCalls) # 0 /\ called' = [called EXCEPT ![Head(abortCalls)] = @ + 1]
    BY <1>10 DEF CallAbortCallback, fifos, data, device, history
  <2>2. Owed = {}
    BY <2>1, EmptyList DEF CallTypes, ListsInv, Owed
  <2>3. abortCalls \in Seq(0 .. submits)
    BY DEF CallTypes
  <2> QED
    BY <1>1, <2>1, <2>2, <2>3, OnceAbortCall
<1> QED
  BY <1>3, <1>4, <1>5, <1>6, <1>7, <1>8, <1>9, <1>10 DEF Next

-----------------------------------------------------------------------------
(* The invariant                                                           *)

\* The parts lean on each other: completions are in order because only one of the two
\* threads posts at a time, and that is so because of how credits are used.
IInv == /\ TypeInv /\ ListsInv /\ CreditInv /\ SleepInv /\ DeviceInv /\ ConfigureInv /\ SendInv
        /\ CallTypes /\ RequeueInv /\ OnceInv

LEMMA InitTypes == Init => TypeInv
<1> SUFFICES ASSUME Init PROVE TypeInv
  OBVIOUS
<1>1. direction \in {"Send", "Receive"} /\ external \in BOOLEAN /\ (usePolling => AutoQueueRx)
  BY BufferQueueAssumption DEF Init
<1>2. used \in [Buffers -> Nat] /\ callback \in [Buffers -> 0 .. submits]
  BY DEF Init
<1>3. credits \in Seq(Nat) /\ qp \in Seq(Buffers) /\ sendLog \in Seq(Nat)
  BY DEF Init
<1>4. posting \in [Posters -> Buffers \cup {NoBuffer}]
  BY DEF Init
<1>5. submits \in 0 .. MaxSubmits
  BY BufferQueueAssumption DEF Init
<1>6. toQueue \in Nat
  <2>1. Cardinality(Buffers) \in Nat
    BY BufferQueueAssumption, FS_CardinalityType
  <2> QED
    BY <2>1 DEF Init
<1> QED
  BY <1>1, <1>2, <1>3, <1>4, <1>5, <1>6 DEF Init, TypeInv

LEMMA InitIInv == Init => IInv
<1> SUFFICES ASSUME Init PROVE IInv
  OBVIOUS
<1>1. TypeInv /\ ListsInv
  BY InitTypes, InitLists
<1>2. /\ waiting = <<>> /\ sendLog = <<>> /\ queued = <<>> /\ qp = <<>> /\ credits = <<>>
      /\ ackHandler = "running" /\ waiter = "none" /\ ~asleep /\ submits = 0
  BY DEF Init
<1>3. posting["client"] = NoBuffer /\ posting["ack"] = NoBuffer
      /\ \A w \in Posters : posting[w] = NoBuffer
  BY DEF Init, Posters
<1>4. CreditInv
  BY <1>2, <1>3 DEF CreditInv
<1>5. SleepInv
  BY <1>2 DEF SleepInv, SleepsForAReason
<1>6. DeviceInv
  <2>1. IsList(qp) /\ Range(qp) \subseteq Range(queued)
    BY <1>2, EmptyList
  <2>2. queued = qp \o Posted
    <3>1. Posted = <<>>
      BY <1>3 DEF Posted
    <3> QED
      BY <1>2, <3>1
  <2> QED
    BY <1>3, <2>1, <2>2 DEF DeviceInv
<1>7. ConfigureInv
  BY DEF Init, ConfigureInv
<1>8. SendInv
  BY <1>2, EmptyList DEF SendInv, Increasing
<1>9. CallTypes
  <2>1. abortCalls \in Seq(0 .. submits)
    BY DEF Init
  <2> QED
    BY <2>1 DEF Init, CallTypes
<1>10. RequeueInv
  BY DEF Init, RequeueInv
<1>11. OnceInv
  <2>1. Owed = {} /\ DOMAIN abortCalls = {}
    BY <1>2, EmptyList DEF Owed, Init
  <2> QED
    BY <2>1 DEF Init, OnceInv
<1> QED
  BY <1>1, <1>4, <1>5, <1>6, <1>7, <1>8, <1>9, <1>10, <1>11 DEF IInv

LEMMA NextIInv == IInv /\ [Next]_vars => IInv'
  BY NextTypes, NextFifoStep, FifoStepLists, NextCredit, NextSleep, NextDevice, NextConfigure,
     NextSend, NextCallTypes, NextRequeue, NextOnce DEF IInv

\* The inductive invariant holds.
THEOREM Invariance == Spec => []IInv
  BY InitIInv, NextIInv, PTL DEF Spec

\* The assertion of HandleCompletion holds until the queue pair has refused a buffer or a
\* client could not handle a completion, whatever the depth of the queue pair: the work
\* requests are the queued buffers in order, but for the one being posted.
THEOREM CompletionOrder == Spec => []CompletesInOrder
<1>1. ASSUME IInv PROVE CompletesInOrder
  <2>1. TypeInv /\ DeviceInv
    BY <1>1 DEF IInv
  <2> QED
    BY <2>1, OldestFirst DEF CompletesInOrder
<1> QED
  BY <1>1, Invariance, PTL

\* Buffers are sent in the order of their submissions, however many credits arrive and
\* whenever they do.
THEOREM SendOrder == Spec => []SendsInOrder
<1>1. IInv => SendsInOrder
  BY DEF IInv, SendInv, SendsInOrder, Increasing
<1> QED
  BY <1>1, Invariance, PTL

\* A thread that sleeps in a wait has a reason to, with the exceptions the property names.
THEOREM SleepReason == Spec => []SleepsForAReason
<1>1. IInv => SleepsForAReason
  BY DEF IInv, SleepInv
<1> QED
  BY <1>1, Invariance, PTL

\* Each submission that was accepted is answered exactly once: what calls its callback, or
\* will, is the only one to hold it.
THEOREM AnsweredOnce == Spec => []CallbackExactlyOnce
<1>1. ASSUME IInv, ~strayed, ~orphaned, NEW s \in 1 .. submits
      PROVE  called[s] + Cardinality(CallbackHolders(s)) = IF s \in accepted THEN 1 ELSE 0
  <2> DEFINE H == CallbackHolders(s)
  <2>1. s \in Submissions /\ s # 0 /\ accepted \subseteq Submissions
    BY <1>1, BufferQueueAssumption DEF IInv, TypeInv, CallTypes, Submissions
  <2>2. OnceInv /\ (Owed # {} => DOMAIN abortCalls = {})
    <3>1. CASE aborted
      BY <1>1, <3>1, EmptyList DEF IInv, ListsInv, Owed
    <3>2. CASE ~aborted
      BY <1>1, <3>2 DEF IInv, CallTypes
    <3> QED
      BY <1>1, <3>1, <3>2 DEF IInv
  <2>3. H = {<<"buffer", b>> : b \in {c \in Owed : callback[c] = s}}
            \cup {<<"abort", i>> : i \in {j \in DOMAIN abortCalls : abortCalls[j] = s}}
            \cup {<<"poller", x>> : x \in {pollerCall} \cap {s}}
    BY DEF CallbackHolders, Owed
  <2> HIDE DEF H
  <2>4. CASE called[s] = 0 /\ H = {}
    <3>1. s \notin accepted
      <4>1. ~ \E b \in Owed : callback[b] = s
        BY <2>3, <2>4
      <4>2. ~ \E i \in DOMAIN abortCalls : abortCalls[i] = s
        BY <2>3, <2>4
      <4>3. pollerCall # s
        BY <2>3, <2>4
      <4> QED
        BY <1>1, <2>2, <2>4, <4>1, <4>2, <4>3 DEF OnceInv
    <3> QED
      BY <2>4, <3>1, FS_EmptySet DEF H
  <2>5. CASE called[s] = 1
    <3>1. /\ \A b \in Owed : callback[b] # s
          /\ \A i \in DOMAIN abortCalls : abortCalls[i] # s
          /\ pollerCall # s /\ s \in accepted
      BY <1>1, <2>1, <2>2, <2>5 DEF OnceInv
    <3>2. H = {}
      BY <2>3, <3>1
    <3> QED
      BY <2>5, <3>1, <3>2, FS_EmptySet DEF H
  <2>6. CASE called[s] = 0 /\ H # {}
    <3>1. s \in accepted
      BY <1>1, <2>1, <2>2, <2>3, <2>6 DEF OnceInv
    <3>2. \E x : H = {x}
      <4>1. CASE pollerCall = s
        <5>1. /\ \A b \in Owed : callback[b] # s
              /\ \A i \in DOMAIN abortCalls : abortCalls[i] # s
          BY <1>1, <2>1, <2>2, <4>1 DEF OnceInv
        <5>2. H = {<<"poller", s>>}
          BY <2>3, <4>1, <5>1
        <5> QED
          BY <5>2
      <4>2. ASSUME NEW b \in Owed, callback[b] = s
            PROVE  H = {<<"buffer", b>>}
        <5>1. pollerCall # s /\ DOMAIN abortCalls = {}
              /\ \A c \in Owed : callback[c] = s => c = b
          BY <1>1, <2>1, <2>2, <4>2 DEF OnceInv
        <5> QED
          BY <2>3, <4>2, <5>1
      <4>3. ASSUME NEW i \in DOMAIN abortCalls, abortCalls[i] = s
            PROVE  H = {<<"abort", i>>}
        <5>1. pollerCall # s /\ Owed = {}
              /\ \A j \in DOMAIN abortCalls : abortCalls[j] = s => j = i
          BY <1>1, <2>1, <2>2, <4>3 DEF OnceInv
        <5> QED
          BY <2>3, <4>3, <5>1
      <4> QED
        BY <2>3, <2>6, <4>1, <4>2, <4>3
    <3> QED
      BY <2>6, <3>1, <3>2, FS_Singleton DEF H
  <2>7. called[s] \in {0, 1}
    BY <1>1, <2>1, <2>2 DEF OnceInv
  <2> QED
    BY <2>4, <2>5, <2>6, <2>7
<1>2. IInv => CallbackExactlyOnce
  BY <1>1 DEF CallbackExactlyOnce
<1> QED
  BY <1>2, Invariance, PTL

-----------------------------------------------------------------------------
(* The ring that holds a list of buffers: it implements the bounded queue, *)
(* for every set of values and every capacity that it is given.  Its       *)
(* constants and variables have no part in BufferQueue.                    *)

\* A position in the ring wraps at most once.
LEMMA Wrap ==
    ASSUME NEW c \in Nat, NEW h \in Nat, h < c, NEW k \in 0 .. c
    PROVE  (h + k) % c = IF h + k < c THEN h + k ELSE h + k - c
  OBVIOUS

\* Different elements of a ring that is not full beyond its vector have different
\* places, all of them in the vector.
LEMMA Places ==
    ASSUME NEW c \in Nat, NEW h \in Nat, h < c
    PROVE  /\ \A k \in 0 .. c : (h + k) % c \in 0 .. c - 1
           /\ \A j, k \in 0 .. c - 1 : (h + j) % c = (h + k) % c => j = k
<1>1. \A k \in 0 .. c : (h + k) % c = IF h + k < c THEN h + k ELSE h + k - c
  BY Wrap
<1> QED
  BY <1>1

\* The place after the head is where the next element starts.
LEMMA Shift ==
    ASSUME NEW c \in Nat, NEW h \in Nat, h < c, NEW k \in 0 .. c - 1
    PROVE  (((h + 1) % c) + k) % c = (h + (k + 1)) % c
<1>1. (h + 1) % c = IF h + 1 < c THEN h + 1 ELSE h + 1 - c
  <2>1. 1 \in 0 .. c
    OBVIOUS
  <2> QED
    BY <2>1, Wrap
<1>2. (h + (k + 1)) % c = IF h + (k + 1) < c THEN h + (k + 1) ELSE h + (k + 1) - c
  <2>1. k + 1 \in 0 .. c
    OBVIOUS
  <2> QED
    BY <2>1, Wrap
<1>3. (h + 1) % c \in Nat /\ (h + 1) % c < c
  BY <1>1
<1>4. (((h + 1) % c) + k) % c =
        IF ((h + 1) % c) + k < c THEN ((h + 1) % c) + k ELSE ((h + 1) % c) + k - c
  <2>1. k \in 0 .. c
    OBVIOUS
  <2> QED
    BY <1>3, <2>1, Wrap
<1> QED
  BY <1>1, <1>2, <1>4

\* A new ring has its type.
LEMMA TypeInit == RingInit => RingTypeOK
  BY DEF RingInit, RingTypeOK

\* TypeOK is inductive: every call leaves head and size in range.
LEMMA TypeStep == RingTypeOK /\ [RingNext]_ringVars => RingTypeOK'
<1> SUFFICES ASSUME RingTypeOK, [RingNext]_ringVars PROVE RingTypeOK'
  OBVIOUS
<1>1. ASSUME NEW n \in Capacities, reallocate(n) PROVE RingTypeOK'
  BY <1>1, CapacitiesAssumption DEF RingTypeOK, reallocate, clear
<1>2. ASSUME NEW v \in Values, push(v) PROVE RingTypeOK'
  <2>1. /\ size \in Nat /\ capacity \in Nat /\ size + 1 <= capacity
        /\ size' = size + 1
        /\ seen' = v
        /\ UNCHANGED <<capacity, head>>
    BY <1>2 DEF RingTypeOK, push
  <2>2. buffer' \in [0 .. capacity' - 1 -> Values \cup {Null}]
    BY <1>2 DEF RingTypeOK, push
  <2>3. size' \in 0 .. capacity'
    BY <2>1
  <2> QED
    BY <2>1, <2>2, <2>3 DEF RingTypeOK
<1>3. CASE front
  <2>1. size > 0 /\ head < capacity
    BY <1>3 DEF front, RingTypeOK
  <2>2. getReadIndex(0) \in 0 .. capacity - 1
    BY <2>1, Places, 0 \in 0 .. capacity DEF RingTypeOK, getReadIndex
  <2> QED
    BY <1>3, <2>2 DEF RingTypeOK, front
<1>4. CASE pop
  <2>1. size >= 1 /\ head < capacity
    BY <1>4 DEF pop, RingTypeOK
  <2>2. (head + 1) % capacity \in 0 .. capacity - 1
    BY <2>1, Places, 1 \in 0 .. capacity DEF RingTypeOK
  <2> QED
    BY <1>4, <2>2 DEF RingTypeOK, pop
<1>5. CASE UNCHANGED ringVars
  BY <1>5 DEF RingTypeOK, ringVars
<1> QED
  BY <1>1, <1>2, <1>3, <1>4, <1>5 DEF RingNext

\* No index leaves the vector, however often the ring wraps: getReadIndex and
\* getWriteIndex, tCircularFifo.h.
THEOREM IndicesInRange == RingSpec => []RingTypeOK
  BY TypeInit, TypeStep, PTL DEF RingSpec

\* The contents of a ring in the vector b of size c, with the head h and s elements
Ring(b, c, h, s) == [i \in 1 .. s |-> b[(h + (i - 1)) % c]]

\* b, c, h and s describe a ring of elements of V
IsRing(V, b, c, h, s) ==
    /\ c \in Nat
    /\ b \in [0 .. c - 1 -> V]
    /\ h \in Nat /\ (h < c \/ h = 0)
    /\ s \in 0 .. c

\* The vector after v was written behind the s elements of a ring
Put(b, c, h, s, v) == [b EXCEPT ![(h + s) % c] = v]

\* The refinement mapping in terms of Ring.
LEMMA ContentsAreRing ==
    /\ contents = Ring(buffer, capacity, head, size)
    /\ contents' = Ring(buffer', capacity', head', size')
  BY DEF contents, getReadIndex, Ring

\* The contents are a sequence of as many values as the ring has elements.
LEMMA RingType ==
    ASSUME NEW V, NEW b, NEW c, NEW h, NEW s, IsRing(V, b, c, h, s)
    PROVE  /\ Ring(b, c, h, s) \in Seq(V)
           /\ Len(Ring(b, c, h, s)) = s
           /\ \A i \in 1 .. s : Ring(b, c, h, s)[i] = b[(h + (i - 1)) % c]
<1> USE DEF IsRing
<1>1. \A i \in 1 .. s : (h + (i - 1)) % c \in 0 .. c - 1
  <2> SUFFICES ASSUME NEW i \in 1 .. s PROVE (h + (i - 1)) % c \in 0 .. c - 1
    OBVIOUS
  <2>1. i - 1 \in 0 .. c /\ h < c
    OBVIOUS
  <2> QED
    BY <2>1, Places
<1>2. \A i \in 1 .. s : b[(h + (i - 1)) % c] \in V
  BY <1>1
<1>3. Ring(b, c, h, s) \in [1 .. s -> V]
  BY <1>2 DEF Ring
<1>4. Ring(b, c, h, s) \in Seq(V) /\ Len(Ring(b, c, h, s)) = s
  BY <1>3
<1> QED
  BY <1>4 DEF Ring

\* A new element is the last one, and none of the others is touched.
LEMMA RingPush ==
    ASSUME NEW V, NEW b, NEW c, NEW h, NEW s, IsRing(V, b, c, h, s), s < c, NEW v \in V
    PROVE  Ring(Put(b, c, h, s, v), c, h, s + 1) = Append(Ring(b, c, h, s), v)
<1>0. /\ c \in Nat /\ b \in [0 .. c - 1 -> V] /\ h \in Nat /\ h < c
      /\ s \in 0 .. c - 1 /\ s \in 0 .. c
  BY DEF IsRing
<1>9. /\ Ring(b, c, h, s) \in Seq(V) /\ Len(Ring(b, c, h, s)) = s
      /\ \A i \in 1 .. s : Ring(b, c, h, s)[i] = b[(h + (i - 1)) % c]
  BY RingType
<1> USE <1>0
<1> DEFINE w == (h + s) % c
           b2 == Put(b, c, h, s, v)
           old == Ring(b, c, h, s)
           new == Ring(b2, c, h, s + 1)
<1>1. w \in 0 .. c - 1 /\ \A i \in 1 .. s : (h + (i - 1)) % c # w
  <2>1. \A i \in 1 .. s : i - 1 \in 0 .. c - 1 /\ i - 1 # s
    OBVIOUS
  <2>2. /\ (h + s) % c \in 0 .. c - 1
        /\ \A j \in 0 .. c - 1 : (h + j) % c = (h + s) % c => j = s
    BY Places, s \in 0 .. c
  <2> QED
    BY <2>1, <2>2
<1>2. b2 \in [0 .. c - 1 -> V] /\ b2[w] = v /\ \A k \in 0 .. c - 1 \ {w} : b2[k] = b[k]
  BY <1>1 DEF Put
<1>3. old \in Seq(V) /\ Len(old) = s /\ \A i \in 1 .. s : old[i] = b[(h + (i - 1)) % c]
  BY <1>9
<1>4. /\ new \in Seq(V) /\ Len(new) = s + 1
      /\ \A i \in 1 .. s + 1 : new[i] = b2[(h + (i - 1)) % c]
  <2> DEFINE n == s + 1
  <2> HIDE DEF b2
  <2>1. IsRing(V, b2, c, h, n)
    BY <1>2 DEF IsRing
  <2> HIDE DEF n
  <2> HIDE <1>0
  <2>2. /\ Ring(b2, c, h, n) \in Seq(V) /\ Len(Ring(b2, c, h, n)) = n
        /\ \A i \in 1 .. n : Ring(b2, c, h, n)[i] = b2[(h + (i - 1)) % c]
    BY <2>1, RingType
  <2> QED
    BY <2>2 DEF n
<1>5. \A i \in 1 .. s : new[i] = old[i]
  <2> SUFFICES ASSUME NEW i \in 1 .. s PROVE new[i] = old[i]
    OBVIOUS
  <2>1. (h + (i - 1)) % c \in 0 .. c - 1
    <3>1. i - 1 \in 0 .. c
      OBVIOUS
    <3> QED
      BY <3>1, Places
  <2>2. i \in 1 .. s + 1
    OBVIOUS
  <2> HIDE DEF b2, w, old, new
  <2> QED
    BY <1>1, <1>2, <1>3, <1>4, <2>1, <2>2
<1>6. new[s + 1] = v
  <2>1. new[s + 1] = b2[(h + ((s + 1) - 1)) % c]
    <3>1. s + 1 \in 1 .. s + 1
      OBVIOUS
    <3> HIDE DEF b2, new
    <3> QED
      BY <1>4, <3>1
  <2>2. h + ((s + 1) - 1) = h + s
    OBVIOUS
  <2> QED
    BY <1>2, <2>1, <2>2
<1> HIDE DEF b2, w, old, new
<1>7. new = Append(old, v)
  BY <1>3, <1>4, <1>5, <1>6
<1> QED
  BY <1>7 DEF b2, w, old, new

\* Advancing the head drops the oldest element and moves the others up.
LEMMA RingPop ==
    ASSUME NEW V, NEW b, NEW c, NEW h, NEW s, IsRing(V, b, c, h, s), s > 0
    PROVE  Ring(b, c, (h + 1) % c, s - 1) = Tail(Ring(b, c, h, s))
<1>0. /\ c \in Nat /\ b \in [0 .. c - 1 -> V] /\ h \in Nat /\ h < c
      /\ s \in 1 .. c
  BY DEF IsRing
<1>9. /\ Ring(b, c, h, s) \in Seq(V) /\ Len(Ring(b, c, h, s)) = s
      /\ \A i \in 1 .. s : Ring(b, c, h, s)[i] = b[(h + (i - 1)) % c]
  BY RingType
<1> USE <1>0
<1> DEFINE old == Ring(b, c, h, s)
           new == Ring(b, c, (h + 1) % c, s - 1)
<1>1. old \in Seq(V) /\ Len(old) = s /\ \A i \in 1 .. s : old[i] = b[(h + (i - 1)) % c]
  BY <1>9
<1>2. (h + 1) % c \in Nat /\ (h + 1) % c < c
  <2>1. 1 \in 0 .. c
    OBVIOUS
  <2> QED
    BY <2>1, Places
<1>3. /\ new \in Seq(V) /\ Len(new) = s - 1
      /\ \A i \in 1 .. s - 1 : new[i] = b[(((h + 1) % c) + (i - 1)) % c]
  <2> DEFINE n == s - 1
             k == (h + 1) % c
  <2>1. IsRing(V, b, c, k, n)
    BY <1>2 DEF IsRing
  <2> HIDE DEF n, k
  <2>2. /\ Ring(b, c, k, n) \in Seq(V) /\ Len(Ring(b, c, k, n)) = n
        /\ \A i \in 1 .. n : Ring(b, c, k, n)[i] = b[(k + (i - 1)) % c]
    BY <2>1, RingType
  <2> QED
    BY <2>2 DEF n, k
<1>4. \A i \in 1 .. s - 1 : new[i] = old[i + 1]
  <2> SUFFICES ASSUME NEW i \in 1 .. s - 1 PROVE new[i] = old[i + 1]
    OBVIOUS
  <2>1. i - 1 \in 0 .. c - 1 /\ (i - 1) + 1 = (i + 1) - 1 /\ i + 1 \in 1 .. s
    OBVIOUS
  <2>2. (((h + 1) % c) + (i - 1)) % c = (h + ((i + 1) - 1)) % c
    BY <2>1, Shift
  <2> HIDE DEF old, new
  <2> QED
    BY <1>1, <1>3, <2>1, <2>2
<1> HIDE DEF old, new
<1>5. new = Tail(old)
  BY <1>1, <1>3, <1>4
<1> QED
  BY <1>5 DEF old, new

\* A new ring is an empty queue.
LEMMA RefinementInit == RingInit => Fifo!Init
<1> SUFFICES ASSUME RingInit PROVE Fifo!Init
  OBVIOUS
<1>1. contents = <<>>
  BY DEF RingInit, contents
<1> QED
  BY <1>1 DEF RingInit, Fifo!Init

\* Every call on the ring is the same call on the queue.
LEMMA RefinementStep == RingTypeOK /\ [RingNext]_ringVars => [Fifo!Next]_(Fifo!vars)
<1> SUFFICES ASSUME RingTypeOK, [RingNext]_ringVars PROVE [Fifo!Next]_(Fifo!vars)
  OBVIOUS
<1>1. ASSUME NEW n \in Capacities, reallocate(n) PROVE Fifo!Reallocate(n)
  <2>1. contents' = <<>>
    BY <1>1 DEF reallocate, clear, contents
  <2> QED
    BY <1>1, <2>1 DEF reallocate, Fifo!Reallocate
<1>0. IsRing(Values \cup {Null}, buffer, capacity, head, size)
  BY DEF RingTypeOK, IsRing
<1>2. ASSUME NEW v \in Values, push(v) PROVE Fifo!Push(v)
  <2>1. size < capacity /\ v \in Values \cup {Null}
    BY <1>2 DEF RingTypeOK, push
  <2>2. contents' = Ring(Put(buffer, capacity, head, size, v), capacity, head, size + 1)
    BY <1>2, ContentsAreRing DEF push, getWriteIndex, Put
  <2>3. contents' = Append(contents, v)
    <3>1. Ring(Put(buffer, capacity, head, size, v), capacity, head, size + 1)
            = Append(Ring(buffer, capacity, head, size), v)
      BY <1>0, <2>1, RingPush
    <3> QED
      BY <2>2, <3>1, ContentsAreRing
  <2>4. Len(contents) = size
    BY <1>0, RingType, ContentsAreRing
  <2> QED
    BY <1>2, <2>1, <2>3, <2>4 DEF push, Fifo!Push
<1>3. ASSUME front \/ pop
      PROVE  /\ capacity \in Nat /\ head \in Nat /\ head < capacity
             /\ size \in 1 .. capacity
             /\ buffer \in [0 .. capacity - 1 -> Values \cup {Null}]
             /\ contents # <<>>
             /\ Head(contents) = buffer[(head + 0) % capacity]
  <2>1. /\ capacity \in Nat /\ head \in Nat /\ head < capacity
        /\ size \in 1 .. capacity
        /\ buffer \in [0 .. capacity - 1 -> Values \cup {Null}]
    BY <1>3 DEF RingTypeOK, front, pop
  <2>2. /\ contents \in Seq(Values \cup {Null}) /\ Len(contents) = size
        /\ \A i \in 1 .. size : contents[i] = buffer[(head + (i - 1)) % capacity]
    BY <1>0, RingType, ContentsAreRing
  <2>3. contents # <<>> /\ Head(contents) = contents[1]
    BY <2>1, <2>2
  <2>4. contents[1] = buffer[(head + (1 - 1)) % capacity]
    BY <2>1, <2>2
  <2> QED
    BY <2>1, <2>3, <2>4
<1>4. CASE front
  <2>1. contents' = contents
    BY <1>4, ContentsAreRing DEF front
  <2>2. contents # <<>> /\ seen' = Head(contents)
    BY <1>3, <1>4 DEF front, getReadIndex
  <2>3. Fifo!Front
    BY <1>4, <2>1, <2>2 DEF front, Fifo!Front
  <2> QED
    BY <2>3 DEF Fifo!Next
<1>5. CASE pop
  <2>1. contents' = Ring(buffer, capacity, (head + 1) % capacity, size - 1)
    BY <1>5, ContentsAreRing DEF pop
  <2>2. contents' = Tail(contents)
    <3>1. size > 0
      BY <1>5 DEF RingTypeOK, pop
    <3>2. Ring(buffer, capacity, (head + 1) % capacity, size - 1)
            = Tail(Ring(buffer, capacity, head, size))
      BY <1>0, <3>1, RingPop
    <3> QED
      BY <2>1, <3>2, ContentsAreRing
  <2>3. Fifo!Pop
    BY <1>3, <1>5, <2>2 DEF pop, Fifo!Pop
  <2> QED
    BY <2>3 DEF Fifo!Next
<1>6. CASE UNCHANGED ringVars
  <2>1. contents' = contents
    BY <1>6, ContentsAreRing DEF ringVars
  <2> QED
    BY <1>6, <2>1 DEF ringVars, Fifo!vars
<1> QED
  BY <1>1, <1>2, <1>4, <1>5, <1>6 DEF RingNext, Fifo!Next

\* The ring implements a bounded first in, first out queue, for every capacity: push,
\* front and pop, tCircularFifo.h.
THEOREM RingImplementsFifo == RingSpec => ImplementsFifo
<1>1. RingInit /\ [][RingNext]_ringVars => []RingTypeOK
  BY TypeInit, TypeStep, PTL
<1> QED
  BY <1>1, RefinementInit, RefinementStep, PTL DEF RingSpec, ImplementsFifo, Fifo!Spec

=============================================================================
