------------------------- MODULE FlowControlProofs -------------------------
(***************************************************************************)
(* Theorems about FlowControl: in every behaviour, for every number of     *)
(* buffers, of credit buffers and of credits in a message, the credits and *)
(* the posted buffers agree, a message finds a buffer that it fits in, and *)
(* a credit message finds a credit buffer.                                 *)
(***************************************************************************)
EXTENDS FlowControl, WellFoundedInduction, SequenceTheorems, TLAPS

-----------------------------------------------------------------------------
(* The inductive invariant                                                 *)

\* The types of the variables
TypeInv ==
    /\ link \in BOOLEAN
    /\ connected \in [Ends -> BOOLEAN] /\ configured \in [Ends -> BOOLEAN]
    /\ transferStatus \in [Ends -> {"ok"} \cup Errors]
    /\ creditStatus \in [Ends -> {"ok"} \cup Errors]
    /\ disconnecting \in [Ends -> {"no", "begun", "transfer", "done"}]
    /\ preConfigureCredits \in Seq(Nat) /\ availableCredits \in Seq(Nat)
    /\ waiting \in Seq(Nat)
    /\ creditsPosted \in Nat /\ creditsDone \in Seq(Seq(Nat))
    /\ ackHandler \in [at : {"wait", "add", "timedOut", "fail", "gone"}, left : Seq(Nat)]
    /\ external \in BOOLEAN /\ bufferLen \in Nat /\ maxConcurrentTransactions \in Nat
    /\ idle \in Nat /\ held \in Nat /\ posted \in Seq(Nat)
    /\ creditsIdle \in Nat /\ creditsSent \in Nat
    /\ caller \in [at : Callers, call : {"none", "configure", "queue", "release"}]
    /\ owed \in Seq(Nat)
    /\ dataNet \in Seq(Nat) /\ creditNet \in Seq(Seq(Nat))
    /\ submitted \in Nat /\ posts \in Nat /\ unannounced \in BOOLEAN

\* AckHandlerThread has not met an error of a queue: it runs, or it ended between two
\* messages, when it woke up for nothing.
Adding == ackHandler.at \in {"wait", "add", "timedOut"}

\* While the connection is up neither end has begun to disconnect, and only the
\* sender's transfer queue can have failed: with a message that was too large.
UpInv ==
    link =>
        /\ \A e \in Ends : connected[e] /\ disconnecting[e] = "no"
        /\ \A e \in Ends : creditStatus[e] = "ok"
        /\ transferStatus["receiver"] = "ok"
        /\ ~Adding => configured["sender"]
        /\ ackHandler.at = "gone" => transferStatus["sender"] # "ok"

\* Where the sender keeps its credits: on one side of the configuration or on the
\* other; and the thread that waits for a message has none to add.
PlaceInv ==
    /\ ~configured["sender"] => availableCredits = <<>>
    /\ configured["sender"] => preConfigureCredits = <<>>
    /\ ackHandler.at = "wait" => ackHandler.left = <<>>

\* The credits on their way from the receiver to the messages, oldest first: all of
\* them, or those that are left when AckHandlerThread has ended.
Line(a, p, l, d, n, o) == ((((a \o p) \o l) \o d) \o n) \o o

Credits ==
    IF Adding
    THEN Line(availableCredits, preConfigureCredits, ackHandler.left,
              FlattenSeq(creditsDone), FlattenSeq(creditNet), owed)
    ELSE availableCredits \o preConfigureCredits

\* The messages d fit the first posted buffers p, and the credits c are the
\* lengths of the ones behind.
Covers(c, d, p) ==
    /\ Len(d) + Len(c) <= Len(p)
    /\ \A i \in 1 .. Len(d) : d[i] <= p[i]
    /\ \A j \in 1 .. Len(c) : c[j] = p[Len(d) + j]

CreditInv ==
    link =>
        /\ Len(dataNet) + Len(Credits) <= Len(posted)
        /\ ~unannounced => Covers(Credits, dataNet, posted)
        /\ ~unannounced /\ Adding => Len(dataNet) + Len(Credits) = Len(posted)

NoEmpty(s) == \A i \in 1 .. Len(s) : s[i] # <<>>

\* A call that has something to announce
Announcing == caller.at \in {"update", "asleep", "awake", "send"}

\* No credit message is empty.
MessageInv ==
    /\ NoEmpty(creditsDone) /\ NoEmpty(creditNet)
    /\ Announcing => owed # <<>>

\* While the connection is up every transfer buffer of the receiver is idle, held or
\* posted, and every credit buffer of the sender is posted, completed or being read.
TransferBuffers == idle + held + Len(posted) = maxConcurrentTransactions

SenderBuffers ==
    creditsPosted + Len(creditsDone) + (IF ackHandler.at = "add" THEN 1 ELSE 0)
        = CreditBuffers

BufferInv == link => TransferBuffers /\ (Adding => SenderBuffers)

IInv == TypeInv /\ UpInv /\ PlaceInv /\ CreditInv /\ MessageInv /\ BufferInv

-----------------------------------------------------------------------------
(* Induction over numbers, and what FlattenSeq computes                    *)

\* The order of the numbers is well founded (the library has the general theorem).
LEMMA NatWF == IsWellFoundedOn({ss \in Nat \X Nat : ss[1] < ss[2]}, Nat)
  BY NatLessThanWellFounded, Zenon DEF OpToRel

\* A set of numbers that is not empty has a least one: what is used of it.
LEMMA LeastNumber ==
    ASSUME NEW T \in SUBSET Nat, T # {}
    PROVE  \E n \in T : \A m \in T : n <= m
<1>1. PICK n \in T : \A m \in T : ~ (<<m, n>> \in {ss \in Nat \X Nat : ss[1] < ss[2]})
  BY WFMin, NatWF
<1>2. ASSUME NEW m \in T
      PROVE  n <= m
  <2>1. m \in Nat /\ n \in Nat
    OBVIOUS
  <2>2. ~(m < n)
    BY <1>1, <2>1
  <2> QED
    BY <2>1, <2>2
<1> QED
  BY <1>2

\* Induction over the numbers, for a set in place of a predicate.
LEMMA Induction ==
    ASSUME NEW T \in SUBSET Nat, 0 \in T, \A n \in Nat : n \in T => n + 1 \in T
    PROVE  T = Nat
<1>1. SUFFICES ASSUME Nat \ T # {} PROVE FALSE
  OBVIOUS
<1>2. PICK n \in Nat \ T : \A m \in Nat \ T : n <= m
  BY <1>1, LeastNumber
<1>3. n # 0 /\ n - 1 \in Nat
  BY <1>2
<1>4. n - 1 \in T
  BY <1>2, <1>3
<1> QED
  BY <1>2, <1>3, <1>4

\* Induction along a sequence
LEMMA IndexInduction ==
    ASSUME NEW n \in Nat, NEW T, 1 \in T, \A i \in 1 .. n - 1 : i \in T => i + 1 \in T
    PROVE  \A i \in 1 .. n : i \in T
<1> DEFINE U == {i \in Nat : i \in 1 .. n => i \in T}
<1>1. 0 \in U /\ U \in SUBSET Nat
  OBVIOUS
<1>2. ASSUME NEW i \in Nat, i \in U
      PROVE  i + 1 \in U
  BY <1>2
<1> HIDE DEF U
<1>3. U = Nat
  BY <1>1, <1>2, Induction
<1>4. ASSUME NEW i \in 1 .. n
      PROVE  i \in T
  <2>1. i \in U
    BY <1>3
  <2> QED
    BY <2>1 DEF U
<1> QED
  BY <1>4

\* The recursion in FlattenSeq defines a function.
LEMMA FlattenRecursion ==
    ASSUME NEW S, NEW s \in Seq(Seq(S)), s # <<>>
    PROVE  \E f \in [1 .. Len(s) -> Seq(S)] :
              /\ FlattenSeq(s) = f[Len(s)]
              /\ f[1] = s[1]
              /\ \A i \in 2 .. Len(s) : f[i] = f[i - 1] \o s[i]
<1> DEFINE Step(f, i) == IF i = 1 THEN s[i] ELSE f[i - 1] \o s[i]
           Solves(f, n) == \A i \in 1 .. n : f[i] = Step(f, i)
           Solvable(n) == \E f \in [1 .. n -> Seq(S)] : Solves(f, n)
           T == {n \in Nat : n <= Len(s) => Solvable(n)}
<1>0. Len(s) \in Nat /\ Len(s) # 0 /\ \A i \in 1 .. Len(s) : s[i] \in Seq(S)
  BY EmptySeq, LenProperties
<1>1. Solvable(0)
  <2>1. [i \in 1 .. 0 |-> <<>>] \in [1 .. 0 -> Seq(S)] /\ \A i \in 1 .. 0 : FALSE
    OBVIOUS
  <2> QED
    BY <2>1
<1>2. ASSUME NEW n \in Nat, n + 1 <= Len(s), Solvable(n)
      PROVE  Solvable(n + 1)
  <2> HIDE DEF Step
  <2>2. PICK f \in [1 .. n -> Seq(S)] : Solves(f, n)
    BY <1>2
  <2> DEFINE g == [i \in 1 .. n + 1 |-> IF i <= n THEN f[i] ELSE Step(f, n + 1)]
  <2>3. Step(f, n + 1) \in Seq(S)
    <3>1. CASE n = 0
      BY <1>0, <1>2, <3>1 DEF Step
    <3>2. CASE n # 0
      <4>1. f[n] \in Seq(S) /\ s[n + 1] \in Seq(S)
        BY <1>0, <1>2, <3>2
      <4>2. f[n] \o s[n + 1] \in Seq(S)
        BY <4>1
      <4> QED
        BY <3>2, <4>2 DEF Step
    <3> QED
      BY <3>1, <3>2
  <2>4. g \in [1 .. n + 1 -> Seq(S)]
    BY <2>3
  <2>5. ASSUME NEW i \in 1 .. n + 1
        PROVE  g[i] = Step(g, i)
    <3>1. i # 1 => g[i - 1] = f[i - 1]
      OBVIOUS
    <3>2. Step(g, i) = Step(f, i)
      BY <3>1 DEF Step
    <3>3. i <= n => f[i] = Step(f, i)
      BY <2>2
    <3>4. i <= n \/ i = n + 1
      OBVIOUS
    <3> QED
      BY <3>2, <3>3, <3>4
  <2> HIDE DEF g
  <2> QED
    BY <2>4, <2>5
<1>3. Solvable(Len(s))
  <2> HIDE DEF Solvable
  <2>1. T \in SUBSET Nat /\ 0 \in T /\ \A n \in Nat : n \in T => n + 1 \in T
    BY <1>0, <1>1, <1>2
  <2> HIDE DEF T
  <2>2. T = Nat
    BY <2>1, Induction
  <2>3. Len(s) \in T
    BY <1>0, <2>2
  <2> QED
    BY <1>0, <2>3 DEF T
<1> DEFINE Image(h) == [i \in 1 .. Len(s) |-> Step(h, i)]
           c == CHOOSE h : h = Image(h)
<1>4. PICK f \in [1 .. Len(s) -> Seq(S)] : Solves(f, Len(s))
  BY <1>3
<1>5. f = Image(f)
  <2> HIDE DEF Step
  <2> QED
    BY <1>4
<1>6. c = Image(c)
  <2> HIDE DEF Image
  <2> QED
    BY <1>5
<1>7. FlattenSeq(s) = c[Len(s)]
  BY <1>0 DEF FlattenSeq
<1> HIDE DEF c
<1>8. \A i \in 1 .. Len(s) : c[i] = Step(c, i)
  <2>1. \A i \in 1 .. Len(s) : Image(c)[i] = Step(c, i)
    BY DEF Image
  <2> HIDE DEF Image, Step
  <2> QED
    BY <1>6, <2>1
<1>9. DOMAIN c = 1 .. Len(s) /\ c = [i \in DOMAIN c |-> c[i]]
  <2> HIDE DEF Step
  <2>1. DOMAIN Image(c) = 1 .. Len(s) /\ Image(c) = [i \in DOMAIN Image(c) |-> Image(c)[i]]
    BY DEF Image
  <2> HIDE DEF Image
  <2> QED
    BY <1>6, <2>1
<1>10. c[1] = s[1] /\ \A i \in 2 .. Len(s) : c[i] = c[i - 1] \o s[i]
  <2>1. 1 \in 1 .. Len(s) /\ \A i \in 2 .. Len(s) : i \in 1 .. Len(s) /\ i # 1
    BY <1>0
  <2>2. c[1] = Step(c, 1) /\ \A i \in 2 .. Len(s) : c[i] = Step(c, i)
    <3> HIDE DEF Step
    <3> QED
      BY <1>8, <2>1
  <2>3. ASSUME NEW i \in 2 .. Len(s)
        PROVE  c[i] = c[i - 1] \o s[i]
    <3>1. Step(c, i) = c[i - 1] \o s[i]
      BY <2>1
    <3>2. c[i] = Step(c, i)
      BY <2>2
    <3> HIDE DEF Step
    <3> QED
      BY <3>1, <3>2
  <2> QED
    BY <2>2, <2>3
<1> DEFINE U == {i \in 1 .. Len(s) : c[i] \in Seq(S)}
<1>11. \A i \in 1 .. Len(s) : c[i] \in Seq(S)
  <2>1. 1 \in U
    BY <1>0, <1>10
  <2>2. ASSUME NEW i \in 1 .. Len(s) - 1, i \in U
        PROVE  i + 1 \in U
    <3>1. c[i] \in Seq(S) /\ s[i + 1] \in Seq(S) /\ i + 1 \in 2 .. Len(s) /\ (i + 1) - 1 = i
      BY <1>0, <2>2
    <3>2. c[i + 1] = c[i] \o s[i + 1]
      BY <1>10, <3>1
    <3>3. c[i] \o s[i + 1] \in Seq(S)
      BY <3>1, ConcatProperties
    <3>4. c[i + 1] \in Seq(S) /\ i + 1 \in 1 .. Len(s)
      BY <1>0, <3>2, <3>3
    <3> QED
      BY <3>4
  <2> HIDE DEF U
  <2>3. \A i \in 1 .. Len(s) : i \in U
    BY <1>0, <2>1, <2>2, IndexInduction
  <2> QED
    BY <2>3 DEF U
<1>12. c \in [1 .. Len(s) -> Seq(S)]
  BY <1>9, <1>11
<1> QED
  BY <1>7, <1>10, <1>12

\* No message, no credits.
LEMMA FlattenEmpty == FlattenSeq(<<>>) = <<>>
  BY DEF FlattenSeq

\* One message
LEMMA FlattenOne ==
    ASSUME NEW S, NEW x \in Seq(S)
    PROVE  FlattenSeq(<<x>>) = x
<1>1. <<x>> \in Seq(Seq(S)) /\ <<x>> # <<>> /\ Len(<<x>>) = 1 /\ <<x>>[1] = x
  OBVIOUS
<1>2. PICK f \in [1 .. Len(<<x>>) -> Seq(S)] :
          FlattenSeq(<<x>>) = f[Len(<<x>>)] /\ f[1] = <<x>>[1]
  BY <1>1, FlattenRecursion
<1> QED
  BY <1>1, <1>2

\* One more message
LEMMA FlattenAppend ==
    ASSUME NEW S, NEW s \in Seq(Seq(S)), NEW x \in Seq(S)
    PROVE  FlattenSeq(s) \in Seq(S) /\ FlattenSeq(Append(s, x)) = FlattenSeq(s) \o x
<1>1. CASE s = <<>>
  <2>1. Append(s, x) = <<x>> /\ FlattenSeq(s) = <<>>
    BY <1>1, FlattenEmpty
  <2>2. <<>> \o x = x /\ <<>> \in Seq(S)
    BY ConcatEmptySeq
  <2> QED
    BY <2>1, <2>2, FlattenOne
<1>2. CASE s # <<>>
  <2> DEFINE a == Append(s, x)
  <2>0. /\ Len(s) \in Nat /\ Len(s) # 0 /\ a \in Seq(Seq(S)) /\ a # <<>> /\ Len(a) = Len(s) + 1
        /\ a[Len(s) + 1] = x /\ \A i \in 1 .. Len(s) : a[i] = s[i] /\ s[i] \in Seq(S)
    BY <1>2, EmptySeq, LenProperties, AppendProperties
  <2> HIDE DEF a
  <2>1. PICK f \in [1 .. Len(s) -> Seq(S)] :
            /\ FlattenSeq(s) = f[Len(s)] /\ f[1] = s[1]
            /\ \A i \in 2 .. Len(s) : f[i] = f[i - 1] \o s[i]
    BY <1>2, FlattenRecursion
  <2>2. PICK g \in [1 .. Len(a) -> Seq(S)] :
            /\ FlattenSeq(a) = g[Len(a)] /\ g[1] = a[1]
            /\ \A i \in 2 .. Len(a) : g[i] = g[i - 1] \o a[i]
    <3>1. a \in Seq(Seq(S)) /\ a # <<>>
      BY <2>0
    <3> QED
      BY <3>1, FlattenRecursion
  <2> DEFINE T == {i \in 1 .. Len(s) : g[i] = f[i]}
  <2>3. 1 \in T
    BY <2>0, <2>1, <2>2
  <2>4. ASSUME NEW i \in 1 .. Len(s) - 1, i \in T
        PROVE  i + 1 \in T
    <3>1. i + 1 \in 2 .. Len(s) /\ i + 1 \in 2 .. Len(a) /\ (i + 1) - 1 = i
      BY <2>0
    <3>2. f[i + 1] = f[i] \o s[i + 1] /\ g[i + 1] = g[i] \o a[i + 1]
      BY <2>1, <2>2, <3>1
    <3>3. a[i + 1] = s[i + 1] /\ g[i] = f[i]
      BY <2>0, <2>4, <3>1
    <3>4. g[i + 1] = f[i + 1] /\ i + 1 \in 1 .. Len(s)
      BY <2>0, <3>2, <3>3
    <3> QED
      BY <3>4
  <2>5. Len(s) \in T
    <3> HIDE DEF T
    <3>1. Len(s) \in Nat /\ Len(s) \in 1 .. Len(s)
      BY <2>0
    <3>2. \A i \in 1 .. Len(s) : i \in T
      BY <2>3, <2>4, <3>1, IndexInduction
    <3> QED
      BY <3>1, <3>2
  <2>6. g[Len(s) + 1] = g[Len(s)] \o x
    <3>1. Len(s) + 1 \in 2 .. Len(a) /\ (Len(s) + 1) - 1 = Len(s)
      BY <2>0
    <3> QED
      BY <2>0, <2>2, <3>1
  <2>7. f[Len(s)] \in Seq(S)
    <3>1. Len(s) \in 1 .. Len(s)
      BY <2>0
    <3> QED
      BY <3>1
  <2> QED
    BY <2>0, <2>1, <2>2, <2>5, <2>6, <2>7 DEF a
<1> QED
  BY <1>1, <1>2

Associate(p, q, r) == (p \o q) \o r = p \o (q \o r)

LEMMA Regroup == \A S : \A p, q, r \in Seq(S) : Associate(p, q, r)
  BY ConcatAssociative DEF Associate

\* The oldest message goes
LEMMA FlattenTail ==
    ASSUME NEW S, NEW s \in Seq(Seq(S)), s # <<>>
    PROVE  FlattenSeq(s) = Head(s) \o FlattenSeq(Tail(s))
<1> DEFINE t == Tail(s)
<1>0. /\ Len(s) \in Nat /\ Len(s) # 0 /\ t \in Seq(Seq(S)) /\ Len(t) = Len(s) - 1 /\ s[1] = Head(s)
      /\ \A i \in 1 .. Len(t) : t[i] = s[i + 1]
      /\ \A i \in 1 .. Len(s) : s[i] \in Seq(S)
  BY EmptySeq, LenProperties, HeadTailProperties
<1> HIDE DEF t
<1>1. PICK f \in [1 .. Len(s) -> Seq(S)] :
          /\ FlattenSeq(s) = f[Len(s)] /\ f[1] = s[1]
          /\ \A i \in 2 .. Len(s) : f[i] = f[i - 1] \o s[i]
  BY FlattenRecursion
<1>2. CASE t = <<>>
  <2>1. Len(s) = 1 /\ FlattenSeq(t) = <<>>
    BY <1>0, <1>2, FlattenEmpty
  <2>2. s[1] \o <<>> = s[1]
    BY <1>0, ConcatEmptySeq
  <2> QED
    BY <1>0, <1>1, <2>1, <2>2 DEF t
<1>3. CASE t # <<>>
  <2>1. PICK g \in [1 .. Len(t) -> Seq(S)] :
            /\ FlattenSeq(t) = g[Len(t)] /\ g[1] = t[1]
            /\ \A i \in 2 .. Len(t) : g[i] = g[i - 1] \o t[i]
    <3>1. t \in Seq(Seq(S)) /\ t # <<>>
      BY <1>0, <1>3
    <3> QED
      BY <3>1, FlattenRecursion
  <2>2. Len(t) \in Nat /\ Len(t) # 0 /\ Len(s) = Len(t) + 1
    <3>1. t \in Seq(Seq(S)) /\ Len(t) = Len(s) - 1 /\ Len(s) \in Nat
      BY <1>0
    <3>2. Len(t) \in Nat /\ Len(t) # 0
      BY <1>3, <3>1, EmptySeq, LenProperties
    <3> QED
      BY <3>1, <3>2
  <2> DEFINE T == {i \in 1 .. Len(t) : f[i + 1] = s[1] \o g[i]}
  <2>3. 1 \in T
    <3>1. 2 \in 2 .. Len(s) /\ 1 \in 1 .. Len(t) /\ 2 - 1 = 1 /\ 1 + 1 = 2
      BY <1>0, <2>2
    <3>2. f[2] = f[1] \o s[2] /\ t[1] = s[2]
      BY <1>0, <1>1, <3>1
    <3>3. f[2] = s[1] \o g[1]
      BY <1>1, <2>1, <3>2
    <3> QED
      BY <3>1, <3>3
  <2>4. ASSUME NEW i \in 1 .. Len(t) - 1, i \in T
        PROVE  i + 1 \in T
    <3>1. i + 2 \in 2 .. Len(s) /\ i + 1 \in 2 .. Len(t) /\ (i + 1) - 1 = i /\ (i + 2) - 1 = i + 1
          /\ (i + 1) + 1 = i + 2
      BY <1>0, <2>2
    <3>2. f[i + 2] = f[i + 1] \o s[i + 2] /\ g[i + 1] = g[i] \o t[i + 1]
      BY <1>1, <2>1, <3>1
    <3>3. s[i + 2] = t[i + 1] /\ f[i + 1] = s[1] \o g[i]
      <4>1. i + 1 \in 1 .. Len(t)
        BY <2>2
      <4> QED
        BY <1>0, <2>4, <3>1, <4>1
    <3>4. s[1] \in Seq(S) /\ g[i] \in Seq(S) /\ t[i + 1] \in Seq(S)
      <4>1. 1 \in 1 .. Len(s) /\ i \in 1 .. Len(t) /\ i + 2 \in 1 .. Len(s)
        BY <1>0, <2>2
      <4> QED
        BY <1>0, <2>1, <3>3, <4>1
    <3>5. Associate(s[1], g[i], t[i + 1])
      BY <3>4, Regroup
    <3>6. f[(i + 1) + 1] = s[1] \o g[i + 1]
      BY <3>1, <3>2, <3>3, <3>5 DEF Associate
    <3>7. i + 1 \in 1 .. Len(t)
      BY <2>2
    <3> QED
      BY <3>6, <3>7
  <2>5. Len(t) \in T
    <3> HIDE DEF T
    <3>1. Len(t) \in Nat /\ Len(t) \in 1 .. Len(t)
      BY <2>2
    <3>2. \A i \in 1 .. Len(t) : i \in T
      BY <2>3, <2>4, <3>1, IndexInduction
    <3> QED
      BY <3>1, <3>2
  <2> QED
    BY <1>0, <1>1, <2>1, <2>2, <2>5 DEF t
<1> QED
  BY <1>2, <1>3

\* Messages are no more than the credits in them, if none is empty.
LEMMA FlattenLong ==
    ASSUME NEW S, NEW s \in Seq(Seq(S)), \A i \in 1 .. Len(s) : s[i] # <<>>
    PROVE  Len(s) <= Len(FlattenSeq(s))
<1>1. CASE s = <<>>
  BY <1>1, FlattenEmpty
<1>2. CASE s # <<>>
  <2>0. Len(s) \in Nat /\ Len(s) # 0
        /\ \A i \in 1 .. Len(s) : s[i] \in Seq(S) /\ Len(s[i]) \in Nat /\ Len(s[i]) >= 1
    BY <1>2, EmptySeq, LenProperties
  <2>1. PICK f \in [1 .. Len(s) -> Seq(S)] :
            /\ FlattenSeq(s) = f[Len(s)] /\ f[1] = s[1]
            /\ \A i \in 2 .. Len(s) : f[i] = f[i - 1] \o s[i]
    BY <1>2, FlattenRecursion
  <2> DEFINE T == {i \in 1 .. Len(s) : i <= Len(f[i])}
  <2>2. 1 \in T
    BY <2>0, <2>1
  <2>3. ASSUME NEW i \in 1 .. Len(s) - 1, i \in T
        PROVE  i + 1 \in T
    <3>1. i + 1 \in 2 .. Len(s) /\ i + 1 \in 1 .. Len(s) /\ (i + 1) - 1 = i
      BY <2>0
    <3>2. f[i + 1] = f[i] \o s[i + 1] /\ f[i] \in Seq(S) /\ s[i + 1] \in Seq(S)
      <4>1. i \in 1 .. Len(s)
        BY <2>0
      <4> QED
        BY <2>0, <2>1, <3>1, <4>1
    <3>3. Len(f[i + 1]) = Len(f[i]) + Len(s[i + 1])
      BY <3>2, ConcatProperties
    <3>4. Len(f[i]) \in Nat /\ i <= Len(f[i]) /\ Len(s[i + 1]) \in Nat /\ Len(s[i + 1]) >= 1
      BY <2>0, <2>3, <3>1, <3>2, LenProperties
    <3>5. i + 1 <= Len(f[i + 1])
      <4>1. \A l, m \in Nat : i <= l /\ m >= 1 => i + 1 <= l + m
        OBVIOUS
      <4> QED
        BY <3>3, <3>4, <4>1
    <3> QED
      BY <3>1, <3>5
  <2>4. Len(s) \in T
    <3> HIDE DEF T
    <3> QED
      BY <2>0, <2>2, <2>3, IndexInduction
  <2> QED
    BY <2>1, <2>4
<1> QED
  BY <1>1, <1>2

-----------------------------------------------------------------------------
(* Lines of credits: a credit moves from one place to the next             *)

\* What a chain of concatenations may be rewritten to
Shift(x, q, h, r) == (x \o (q \o h)) \o r = (x \o q) \o (h \o r)

LEMMA Shifting == \A S : \A x, q, h, r \in Seq(S) : Shift(x, q, h, r)
<1>1. ASSUME NEW S, NEW x \in Seq(S), NEW q \in Seq(S), NEW h \in Seq(S), NEW r \in Seq(S)
      PROVE  Shift(x, q, h, r)
  <2>1. x \o q \in Seq(S) /\ (x \o q) \o h \in Seq(S)
    BY ConcatProperties
  <2>2. Associate(x, q, h) /\ Associate(x \o q, h, r)
    BY <2>1, Regroup
  <2> QED
    BY <2>2 DEF Associate, Shift
<1> QED
  BY <1>1

\* The whole line is a sequence as long as its parts together.
LineTyped(a, p, l, d, n, o) ==
    /\ Line(a, p, l, d, n, o) \in Seq(Nat)
    /\ Len(Line(a, p, l, d, n, o)) = Len(a) + Len(p) + Len(l) + Len(d) + Len(n) + Len(o)

LEMMA LineType ==
    ASSUME NEW a \in Seq(Nat), NEW p \in Seq(Nat), NEW l \in Seq(Nat), NEW d \in Seq(Nat),
           NEW n \in Seq(Nat), NEW o \in Seq(Nat)
    PROVE  LineTyped(a, p, l, d, n, o)
<1>1. a \o p \in Seq(Nat) /\ Len(a \o p) = Len(a) + Len(p)
  BY ConcatProperties
<1>2. (a \o p) \o l \in Seq(Nat) /\ Len((a \o p) \o l) = Len(a) + Len(p) + Len(l)
  BY <1>1, ConcatProperties
<1>3. /\ ((a \o p) \o l) \o d \in Seq(Nat)
      /\ Len(((a \o p) \o l) \o d) = Len(a) + Len(p) + Len(l) + Len(d)
  BY <1>2, ConcatProperties
<1>4. /\ (((a \o p) \o l) \o d) \o n \in Seq(Nat)
      /\ Len((((a \o p) \o l) \o d) \o n) = Len(a) + Len(p) + Len(l) + Len(d) + Len(n)
  BY <1>3, ConcatProperties
<1> QED
  BY <1>4, ConcatProperties DEF Line, LineTyped

\* At least the two parts in the middle are in what fits.
LEMMA MiddleFits ==
    \A a, p, l, d, n, o, k, q \in Nat :
        k + (a + p + l + d + n + o) <= q => d + n <= q
OBVIOUS

\* Two parts of a sum that is less than c leave one out.
LEMMA OneLess ==
    \A x, y, d, n, q, c \in Nat :
        x <= d /\ y <= n /\ d + n <= q /\ q < c => x + y + 1 <= c
OBVIOUS

LEMMA WhatIsLeft ==
    \A x, y, k, c \in Nat :
        x + y + 1 <= c /\ (k + x + 1 = c \/ k + x + 0 = c) => y <= k
OBVIOUS

\* ConfigureSender
LEMMA LineConfigure ==
    ASSUME NEW p \in Seq(Nat), NEW l, NEW d, NEW n, NEW o
    PROVE  Line(<<>>, p, l, d, n, o) = Line(p, <<>>, l, d, n, o)
<1>1. <<>> \o p = p /\ p \o <<>> = p
  BY ConcatEmptySeq
<1> QED
  BY <1>1 DEF Line

\* The oldest credit is used.
LineUses(h, a, p, l, d, n, o) ==
    Line(h \o a, p, l, d, n, o) = h \o Line(a, p, l, d, n, o)

LEMMA LineUse ==
    ASSUME NEW h \in Seq(Nat), NEW a \in Seq(Nat), NEW p \in Seq(Nat), NEW l \in Seq(Nat),
           NEW d \in Seq(Nat), NEW n \in Seq(Nat), NEW o \in Seq(Nat)
    PROVE  LineUses(h, a, p, l, d, n, o)
<1> DEFINE w == a \o p
           x == w \o l
           y == x \o d
           z == y \o n
<1>1. /\ h \in Seq(Nat) /\ w \in Seq(Nat) /\ x \in Seq(Nat) /\ y \in Seq(Nat)
      /\ z \in Seq(Nat)
  <2>1. h \in Seq(Nat) /\ w \in Seq(Nat)
    BY ConcatProperties
  <2>2. x \in Seq(Nat)
    BY <2>1, ConcatProperties
  <2>3. y \in Seq(Nat)
    BY <2>2, ConcatProperties
  <2>4. z \in Seq(Nat)
    BY <2>3, ConcatProperties
  <2> QED
    BY <2>1, <2>2, <2>3, <2>4
<1>2. /\ Line(h \o a, p, l, d, n, o) = (((((h \o a) \o p) \o l) \o d) \o n) \o o
      /\ Line(a, p, l, d, n, o) = z \o o
  BY DEF Line
<1>3. w = a \o p /\ x = w \o l /\ y = x \o d /\ z = y \o n
  OBVIOUS
<1> HIDE DEF w, x, y, z
<1>4. /\ Associate(h, a, p) /\ Associate(h, w, l) /\ Associate(h, x, d)
      /\ Associate(h, y, n) /\ Associate(h, z, o)
  BY <1>1, Regroup
<1>5. /\ (h \o a) \o p = h \o w
      /\ (h \o w) \o l = h \o x
      /\ (h \o x) \o d = h \o y
      /\ (h \o y) \o n = h \o z
      /\ (h \o z) \o o = h \o (z \o o)
  BY <1>3, <1>4 DEF Associate
<1> QED
  BY <1>2, <1>5 DEF LineUses

\* AckTake: AckHandlerThread has the message with the credits h
LEMMA LineTake ==
    ASSUME NEW a \in Seq(Nat), NEW p \in Seq(Nat), NEW h \in Seq(Nat), NEW d \in Seq(Nat),
           NEW n, NEW o
    PROVE  Line(a, p, <<>>, h \o d, n, o) = Line(a, p, h, d, n, o)
<1> DEFINE w == a \o p
<1>1. w \in Seq(Nat) /\ <<>> \in Seq(Nat)
  BY ConcatProperties
<1>2. /\ Line(a, p, <<>>, h \o d, n, o) = (((w \o <<>>) \o (h \o d)) \o n) \o o
      /\ Line(a, p, h, d, n, o) = (((w \o h) \o d) \o n) \o o
  BY DEF Line
<1> HIDE DEF w
<1>3. w \o <<>> = w
  BY <1>1, ConcatEmptySeq
<1>4. Associate(w, h, d)
  BY <1>1, Regroup
<1> QED
  BY <1>2, <1>3, <1>4 DEF Associate

\* AddCredit before the configuration
LEMMA LineAdd ==
    ASSUME NEW a \in Seq(Nat), NEW p \in Seq(Nat), NEW c \in Nat, NEW l \in Seq(Nat),
           NEW d, NEW n, NEW o
    PROVE  Line(a, p \o <<c>>, l, d, n, o) = Line(a, p, <<c>> \o l, d, n, o)
<1>1. <<c>> \in Seq(Nat)
  OBVIOUS
<1>2. Shift(a, p, <<c>>, l)
  BY <1>1, Shifting
<1> QED
  BY <1>2 DEF Shift, Line

\* AddCredit after it
LEMMA LineGive ==
    ASSUME NEW a \in Seq(Nat), NEW c \in Nat, NEW l \in Seq(Nat), NEW d, NEW n, NEW o
    PROVE  Line(a \o <<c>>, <<>>, l, d, n, o) = Line(a, <<>>, <<c>> \o l, d, n, o)
<1>1. <<c>> \in Seq(Nat) /\ a \o <<c>> \in Seq(Nat)
  OBVIOUS
<1>2. (a \o <<c>>) \o <<>> = a \o <<c>> /\ a \o <<>> = a
  BY <1>1, ConcatEmptySeq
<1>3. Associate(a, <<c>>, l)
  BY <1>1, Regroup
<1> QED
  BY <1>2, <1>3 DEF Associate, Line

\* SendCreditUpdate
LineSends(a, p, l, d, n, h, o) ==
    Line(a, p, l, d, n \o h, o) = Line(a, p, l, d, n, h \o o)

LEMMA LineSend ==
    ASSUME NEW a \in Seq(Nat), NEW p \in Seq(Nat), NEW l \in Seq(Nat), NEW d \in Seq(Nat),
           NEW n \in Seq(Nat), NEW h \in Seq(Nat), NEW o \in Seq(Nat)
    PROVE  LineSends(a, p, l, d, n, h, o)
<1> DEFINE y == ((a \o p) \o l) \o d
<1>1. y \in Seq(Nat)
  <2>1. a \o p \in Seq(Nat)
    BY ConcatProperties
  <2>2. (a \o p) \o l \in Seq(Nat)
    BY <2>1, ConcatProperties
  <2> QED
    BY <2>2, ConcatProperties
<1>2. /\ Line(a, p, l, d, n \o h, o) = (y \o (n \o h)) \o o
      /\ Line(a, p, l, d, n, h \o o) = (y \o n) \o (h \o o)
  BY DEF Line
<1> HIDE DEF y
<1>3. Shift(y, n, h, o)
  BY <1>1, Shifting
<1> QED
  BY <1>2, <1>3 DEF Shift, LineSends

\* DeliverCredit
LineArrives(a, p, l, d, h, n, o) ==
    Line(a, p, l, d \o h, n, o) = Line(a, p, l, d, h \o n, o)

LEMMA LineArrive ==
    ASSUME NEW a \in Seq(Nat), NEW p \in Seq(Nat), NEW l \in Seq(Nat), NEW d \in Seq(Nat),
           NEW h \in Seq(Nat), NEW n \in Seq(Nat), NEW o
    PROVE  LineArrives(a, p, l, d, h, n, o)
<1> DEFINE x == (a \o p) \o l
<1>1. x \in Seq(Nat)
  <2>1. a \o p \in Seq(Nat)
    BY ConcatProperties
  <2> QED
    BY <2>1, ConcatProperties
<1>2. /\ Line(a, p, l, d \o h, n, o) = ((x \o (d \o h)) \o n) \o o
      /\ Line(a, p, l, d, h \o n, o) = ((x \o d) \o (h \o n)) \o o
  BY DEF Line
<1> HIDE DEF x
<1>3. Shift(x, d, h, n)
  BY <1>1, Shifting
<1> QED
  BY <1>2, <1>3 DEF Shift, LineArrives

\* A buffer is posted and its credit owed.
LinePosts(a, p, l, d, n, o, h) ==
    Line(a, p, l, d, n, o \o h) = Line(a, p, l, d, n, o) \o h

LEMMA LinePost ==
    ASSUME NEW a \in Seq(Nat), NEW p \in Seq(Nat), NEW l \in Seq(Nat), NEW d \in Seq(Nat),
           NEW n \in Seq(Nat), NEW o \in Seq(Nat), NEW h \in Seq(Nat)
    PROVE  LinePosts(a, p, l, d, n, o, h)
<1> DEFINE z == (((a \o p) \o l) \o d) \o n
<1>1. z \in Seq(Nat)
  <2>1. (a \o p) \o l \in Seq(Nat)
    BY ConcatProperties
  <2>2. ((a \o p) \o l) \o d \in Seq(Nat)
    BY <2>1, ConcatProperties
  <2> QED
    BY <2>2, ConcatProperties
<1>2. Line(a, p, l, d, n, o \o h) = z \o (o \o h) /\ Line(a, p, l, d, n, o) = z \o o
  BY DEF Line
<1> HIDE DEF z
<1>3. Associate(z, o, h)
  BY <1>1, Regroup
<1> QED
  BY <1>2, <1>3 DEF Associate, LinePosts

\* What is left when everything behind the sender's own credits is lost
LineLoses(a, p, l, d, n, o) ==
    \E lost \in Seq(Nat) : Line(a, p, l, d, n, o) = (a \o p) \o lost

LEMMA LineLost ==
    ASSUME NEW a \in Seq(Nat), NEW p \in Seq(Nat), NEW l \in Seq(Nat), NEW d \in Seq(Nat),
           NEW n \in Seq(Nat), NEW o \in Seq(Nat)
    PROVE  LineLoses(a, p, l, d, n, o)
<1> DEFINE w == a \o p
           u == d \o (n \o o)
<1>1. w \in Seq(Nat) /\ w \o l \in Seq(Nat) /\ (w \o l) \o d \in Seq(Nat)
  <2>1. w \in Seq(Nat)
    BY ConcatProperties
  <2>2. w \o l \in Seq(Nat)
    BY <2>1, ConcatProperties
  <2> QED
    BY <2>1, <2>2, ConcatProperties
<1>2. n \o o \in Seq(Nat) /\ u \in Seq(Nat) /\ l \o u \in Seq(Nat)
  <2>1. n \o o \in Seq(Nat)
    BY ConcatProperties
  <2>2. u \in Seq(Nat)
    BY <2>1, ConcatProperties
  <2> QED
    BY <2>1, <2>2, ConcatProperties
<1>3. Line(a, p, l, d, n, o) = (((w \o l) \o d) \o n) \o o /\ u = d \o (n \o o)
  BY DEF Line
<1> HIDE DEF w, u
<1>4. Associate((w \o l) \o d, n, o) /\ Associate(w \o l, d, n \o o) /\ Associate(w, l, u)
  BY <1>1, <1>2, Regroup
<1>5. Line(a, p, l, d, n, o) = w \o (l \o u)
  BY <1>3, <1>4 DEF Associate
<1> QED
  BY <1>2, <1>5 DEF w, LineLoses

\* A sequence is its head and its tail.
LEMMA HeadFirst ==
    ASSUME NEW S, NEW s \in Seq(S), s # <<>>
    PROVE  Head(s) \in S /\ Tail(s) \in Seq(S) /\ s = <<Head(s)>> \o Tail(s)
<1>1. Len(s) \in Nat /\ Len(s) # 0 /\ Head(s) = s[1]
  BY EmptySeq, LenProperties
<1>2. Head(s) \in S /\ Tail(s) \in Seq(S) /\ Tail(s) = SubSeq(s, 2, Len(s))
  BY HeadTailProperties, TailIsSubSeq
<1>3. 1 \in 1 .. Len(s) /\ Len(s) \in 1 .. Len(s) /\ 1 + 1 = 2
  BY <1>1
<1>4. SubSeq(s, 1, Len(s)) = <<s[1]>> \o SubSeq(s, 1 + 1, Len(s))
  BY <1>3, SubSeqRecursiveFirst
<1>5. SubSeq(s, 1, Len(s)) = s
  BY SubSeqFull
<1> QED
  BY <1>1, <1>2, <1>3, <1>4, <1>5

\* A sequence of credits is cut in two.
LEMMA CutInTwo ==
    ASSUME NEW s \in Seq(Nat), NEW k \in 1 .. Len(s)
    PROVE  /\ SubSeq(s, 1, k) \in Seq(Nat) /\ SubSeq(s, 1, k) # <<>>
           /\ SubSeq(s, k + 1, Len(s)) \in Seq(Nat)
           /\ s = SubSeq(s, 1, k) \o SubSeq(s, k + 1, Len(s))
<1>1. Len(s) \in Nat /\ \A i \in 1 .. Len(s) : s[i] \in Nat
  BY LenProperties
<1>2. /\ 1 \in 1 .. Len(s) + 1 /\ k \in 1 - 1 .. Len(s) /\ Len(s) \in k .. Len(s)
      /\ 1 \in Int /\ k \in Int /\ k + 1 \in Int /\ Len(s) \in Int /\ 1 <= k
  BY <1>1
<1>3. /\ \A i \in 1 .. k : s[i] \in Nat
      /\ \A i \in k + 1 .. Len(s) : s[i] \in Nat
  BY <1>1
<1>4. SubSeq(s, 1, k) \in Seq(Nat) /\ Len(SubSeq(s, 1, k)) = k - 1 + 1
  BY <1>2, <1>3, SubSeqProperties
<1>5. SubSeq(s, k + 1, Len(s)) \in Seq(Nat)
  BY <1>2, <1>3, SubSeqProperties
<1>6. SubSeq(s, 1, k) \o SubSeq(s, k + 1, Len(s)) = SubSeq(s, 1, Len(s))
  BY <1>2, ConcatAdjacentSubSeq
<1>7. SubSeq(s, 1, Len(s)) = s
  BY SubSeqFull
<1>8. SubSeq(s, 1, k) # <<>>
  BY <1>2, <1>4
<1> QED
  BY <1>4, <1>5, <1>6, <1>7, <1>8

\* The elements of a sequence behind a new head
LEMMA Prepended ==
    ASSUME NEW c \in Nat, NEW r \in Seq(Nat)
    PROVE  /\ Len(<<c>> \o r) = Len(r) + 1 /\ (<<c>> \o r)[1] = c
           /\ \A j \in 1 .. Len(r) : (<<c>> \o r)[j + 1] = r[j]
<1> DEFINE s == <<c>> \o r
<1>1. <<c>> \in Seq(Nat) /\ Len(<<c>>) = 1 /\ <<c>>[1] = c /\ Len(r) \in Nat
  BY LenProperties
<1>2. /\ Len(s) = Len(<<c>>) + Len(r)
      /\ \A i \in 1 .. Len(<<c>>) + Len(r) :
            s[i] = IF i <= Len(<<c>>) THEN <<c>>[i] ELSE r[i - Len(<<c>>)]
  BY <1>1, ConcatProperties
<1> HIDE DEF s
<1>3. \A i \in 1 .. 1 + Len(r) : s[i] = IF i <= 1 THEN c ELSE r[i - 1]
  BY <1>1, <1>2
<1>4. Len(s) = Len(r) + 1 /\ s[1] = c /\ \A j \in 1 .. Len(r) : s[j + 1] = r[j]
  BY <1>1, <1>2, <1>3
<1> QED
  BY <1>4 DEF s

\* The oldest credit is used for a message of b bytes, which fits it.
LEMMA CoversUse ==
    ASSUME NEW c \in Nat, NEW r \in Seq(Nat), NEW b \in Nat, b <= c,
           NEW d \in Seq(Nat), NEW p \in Seq(Nat), Covers(<<c>> \o r, d, p)
    PROVE  Covers(r, Append(d, b), p)
<1> DEFINE e == Append(d, b)
           s == <<c>> \o r
<1>1. /\ Len(d) \in Nat /\ Len(r) \in Nat /\ Len(p) \in Nat
      /\ Len(e) = Len(d) + 1 /\ e[Len(d) + 1] = b /\ \A i \in 1 .. Len(d) : e[i] = d[i]
  BY AppendProperties, LenProperties
<1>2. /\ Len(s) = Len(r) + 1 /\ s[1] = c /\ \A j \in 1 .. Len(r) : s[j + 1] = r[j]
  BY Prepended
<1>3. Covers(s, d, p)
  OBVIOUS
<1> HIDE DEF e, s
<1>4. /\ Len(d) + Len(s) <= Len(p)
      /\ \A i \in 1 .. Len(d) : d[i] <= p[i]
      /\ \A j \in 1 .. Len(s) : s[j] = p[Len(d) + j]
  BY <1>3 DEF Covers
<1>5. Len(e) + Len(r) <= Len(p)
  BY <1>1, <1>2, <1>4
<1>6. ASSUME NEW i \in 1 .. Len(e)
      PROVE  e[i] <= p[i]
  <2>1. CASE i \in 1 .. Len(d)
    BY <1>1, <1>4, <2>1
  <2>2. CASE i = Len(d) + 1
    <3>1. 1 \in 1 .. Len(s)
      BY <1>1, <1>2
    <3>2. s[1] = p[Len(d) + 1]
      BY <1>4, <3>1
    <3> QED
      BY <1>1, <1>2, <2>2, <3>2
  <2> QED
    BY <1>1, <2>1, <2>2
<1>7. ASSUME NEW j \in 1 .. Len(r)
      PROVE  r[j] = p[Len(e) + j]
  <2>1. j + 1 \in 1 .. Len(s) /\ Len(d) + (j + 1) = Len(e) + j
    BY <1>1, <1>2
  <2>2. s[j + 1] = p[Len(d) + (j + 1)] /\ s[j + 1] = r[j]
    BY <1>2, <1>4, <2>1
  <2> QED
    BY <2>1, <2>2
<1>8. Covers(r, e, p)
  BY <1>5, <1>6, <1>7 DEF Covers
<1> QED
  BY <1>8 DEF e

\* A buffer is posted behind the others.
LEMMA CoversPost ==
    ASSUME NEW c \in Seq(Nat), NEW d \in Seq(Nat), NEW p \in Seq(Nat), NEW x \in Nat,
           Covers(c, d, p)
    PROVE  /\ Covers(c, d, Append(p, x))
           /\ Len(d) + Len(c) = Len(p) => Covers(c \o <<x>>, d, Append(p, x))
<1> DEFINE q == Append(p, x)
           s == c \o <<x>>
<1>1. /\ Len(d) \in Nat /\ Len(c) \in Nat /\ Len(p) \in Nat
      /\ Len(q) = Len(p) + 1 /\ q[Len(p) + 1] = x /\ \A i \in 1 .. Len(p) : q[i] = p[i]
  BY AppendProperties, LenProperties
<1>2. /\ Len(s) = Len(c) + 1 /\ s[Len(c) + 1] = x /\ \A j \in 1 .. Len(c) : s[j] = c[j]
  <2>1. Append(c, x) = s
    BY AppendIsConcat
  <2>2. /\ Len(Append(c, x)) = Len(c) + 1 /\ Append(c, x)[Len(c) + 1] = x
        /\ \A j \in 1 .. Len(c) : Append(c, x)[j] = c[j]
    BY AppendProperties
  <2> HIDE DEF s
  <2> QED
    BY <2>1, <2>2, Zenon
<1> HIDE DEF q, s
<1>3. /\ Len(d) + Len(c) <= Len(p)
      /\ \A i \in 1 .. Len(d) : d[i] <= p[i]
      /\ \A j \in 1 .. Len(c) : c[j] = p[Len(d) + j]
  BY DEF Covers
<1>4. \A i \in 1 .. Len(d) : d[i] <= q[i]
  <2>1. \A i \in 1 .. Len(d) : i \in 1 .. Len(p)
    BY <1>1, <1>3
  <2> QED
    BY <1>1, <1>3, <2>1
<1>5. \A j \in 1 .. Len(c) : c[j] = q[Len(d) + j]
  <2>0. Len(d) \in Nat /\ Len(c) \in Nat /\ Len(p) \in Nat /\ Len(d) + Len(c) <= Len(p)
    BY <1>1, <1>3
  <2>1. \A j \in 1 .. Len(c) : Len(d) + j \in 1 .. Len(p)
    BY <2>0
  <2> QED
    BY <1>1, <1>3, <2>1
<1>6. Covers(c, d, q)
  BY <1>1, <1>3, <1>4, <1>5 DEF Covers
<1>7. ASSUME Len(d) + Len(c) = Len(p)
      PROVE  Covers(s, d, q)
  <2>1. ASSUME NEW j \in 1 .. Len(s)
        PROVE  s[j] = q[Len(d) + j]
    <3>1. j \in 1 .. Len(c) \/ j = Len(c) + 1
      BY <1>1, <1>2
    <3>2. Len(d) + (Len(c) + 1) = Len(p) + 1
      BY <1>1, <1>7
    <3> QED
      BY <1>1, <1>2, <1>5, <3>1, <3>2
  <2>2. Len(d) + Len(s) <= Len(q)
    BY <1>1, <1>2, <1>7
  <2> QED
    BY <1>4, <2>1, <2>2 DEF Covers
<1> QED
  BY <1>6, <1>7 DEF q, s

\* The oldest message arrives in the oldest buffer.
LEMMA CoversDeliver ==
    ASSUME NEW c \in Seq(Nat), NEW x \in Nat, NEW e \in Seq(Nat), NEW y \in Nat,
           NEW q \in Seq(Nat), Covers(c, <<x>> \o e, <<y>> \o q)
    PROVE  Covers(c, e, q)
<1> DEFINE d == <<x>> \o e
           p == <<y>> \o q
<1>1. Covers(c, d, p) /\ Len(e) \in Nat /\ Len(q) \in Nat /\ Len(c) \in Nat
  BY LenProperties
<1>2. /\ Len(d) = Len(e) + 1 /\ \A i \in 1 .. Len(e) : d[i + 1] = e[i]
      /\ Len(p) = Len(q) + 1 /\ \A i \in 1 .. Len(q) : p[i + 1] = q[i]
  BY Prepended
<1> HIDE DEF d, p
<1>3. /\ Len(d) + Len(c) <= Len(p)
      /\ \A i \in 1 .. Len(d) : d[i] <= p[i]
      /\ \A j \in 1 .. Len(c) : c[j] = p[Len(d) + j]
  BY <1>1 DEF Covers
<1>4. Len(e) + Len(c) <= Len(q)
  BY <1>1, <1>2, <1>3
<1>5. ASSUME NEW i \in 1 .. Len(e)
      PROVE  e[i] <= q[i]
  <2>1. i + 1 \in 1 .. Len(d) /\ i \in 1 .. Len(q)
    BY <1>1, <1>2, <1>4
  <2> QED
    BY <1>2, <1>3, <2>1
<1>6. ASSUME NEW j \in 1 .. Len(c)
      PROVE  c[j] = q[Len(e) + j]
  <2>1. j \in Nat /\ 1 <= j /\ j <= Len(c)
    BY <1>1
  <2>2. Len(e) + j \in 1 .. Len(q)
    <3>1. \A k, m, z, w \in Nat : k + m <= z /\ 1 <= w /\ w <= m => k + w \in 1 .. z
      OBVIOUS
    <3> QED
      BY <1>1, <1>4, <2>1, <3>1, Zenon
  <2>3. Len(d) = Len(e) + 1
    BY <1>2
  <2>4. (Len(e) + j) + 1 = Len(d) + j
    BY <1>1, <2>1, <2>3
  <2>5. q[Len(e) + j] = p[Len(d) + j]
    BY <1>2, <2>2, <2>4
  <2> QED
    BY <1>3, <2>5
<1> QED
  BY <1>4, <1>5, <1>6 DEF Covers

\* The youngest credits are lost.
LEMMA CoversLose ==
    ASSUME NEW c \in Seq(Nat), NEW l \in Seq(Nat), NEW d \in Seq(Nat), NEW p \in Seq(Nat),
           Covers(c \o l, d, p)
    PROVE  Covers(c, d, p)
<1> DEFINE s == c \o l
<1>1. /\ Len(c) \in Nat /\ Len(l) \in Nat /\ Len(d) \in Nat /\ Len(p) \in Nat
      /\ Len(s) = Len(c) + Len(l) /\ \A j \in 1 .. Len(c) : s[j] = c[j]
  <2>1. \A i \in 1 .. Len(c) + Len(l) : s[i] = IF i <= Len(c) THEN c[i] ELSE l[i - Len(c)]
    BY ConcatProperties
  <2>2. Len(c) \in Nat /\ Len(l) \in Nat /\ Len(d) \in Nat /\ Len(p) \in Nat
        /\ Len(s) = Len(c) + Len(l)
    BY ConcatProperties, LenProperties
  <2> HIDE DEF s
  <2> QED
    BY <2>1, <2>2
<1>2. Covers(s, d, p)
  OBVIOUS
<1> HIDE DEF s
<1>3. /\ Len(d) + Len(s) <= Len(p)
      /\ \A i \in 1 .. Len(d) : d[i] <= p[i]
      /\ \A j \in 1 .. Len(s) : s[j] = p[Len(d) + j]
  BY <1>2 DEF Covers
<1>4. \A j \in 1 .. Len(c) : c[j] = p[Len(d) + j]
  <2>1. \A j \in 1 .. Len(c) : j \in 1 .. Len(s)
    BY <1>1
  <2> QED
    BY <1>1, <1>3, <2>1
<1> QED
  BY <1>1, <1>3, <1>4 DEF Covers

-----------------------------------------------------------------------------
(* The credits of a state                                                  *)

\* The credits of a sequence of messages
LEMMA FlattenType ==
    ASSUME NEW s \in Seq(Seq(Nat))
    PROVE  FlattenSeq(s) \in Seq(Nat)
<1>1. <<>> \in Seq(Nat)
  OBVIOUS
<1> QED
  BY <1>1, FlattenAppend

\* Credits is a sequence of lengths, now and after a step.
LEMMA CreditsType == TypeInv => Credits \in Seq(Nat)
<1> SUFFICES ASSUME TypeInv PROVE Credits \in Seq(Nat)
  OBVIOUS
<1>1. /\ availableCredits \in Seq(Nat) /\ preConfigureCredits \in Seq(Nat)
      /\ ackHandler.left \in Seq(Nat) /\ owed \in Seq(Nat)
      /\ creditsDone \in Seq(Seq(Nat)) /\ creditNet \in Seq(Seq(Nat))
  BY DEF TypeInv
<1>2. FlattenSeq(creditsDone) \in Seq(Nat) /\ FlattenSeq(creditNet) \in Seq(Nat)
  BY <1>1, FlattenType
<1>3. availableCredits \o preConfigureCredits \in Seq(Nat)
  BY <1>1, ConcatProperties
<1>4. Line(availableCredits, preConfigureCredits, ackHandler.left,
           FlattenSeq(creditsDone), FlattenSeq(creditNet), owed) \in Seq(Nat)
  <2>1. LineTyped(availableCredits, preConfigureCredits, ackHandler.left,
                  FlattenSeq(creditsDone), FlattenSeq(creditNet), owed)
    BY <1>1, <1>2, LineType
  <2> QED
    BY <2>1 DEF LineTyped
<1> QED
  BY <1>3, <1>4 DEF Credits

LEMMA CreditsTypeNext == TypeInv' => Credits' \in Seq(Nat)
<1>1. TypeInv' => (Credits \in Seq(Nat))'
  BY CreditsType, PTL
<1> QED
  BY <1>1

\* Steps that move credits only
LEMMA CreditsKept ==
    ASSUME CreditInv, Credits' = Credits, dataNet' = dataNet, posted' = posted,
           link' => link, Adding' => Adding, unannounced => unannounced'
    PROVE  CreditInv'
  BY DEF CreditInv

\* Steps that post a message
LEMMA CreditsUsed ==
    ASSUME CreditInv, NEW c \in Nat, NEW b \in Nat, b <= c,
           Credits' \in Seq(Nat), dataNet \in Seq(Nat), posted \in Seq(Nat),
           Credits = <<c>> \o Credits', dataNet' = Append(dataNet, b), posted' = posted,
           link' => link, Adding' => Adding, unannounced => unannounced'
    PROVE  CreditInv'
<1> SUFFICES ASSUME link' PROVE CreditInv'
  BY DEF CreditInv
<1> DEFINE r == Credits'
<1>1. /\ Len(dataNet) \in Nat /\ Len(r) \in Nat /\ Len(posted) \in Nat /\ r \in Seq(Nat)
      /\ Len(Append(dataNet, b)) = Len(dataNet) + 1 /\ Len(<<c>> \o r) = Len(r) + 1
  BY LenProperties, AppendProperties, Prepended
<1>2. /\ Len(dataNet) + Len(<<c>> \o r) <= Len(posted)
      /\ ~unannounced => Covers(<<c>> \o r, dataNet, posted)
      /\ ~unannounced /\ Adding => Len(dataNet) + Len(<<c>> \o r) = Len(posted)
  BY DEF CreditInv
<1> HIDE DEF r
<1>3. /\ Len(Append(dataNet, b)) + Len(r) <= Len(posted)
      /\ ~unannounced /\ Adding => Len(Append(dataNet, b)) + Len(r) = Len(posted)
  BY <1>1, <1>2
<1>4. ~unannounced => Covers(r, Append(dataNet, b), posted)
  BY <1>1, <1>2, CoversUse
<1> QED
  BY <1>3, <1>4 DEF CreditInv, r

\* Steps that post a buffer
LEMMA CreditsPosted ==
    ASSUME CreditInv, NEW x \in Nat,
           Credits \in Seq(Nat), dataNet \in Seq(Nat), posted \in Seq(Nat),
           Adding => Credits' = Credits \o <<x>>, ~Adding => Credits' = Credits,
           dataNet' = dataNet, posted' = Append(posted, x),
           link' => link, Adding' = Adding, unannounced => unannounced'
    PROVE  CreditInv'
<1> SUFFICES ASSUME link' PROVE CreditInv'
  BY DEF CreditInv
<1>1. /\ Len(dataNet) \in Nat /\ Len(Credits) \in Nat /\ Len(posted) \in Nat
      /\ Len(Append(posted, x)) = Len(posted) + 1
  BY LenProperties, AppendProperties
<1>2. Len(Credits \o <<x>>) = Len(Credits) + 1
  <2>1. Append(Credits, x) = Credits \o <<x>> /\ Len(Append(Credits, x)) = Len(Credits) + 1
    BY AppendIsConcat, AppendProperties
  <2> QED
    BY <2>1
<1>3. /\ Len(dataNet) + Len(Credits) <= Len(posted)
      /\ ~unannounced => Covers(Credits, dataNet, posted)
      /\ ~unannounced /\ Adding => Len(dataNet) + Len(Credits) = Len(posted)
  BY DEF CreditInv
<1>4. ~unannounced =>
          /\ Covers(Credits, dataNet, Append(posted, x))
          /\ Len(dataNet) + Len(Credits) = Len(posted)
             => Covers(Credits \o <<x>>, dataNet, Append(posted, x))
  BY <1>3, CoversPost
<1>5. /\ Len(dataNet) + Len(Credits) <= Len(Append(posted, x))
      /\ Len(dataNet) + Len(Credits \o <<x>>) <= Len(Append(posted, x))
      /\ ~unannounced /\ Adding =>
            Len(dataNet) + Len(Credits \o <<x>>) = Len(Append(posted, x))
  BY <1>1, <1>2, <1>3
<1>6. CASE Adding
  BY <1>3, <1>4, <1>5, <1>6 DEF CreditInv
<1>7. CASE ~Adding
  BY <1>4, <1>5, <1>7 DEF CreditInv
<1> QED
  BY <1>6, <1>7

\* The step that delivers a message
LEMMA CreditsDelivered ==
    ASSUME CreditInv, NEW x \in Nat, NEW y \in Nat,
           Credits \in Seq(Nat), dataNet' \in Seq(Nat), posted' \in Seq(Nat),
           dataNet = <<x>> \o dataNet', posted = <<y>> \o posted', Credits' = Credits,
           link' => link, Adding' => Adding, unannounced => unannounced'
    PROVE  CreditInv'
<1> SUFFICES ASSUME link' PROVE CreditInv'
  BY DEF CreditInv
<1> DEFINE e == dataNet'
           q == posted'
<1>1. /\ e \in Seq(Nat) /\ q \in Seq(Nat)
      /\ Len(e) \in Nat /\ Len(q) \in Nat /\ Len(Credits) \in Nat
      /\ Len(<<x>> \o e) = Len(e) + 1 /\ Len(<<y>> \o q) = Len(q) + 1
  BY LenProperties, Prepended
<1>2. /\ Len(<<x>> \o e) + Len(Credits) <= Len(<<y>> \o q)
      /\ ~unannounced => Covers(Credits, <<x>> \o e, <<y>> \o q)
      /\ ~unannounced /\ Adding => Len(<<x>> \o e) + Len(Credits) = Len(<<y>> \o q)
  BY DEF CreditInv
<1> HIDE DEF e, q
<1>3. /\ Len(e) + Len(Credits) <= Len(q)
      /\ ~unannounced /\ Adding => Len(e) + Len(Credits) = Len(q)
  BY <1>1, <1>2
<1>4. ~unannounced => Covers(Credits, e, q)
  BY <1>1, <1>2, CoversDeliver
<1> QED
  BY <1>3, <1>4 DEF CreditInv, e, q

\* Steps that lose the youngest credits
LEMMA CreditsLost ==
    ASSUME CreditInv, NEW l \in Seq(Nat), Credits' \in Seq(Nat), dataNet \in Seq(Nat),
           posted \in Seq(Nat), Credits = Credits' \o l, dataNet' = dataNet,
           posted' = posted, link' => link, unannounced => unannounced',
           Adding' => unannounced'
    PROVE  CreditInv'
<1> SUFFICES ASSUME link' PROVE CreditInv'
  BY DEF CreditInv
<1> DEFINE r == Credits'
<1>1. /\ r \in Seq(Nat) /\ Len(r) \in Nat /\ Len(l) \in Nat /\ Len(dataNet) \in Nat
      /\ Len(posted) \in Nat /\ Len(r \o l) = Len(r) + Len(l)
  BY LenProperties, ConcatProperties
<1>2. /\ Len(dataNet) + Len(r \o l) <= Len(posted)
      /\ ~unannounced => Covers(r \o l, dataNet, posted)
  BY DEF CreditInv
<1> HIDE DEF r
<1>3. Len(dataNet) + Len(r) <= Len(posted)
  BY <1>1, <1>2
<1>4. ~unannounced => Covers(r, dataNet, posted)
  BY <1>1, <1>2, CoversLose
<1> QED
  BY <1>3, <1>4 DEF CreditInv, r

-----------------------------------------------------------------------------
(* Types                                                                   *)

\* The empty sequences are typed.
LEMMA NoCredits == <<>> \in Seq(Nat) /\ <<>> \in Seq(Seq(Nat))
  OBVIOUS

\* Type correctness: the initial states
LEMMA InitType == Init => TypeInv
<1> SUFFICES ASSUME Init PROVE TypeInv
  OBVIOUS
<1>1. /\ bufferLen \in Nat /\ maxConcurrentTransactions \in Nat /\ CreditBuffers \in Nat
      /\ external \in BOOLEAN
  BY FlowControlAssumption DEF Init
<1>2. /\ link \in BOOLEAN /\ unannounced \in BOOLEAN
      /\ connected \in [Ends -> BOOLEAN] /\ configured \in [Ends -> BOOLEAN]
      /\ transferStatus \in [Ends -> {"ok"} \cup Errors]
      /\ creditStatus \in [Ends -> {"ok"} \cup Errors]
      /\ disconnecting \in [Ends -> {"no", "begun", "transfer", "done"}]
  BY DEF Init
<1>3. ackHandler \in [at : {"wait", "add", "timedOut", "fail", "gone"}, left : Seq(Nat)]
  BY NoCredits DEF Init
<1>4. caller \in [at : Callers, call : {"none", "configure", "queue", "release"}]
  BY DEF Init, Callers
<1>5. /\ preConfigureCredits \in Seq(Nat) /\ availableCredits \in Seq(Nat)
      /\ waiting \in Seq(Nat) /\ posted \in Seq(Nat) /\ owed \in Seq(Nat)
      /\ dataNet \in Seq(Nat)
      /\ creditsDone \in Seq(Seq(Nat)) /\ creditNet \in Seq(Seq(Nat))
  BY NoCredits, Zenon DEF Init
<1>6. /\ creditsPosted \in Nat /\ idle \in Nat /\ held \in Nat /\ creditsIdle \in Nat
      /\ creditsSent \in Nat /\ submitted \in Nat /\ posts \in Nat
  BY <1>1 DEF Init
<1> QED
  BY <1>1, <1>2, <1>3, <1>4, <1>5, <1>6, Zenon DEF TypeInv

\* A sequence, its head and its tail
LEMMA Peel ==
    \A S : \A s \in Seq(S) : s # <<>> => Head(s) \in S /\ Tail(s) \in Seq(S)
<1>1. ASSUME NEW S, NEW s \in Seq(S), s # <<>>
      PROVE  Head(s) \in S /\ Tail(s) \in Seq(S)
  BY <1>1, HeadTailProperties
<1> QED
  BY <1>1

\* Append keeps the type.
LEMMA Push ==
    \A s \in Seq(Nat) : \A x \in Nat :
        Append(s, x) \in Seq(Nat) /\ Append(s, x) # <<>> /\ Append(s, x) = s \o <<x>>
<1>1. ASSUME NEW s \in Seq(Nat), NEW x \in Nat
      PROVE  Append(s, x) \in Seq(Nat) /\ Append(s, x) # <<>> /\ Append(s, x) = s \o <<x>>
  BY AppendProperties, AppendIsConcat
<1> QED
  BY <1>1

\* Type correctness of the sender's steps
LEMMA SenderTypes ==
    ASSUME TypeInv,
           \/ ConfigureSender \/ AckTake \/ AckWakesForNothing \/ AddCredit \/ AckFails
           \/ AckRequeue
           \/ \E bytes \in Sizes : SubmitSend(bytes)
    PROVE  TypeInv'
<1> USE DEF Ends
<1>1. CASE ConfigureSender
  BY <1>1 DEF ConfigureSender, TypeInv, status, kind, receiverVars, history
<1>2. CASE AckTake
  <2>1. creditsDone \in Seq(Seq(Nat))
    BY DEF TypeInv
  <2>2. creditsDone # <<>> => Head(creditsDone) \in Seq(Nat) /\ Tail(creditsDone) \in Seq(Seq(Nat))
    BY <2>1, Peel
  <2>3. ackHandler' \in [at : {"wait", "add", "timedOut", "fail", "gone"}, left : Seq(Nat)]
        /\ creditsDone' \in Seq(Seq(Nat))
    <3>1. CASE creditsDone # <<>> /\ ackHandler' = [at |-> "add", left |-> Head(creditsDone)]
               /\ creditsDone' = Tail(creditsDone)
      BY <2>2, <3>1
    <3>2. CASE ackHandler' = [at |-> "gone", left |-> <<>>] /\ creditsDone' = creditsDone
      BY <2>1, <3>2, NoCredits
    <3> QED
      BY <1>2, <3>1, <3>2 DEF AckTake
  <2> QED
    BY <1>2, <2>3 DEF AckTake, TypeInv, status, kind, receiverVars, history
<1>7. CASE AckWakesForNothing
  <2>1. ackHandler' \in [at : {"wait", "add", "timedOut", "fail", "gone"}, left : Seq(Nat)]
    BY <1>7, NoCredits DEF AckWakesForNothing
  <2> QED
    BY <1>7, <2>1 DEF AckWakesForNothing, TypeInv, status, kind, receiverVars, history
<1>3. CASE AddCredit
  <2> DEFINE credit == Head(ackHandler.left)
             all == Append(availableCredits, credit)
  <2>0. /\ ackHandler.left \in Seq(Nat) /\ availableCredits \in Seq(Nat) /\ waiting \in Seq(Nat)
        /\ preConfigureCredits \in Seq(Nat) /\ dataNet \in Seq(Nat)
    BY DEF TypeInv
  <2>1. ackHandler.left # <<>>
    BY <1>3 DEF AddCredit
  <2>2. credit \in Nat /\ Tail(ackHandler.left) \in Seq(Nat)
    BY <2>0, <2>1, Peel
  <2>3. /\ all \in Seq(Nat) /\ all # <<>> /\ Append(preConfigureCredits, credit) \in Seq(Nat)
    BY <2>0, <2>2, Push
  <2>4. Tail(all) \in Seq(Nat)
    BY <2>3, Peel
  <2>5. waiting # <<>> => Tail(waiting) \in Seq(Nat) /\ Append(dataNet, Head(waiting)) \in Seq(Nat)
    BY <2>0, Peel, AppendProperties
  <2>6. /\ ackHandler' = [at |-> "add", left |-> Tail(ackHandler.left)]
           \/ ackHandler' = [at |-> "fail", left |-> <<>>]
        /\ availableCredits' \in {availableCredits, all, Tail(all)}
        /\ preConfigureCredits' \in {preConfigureCredits, Append(preConfigureCredits, credit)}
        /\ \/ waiting' = waiting /\ dataNet' = dataNet
           \/ waiting # <<>> /\ waiting' = Tail(waiting)
              /\ dataNet' = Append(dataNet, Head(waiting))
    BY <1>3 DEF AddCredit
  <2> HIDE DEF credit, all
  <2>7. /\ availableCredits' \in Seq(Nat) /\ preConfigureCredits' \in Seq(Nat)
        /\ waiting' \in Seq(Nat) /\ dataNet' \in Seq(Nat)
    BY <2>0, <2>3, <2>4, <2>5, <2>6
  <2>8. ackHandler' \in [at : {"wait", "add", "timedOut", "fail", "gone"}, left : Seq(Nat)]
    <3>1. CASE ackHandler' = [at |-> "add", left |-> Tail(ackHandler.left)]
      BY <2>2, <3>1
    <3>2. CASE ackHandler' = [at |-> "fail", left |-> <<>>]
      BY <3>2, NoCredits
    <3> QED
      BY <2>6, <3>1, <3>2
  <2>9. UNCHANGED <<link, status, configured, kind, creditsPosted, creditsDone, receiverVars,
                    creditNet, history>>
    BY <1>3 DEF AddCredit
  <2> QED
    BY <2>7, <2>8, <2>9 DEF TypeInv, status, kind, receiverVars, history
<1>4. CASE AckFails
  BY <1>4 DEF AckFails, TypeInv, status, kind, receiverVars, history, Errors
<1>5. CASE AckRequeue
  BY <1>5 DEF AckRequeue, TypeInv, status, kind, receiverVars, history
<1>6. ASSUME NEW bytes \in Sizes, SubmitSend(bytes)
      PROVE  TypeInv'
  <2>0. /\ availableCredits \in Seq(Nat) /\ waiting \in Seq(Nat) /\ dataNet \in Seq(Nat)
        /\ bytes \in Nat
    BY FlowControlAssumption DEF TypeInv
  <2>1. /\ Append(waiting, bytes) \in Seq(Nat) /\ Append(dataNet, bytes) \in Seq(Nat)
        /\ availableCredits # <<>> => Tail(availableCredits) \in Seq(Nat)
    BY <2>0, Peel, AppendProperties
  <2>2. /\ waiting' \in {waiting, Append(waiting, bytes)}
        /\ dataNet' \in {dataNet, Append(dataNet, bytes)}
        /\ \/ availableCredits' = availableCredits
           \/ availableCredits # <<>> /\ availableCredits' = Tail(availableCredits)
    BY <1>6 DEF SubmitSend
  <2>3. waiting' \in Seq(Nat) /\ dataNet' \in Seq(Nat) /\ availableCredits' \in Seq(Nat)
    BY <2>0, <2>1, <2>2
  <2>4. transferStatus' \in [Ends -> {"ok"} \cup Errors] /\ submitted' \in Nat
    BY <1>6 DEF SubmitSend, TypeInv, Errors
  <2>5. UNCHANGED <<link, connected, creditStatus, disconnecting, configured,
                   kind, preConfigureCredits, creditsPosted, creditsDone, ackHandler,
                   receiverVars, creditNet, posts, unannounced>>
    BY <1>6 DEF SubmitSend
  <2> QED
    BY <2>3, <2>4, <2>5 DEF TypeInv, kind, receiverVars
<1> QED
  BY <1>1, <1>2, <1>3, <1>4, <1>5, <1>6, <1>7

\* The part of owed that goes into a message, and the rest
LEMMA AnnounceSplits ==
    ASSUME owed \in Seq(Nat), owed # <<>>, creditNet \in Seq(Seq(Nat)), Announce
    PROVE  \E h \in Seq(Nat) :
               h # <<>> /\ owed' \in Seq(Nat) /\ owed = h \o owed'
               /\ creditNet' = Append(creditNet, h)
<1> DEFINE k == IF Len(owed) < MaxCreditsPerBuffer THEN Len(owed) ELSE MaxCreditsPerBuffer
           h == SubSeq(owed, 1, k)
<1>1. k \in 1 .. Len(owed)
  <2>1. Len(owed) \in Nat /\ Len(owed) # 0
    BY EmptySeq, LenProperties
  <2>2. MaxCreditsPerBuffer \in Nat /\ MaxCreditsPerBuffer # 0
    BY FlowControlAssumption
  <2> QED
    BY <2>1, <2>2
<1>2. creditNet' = Append(creditNet, SubSeq(owed, 1, k)) /\ owed' = SubSeq(owed, k + 1, Len(owed))
  BY DEF Announce
<1> HIDE DEF k
<1>3. /\ h \in Seq(Nat) /\ h # <<>> /\ SubSeq(owed, k + 1, Len(owed)) \in Seq(Nat)
      /\ owed = h \o SubSeq(owed, k + 1, Len(owed))
  BY <1>1, CutInTwo
<1> HIDE DEF h
<1>4. owed' \in Seq(Nat) /\ owed = h \o owed'
  BY <1>2, <1>3, Zenon
<1>5. creditNet' = Append(creditNet, h)
  BY <1>2 DEF h
<1> QED
  BY <1>3, <1>4, <1>5, Zenon

\* Type correctness of the receiver's steps
LEMMA ReceiverTypes ==
    ASSUME TypeInv, Announcing => owed # <<>>,
           \/ ConfigureReceiver \/ PostConfigure \/ ReleaseReceivedBufferRegion
           \/ WaitForCreditBuffer \/ SpuriousWakeUp \/ SendCreditUpdate \/ CreditSent
           \/ \E len \in Sizes : QueueExternalBufferRegion(len)
    PROVE  TypeInv'
<1> USE DEF Ends
<1>0. /\ bufferLen \in Nat /\ posted \in Seq(Nat) /\ owed \in Seq(Nat) /\ idle \in Nat
      /\ held \in Nat /\ posts \in Nat /\ creditsIdle \in Nat
      /\ caller \in [at : Callers, call : {"none", "configure", "queue", "release"}]
      /\ caller.at \in Callers /\ caller.call \in {"none", "configure", "queue", "release"}
  BY DEF TypeInv
<1>00. ASSUME NEW p \in {"none", "configure", "update", "asleep", "awake", "send"}
       PROVE  [caller EXCEPT !.at = p]
                 \in [at : Callers, call : {"none", "configure", "queue", "release"}]
  BY <1>0 DEF Callers
<1>000. ASSUME NEW x \in Nat
        PROVE  Append(posted, x) \in Seq(Nat) /\ Append(owed, x) \in Seq(Nat)
  BY <1>0, Push
<1>1. CASE ConfigureReceiver
  BY <1>1 DEF ConfigureReceiver, TypeInv, status, kind, senderVars, history, Callers
<1>2. CASE PostConfigure
  <2>1. posted' \in Seq(Nat) /\ owed' \in Seq(Nat)
    BY <1>0, <1>000, <1>2, NoCredits DEF PostConfigure, Post
  <2>2. posts' \in Nat /\ idle' \in Nat
    BY <1>0, <1>2 DEF PostConfigure, Post
  <2>3. caller' \in [at : Callers, call : {"none", "configure", "queue", "release"}]
    BY <1>0, <1>00, <1>2 DEF PostConfigure, Callers
  <2>4. UNCHANGED <<link, status, configured, kind, senderVars, held, creditsIdle,
                    creditsSent, dataNet, creditNet, submitted, unannounced>>
    BY <1>2 DEF PostConfigure
  <2> QED
    BY <2>1, <2>2, <2>3, <2>4 DEF TypeInv, status, kind, senderVars
<1>3. CASE ReleaseReceivedBufferRegion
  <2>1. posted' \in Seq(Nat) /\ owed' \in Seq(Nat)
    BY <1>0, <1>000, <1>3 DEF ReleaseReceivedBufferRegion, Post
  <2>2. posts' \in Nat /\ idle' \in Nat /\ held' \in Nat
    BY <1>0, <1>3 DEF ReleaseReceivedBufferRegion, Post
  <2>3. caller' \in [at : Callers, call : {"none", "configure", "queue", "release"}]
    BY <1>0, <1>3 DEF ReleaseReceivedBufferRegion, Callers
  <2>4. UNCHANGED <<link, status, configured, kind, senderVars, creditsIdle,
                    creditsSent, dataNet, creditNet, submitted, unannounced>>
    BY <1>3 DEF ReleaseReceivedBufferRegion
  <2> QED
    BY <2>1, <2>2, <2>3, <2>4 DEF TypeInv, status, kind, senderVars
<1>4. CASE WaitForCreditBuffer
  <2>1. caller' \in [at : Callers, call : {"none", "configure", "queue", "release"}]
    BY <1>0, <1>00, <1>4 DEF WaitForCreditBuffer, TakeCreditBuffer, CallEnds, Callers
  <2>2. owed' \in Seq(Nat)
    BY <1>0, <1>4, NoCredits DEF WaitForCreditBuffer, TakeCreditBuffer, CallEnds
  <2>3. creditsIdle' \in Nat
    BY <1>0, <1>4 DEF WaitForCreditBuffer, TakeCreditBuffer
  <2>4. unannounced' \in BOOLEAN
    <3>1. \/ unannounced' = unannounced
          \/ \E r : unannounced' = (unannounced \/ r = "Timeout")
      BY <1>4, Zenon DEF WaitForCreditBuffer, TakeCreditBuffer, CallEnds
    <3>2. unannounced \in BOOLEAN
      BY DEF TypeInv
    <3> QED
      BY <3>1, <3>2, Zenon
  <2>5. UNCHANGED <<link, status, configured, kind, senderVars, idle, held, posted,
                    creditsSent, dataNet, creditNet, submitted, posts>>
    BY <1>4 DEF WaitForCreditBuffer
  <2> QED
    BY <2>1, <2>2, <2>3, <2>4, <2>5 DEF TypeInv, status, kind, senderVars
<1>5. CASE SpuriousWakeUp
  <2>1. caller' \in [at : Callers, call : {"none", "configure", "queue", "release"}]
    BY <1>00, <1>5 DEF SpuriousWakeUp
  <2> QED
    BY <1>5, <2>1 DEF SpuriousWakeUp, TypeInv, status, kind, senderVars, history
<1>6. CASE SendCreditUpdate
  <2>0. owed # <<>> /\ creditNet \in Seq(Seq(Nat))
    BY <1>6 DEF SendCreditUpdate, TypeInv, Announcing
  <2>1. owed' \in Seq(Nat) /\ creditNet' \in Seq(Seq(Nat))
    <3>1. CASE Announce
      <4>1. PICK h \in Seq(Nat) : owed' \in Seq(Nat) /\ creditNet' = Append(creditNet, h)
        BY <1>0, <2>0, <3>1, AnnounceSplits
      <4>2. Append(creditNet, h) \in Seq(Seq(Nat))
        BY <2>0, AppendProperties
      <4> QED
        BY <4>1, <4>2
    <3>2. CASE CallEnds(creditStatus["receiver"]) /\ UNCHANGED creditNet
      BY <2>0, <3>2, NoCredits DEF CallEnds
    <3> QED
      BY <1>6, <3>1, <3>2 DEF SendCreditUpdate
  <2>2. caller' \in [at : Callers, call : {"none", "configure", "queue", "release"}]
    BY <1>0, <1>00, <1>6 DEF SendCreditUpdate, CallEnds, Callers
  <2>3. unannounced' \in BOOLEAN
    <3>1. \/ unannounced' = unannounced
          \/ \E r : unannounced' = (unannounced \/ r = "Timeout")
      BY <1>6, Zenon DEF SendCreditUpdate, CallEnds
    <3>2. unannounced \in BOOLEAN
      BY DEF TypeInv
    <3> QED
      BY <3>1, <3>2, Zenon
  <2>4. UNCHANGED <<link, status, configured, kind, senderVars, idle, held, posted,
                    creditsIdle, creditsSent, dataNet, submitted, posts>>
    BY <1>6 DEF SendCreditUpdate
  <2> QED
    BY <2>1, <2>2, <2>3, <2>4 DEF TypeInv, status, kind, senderVars
<1>7. CASE CreditSent
  <2>1. caller' \in [at : Callers, call : {"none", "configure", "queue", "release"}]
    BY <1>0, <1>00, <1>7 DEF CreditSent
  <2>2. creditsSent' \in Nat /\ creditsIdle' \in Nat
    <3>1. creditsSent \in Nat
      BY DEF TypeInv
    <3> QED
      BY <1>0, <1>7, <3>1 DEF CreditSent
  <2> QED
    BY <1>7, <2>1, <2>2 DEF CreditSent, TypeInv, status, kind, senderVars, history
<1>8. ASSUME NEW len \in Sizes, QueueExternalBufferRegion(len)
      PROVE  TypeInv'
  <2>0. len \in Nat
    BY FlowControlAssumption
  <2>1. posted' \in Seq(Nat) /\ owed' \in Seq(Nat)
    BY <1>000, <1>8, <2>0 DEF QueueExternalBufferRegion, Post
  <2>2. posts' \in Nat /\ idle' \in Nat
    BY <1>0, <1>8 DEF QueueExternalBufferRegion, Post
  <2>3. caller' \in [at : Callers, call : {"none", "configure", "queue", "release"}]
    BY <1>8 DEF QueueExternalBufferRegion, Callers
  <2>4. UNCHANGED <<link, status, configured, kind, senderVars, held, creditsIdle,
                    creditsSent, dataNet, creditNet, submitted, unannounced>>
    BY <1>8 DEF QueueExternalBufferRegion
  <2> QED
    BY <2>1, <2>2, <2>3, <2>4 DEF TypeInv, status, kind, senderVars
<1> QED
  BY <1>1, <1>2, <1>3, <1>4, <1>5, <1>6, <1>7, <1>8

\* Type correctness of messages that arrive and of a connection that breaks
LEMMA ConnectionTypes ==
    ASSUME TypeInv,
           \/ DeliverData \/ DeliverCredit \/ Break
           \/ \E e \in Ends : Disconnection(e)
    PROVE  TypeInv'
<1>1. CASE DeliverData
  <2>0. dataNet \in Seq(Nat) /\ posted \in Seq(Nat) /\ dataNet # <<>> /\ posted # <<>>
    BY <1>1 DEF DeliverData, TypeInv
  <2>1. dataNet' \in Seq(Nat) /\ posted' \in Seq(Nat)
    <3>1. Tail(dataNet) \in Seq(Nat) /\ Tail(posted) \in Seq(Nat)
      BY <2>0, Peel
    <3> QED
      BY <1>1, <3>1 DEF DeliverData
  <2>2. idle' \in Nat /\ held' \in Nat /\ link' \in BOOLEAN
    BY <1>1 DEF DeliverData, TypeInv
  <2>3. UNCHANGED <<status, configured, kind, senderVars, creditsIdle, creditsSent, caller,
                    owed, creditNet, history>>
    BY <1>1 DEF DeliverData
  <2> QED
    BY <2>1, <2>2, <2>3 DEF TypeInv, status, kind, senderVars, history
<1>2. CASE DeliverCredit
  <2>0. creditNet \in Seq(Seq(Nat)) /\ creditsDone \in Seq(Seq(Nat)) /\ creditNet # <<>>
    BY <1>2 DEF DeliverCredit, TypeInv
  <2>1. Tail(creditNet) \in Seq(Seq(Nat)) /\ Head(creditNet) \in Seq(Nat)
    BY <2>0, Peel
  <2>2. Append(creditsDone, Head(creditNet)) \in Seq(Seq(Nat))
    BY <2>0, <2>1, AppendProperties
  <2>3. creditNet' \in Seq(Seq(Nat)) /\ creditsDone' \in Seq(Seq(Nat))
    BY <1>2, <2>0, <2>1, <2>2 DEF DeliverCredit
  <2>4. creditsPosted' \in Nat /\ creditsSent' \in Nat
    BY <1>2 DEF DeliverCredit, TypeInv
  <2>5. UNCHANGED <<link, status, configured, kind, preConfigureCredits, availableCredits,
                    waiting, ackHandler, idle, held, posted, creditsIdle, caller, owed,
                    dataNet, history>>
    BY <1>2 DEF DeliverCredit
  <2> QED
    BY <2>3, <2>4, <2>5 DEF TypeInv, status, kind, history
<1>3. CASE Break
  BY <1>3 DEF Break, TypeInv, status, kind, senderVars, receiverVars, history
<1>4. ASSUME NEW e \in Ends, Disconnection(e)
      PROVE  TypeInv'
  <2>0. /\ caller.at \in Callers /\ caller.call \in {"none", "configure", "queue", "release"}
        /\ caller \in [at : Callers, call : {"none", "configure", "queue", "release"}]
        /\ [caller EXCEPT !.at = "awake"]
             \in [at : Callers, call : {"none", "configure", "queue", "release"}]
    BY DEF TypeInv, Callers
  <2>1. caller' \in [at : Callers, call : {"none", "configure", "queue", "release"}]
    BY <1>4, <2>0 DEF Disconnection, HandleDisconnect, AbortTransfer, AbortCredits
  <2>2. waiting' \in Seq(Nat)
    BY <1>4, NoCredits DEF Disconnection, HandleDisconnect, AbortTransfer, AbortCredits, TypeInv
  <2>3. /\ transferStatus' \in [Ends -> {"ok"} \cup Errors]
        /\ creditStatus' \in [Ends -> {"ok"} \cup Errors]
        /\ disconnecting' \in [Ends -> {"no", "begun", "transfer", "done"}]
        /\ connected' \in [Ends -> BOOLEAN]
    <3>1. /\ transferStatus \in [Ends -> {"ok"} \cup Errors]
          /\ creditStatus \in [Ends -> {"ok"} \cup Errors]
          /\ disconnecting \in [Ends -> {"no", "begun", "transfer", "done"}]
          /\ connected \in [Ends -> BOOLEAN] /\ "Disconnected" \in Errors
      BY DEF TypeInv, Errors
    <3>2. HandleDisconnect(e)
      BY <1>4 DEF Disconnection
    <3>3. transferStatus' \in [Ends -> {"ok"} \cup Errors]
      BY <3>1, <3>2 DEF HandleDisconnect, AbortTransfer, AbortCredits
    <3>4. creditStatus' \in [Ends -> {"ok"} \cup Errors]
      BY <3>1, <3>2 DEF HandleDisconnect, AbortTransfer, AbortCredits
    <3>5. disconnecting' \in [Ends -> {"no", "begun", "transfer", "done"}]
      BY <3>1, <3>2 DEF HandleDisconnect, AbortTransfer, AbortCredits
    <3>6. connected' \in [Ends -> BOOLEAN]
      BY <3>1, <3>2 DEF HandleDisconnect, AbortTransfer, AbortCredits
    <3> QED
      BY <3>3, <3>4, <3>5, <3>6
  <2>4. UNCHANGED <<link, configured, kind, preConfigureCredits, availableCredits,
                    creditsPosted, creditsDone, ackHandler, idle, held, posted, creditsIdle,
                    creditsSent, owed, dataNet, creditNet, history>>
    BY <1>4 DEF Disconnection
  <2> QED
    BY <2>1, <2>2, <2>3, <2>4 DEF TypeInv, kind, history
<1> QED
  BY <1>1, <1>2, <1>3, <1>4

-----------------------------------------------------------------------------
(* The status of the ends, and the places of the credits                   *)

\* Steps that the sender's end does not see
LEMMA UpKept ==
    ASSUME UpInv, link' => link, configured'["sender"] = configured["sender"],
           UNCHANGED <<status, ackHandler>>
    PROVE  UpInv'
  BY DEF UpInv, Adding, status

\* UpInv is preserved by every step.
LEMMA UpNext ==
    ASSUME TypeInv, UpInv, Next
    PROVE  UpInv'
<1> USE DEF Ends
<1>0. /\ transferStatus \in [Ends -> {"ok"} \cup Errors] /\ configured \in [Ends -> BOOLEAN]
      /\ ackHandler.at \in {"wait", "add", "timedOut", "fail", "gone"}
  BY DEF TypeInv
<1>1. CASE ConfigureSender
  BY <1>0, <1>1 DEF ConfigureSender, UpInv, Adding, status
<1>2. ASSUME NEW bytes \in Sizes, SubmitSend(bytes)
      PROVE  UpInv'
  BY <1>0, <1>2 DEF SubmitSend, UpInv, Adding
<1>3. CASE AckTake
  <2>1. /\ UNCHANGED <<link, status, configured>>
        /\ ackHandler'.at = "add" \/ (ackHandler'.at = "gone" /\ creditStatus["sender"] # "ok")
    BY <1>3 DEF AckTake
  <2> QED
    BY <2>1 DEF UpInv, Adding, status
<1>4. CASE AddCredit
  <2>1. /\ UNCHANGED <<link, status, configured>>
        /\ ackHandler'.at = "add" \/ (ackHandler'.at = "fail" /\ configured["sender"])
    BY <1>4 DEF AddCredit
  <2> QED
    BY <2>1 DEF UpInv, Adding, status
<1>5. CASE AckFails
  <2>1. /\ UNCHANGED <<link, connected, creditStatus, disconnecting, configured>>
        /\ ackHandler.at = "fail" /\ ackHandler'.at = "gone"
        /\ transferStatus'["sender"] # "ok"
        /\ transferStatus'["receiver"] = transferStatus["receiver"]
    BY <1>0, <1>5 DEF AckFails
  <2> QED
    BY <2>1 DEF UpInv, Adding
<1>6. CASE AckRequeue
  <2>1. /\ UNCHANGED <<link, status, configured>>
        /\ ackHandler'.at = "wait" \/ (ackHandler'.at = "gone" /\ creditStatus["sender"] # "ok")
    BY <1>6 DEF AckRequeue
  <2> QED
    BY <2>1 DEF UpInv, Adding, status
<1>7. CASE ConfigureReceiver
  <2>1. configured'["sender"] = configured["sender"]
    BY <1>0, <1>7 DEF ConfigureReceiver
  <2> QED
    BY <1>7, <2>1, UpKept DEF ConfigureReceiver, senderVars
<1>8. CASE PostConfigure \/ ReleaseReceivedBufferRegion \/ WaitForCreditBuffer
           \/ SpuriousWakeUp \/ SendCreditUpdate \/ CreditSent
  <2>1. UNCHANGED <<link, configured, status, ackHandler>>
    BY <1>8 DEF PostConfigure, ReleaseReceivedBufferRegion, WaitForCreditBuffer,
                SpuriousWakeUp, SendCreditUpdate, CreditSent, senderVars
  <2> QED
    BY <2>1, UpKept
<1>9. ASSUME NEW len \in Sizes, QueueExternalBufferRegion(len)
      PROVE  UpInv'
  <2>1. UNCHANGED <<link, configured, status, ackHandler>>
    BY <1>9 DEF QueueExternalBufferRegion, senderVars
  <2> QED
    BY <2>1, UpKept
<1>10. CASE DeliverData \/ DeliverCredit \/ Break
  <2>1. link /\ UNCHANGED <<configured, status, ackHandler>>
    BY <1>10 DEF DeliverData, DeliverCredit, Break, senderVars
  <2> QED
    BY <2>1, UpKept
<1>11. ASSUME NEW e \in Ends, Disconnection(e)
       PROVE  UpInv'
  <2>1. /\ UNCHANGED link
        /\ ~link \/ disconnecting[e] = "begun" \/ disconnecting[e] = "transfer"
    BY <1>11 DEF Disconnection, HandleDisconnect
  <2> QED
    BY <2>1 DEF UpInv
<1>12. CASE AckWakesForNothing
  <2>1. UNCHANGED <<link, status, configured>> /\ ackHandler'.at = "timedOut"
    BY <1>12 DEF AckWakesForNothing
  <2> QED
    BY <2>1 DEF UpInv, Adding, status
<1> QED
  BY <1>1, <1>2, <1>3, <1>4, <1>5, <1>6, <1>7, <1>8, <1>9, <1>10, <1>11, <1>12
     DEF Next, Progress

\* Steps that leave the places of threads and calls alone
LEMMA PlaceKept ==
    ASSUME PlaceInv, configured'["sender"] = configured["sender"],
           UNCHANGED <<availableCredits, preConfigureCredits, ackHandler>>
    PROVE  PlaceInv'
  BY DEF PlaceInv

\* PlaceInv is preserved by every step.
LEMMA PlaceNext ==
    ASSUME TypeInv, PlaceInv, Next
    PROVE  PlaceInv'
<1> USE DEF Ends
<1>0. configured \in [Ends -> BOOLEAN] /\ ackHandler.at \in {"wait", "add", "timedOut", "fail", "gone"}
  BY DEF TypeInv
<1>1. CASE ConfigureSender
  <2>1. configured'["sender"] /\ preConfigureCredits' = <<>> /\ UNCHANGED ackHandler
    BY <1>0, <1>1 DEF ConfigureSender
  <2> QED
    BY <2>1 DEF PlaceInv
<1>2. ASSUME NEW bytes \in Sizes, SubmitSend(bytes)
      PROVE  PlaceInv'
  <2>1. configured["sender"] /\ UNCHANGED <<configured, preConfigureCredits, ackHandler>>
    BY <1>2 DEF SubmitSend
  <2> QED
    BY <2>1 DEF PlaceInv
<1>3. CASE AckTake \/ AckWakesForNothing \/ AckFails \/ AckRequeue
  <2>1. /\ UNCHANGED <<configured, preConfigureCredits, availableCredits>>
        /\ ackHandler'.at = "wait" => ackHandler'.left = <<>>
    BY <1>3 DEF AckTake, AckWakesForNothing, AckFails, AckRequeue
  <2> QED
    BY <2>1 DEF PlaceInv
<1>4. CASE AddCredit
  <2>1. /\ UNCHANGED configured
        /\ ~configured["sender"] => UNCHANGED availableCredits
        /\ configured["sender"] => UNCHANGED preConfigureCredits
        /\ ackHandler'.at \in {"add", "fail"}
    BY <1>4 DEF AddCredit
  <2> QED
    BY <2>1 DEF PlaceInv
<1>5. CASE ConfigureReceiver
  <2>1. configured'["sender"] = configured["sender"]
    BY <1>0, <1>5 DEF ConfigureReceiver
  <2> QED
    BY <1>5, <2>1, PlaceKept DEF ConfigureReceiver, senderVars
<1>6. CASE PostConfigure \/ ReleaseReceivedBufferRegion \/ WaitForCreditBuffer
           \/ SpuriousWakeUp \/ SendCreditUpdate \/ CreditSent
           \/ DeliverData \/ DeliverCredit \/ Break
  <2>1. UNCHANGED <<configured, availableCredits, preConfigureCredits, ackHandler>>
    BY <1>6 DEF PostConfigure, ReleaseReceivedBufferRegion, WaitForCreditBuffer,
                SpuriousWakeUp, SendCreditUpdate, CreditSent, senderVars,
                DeliverData, DeliverCredit, Break
  <2> QED
    BY <2>1, PlaceKept
<1>7. ASSUME NEW len \in Sizes, QueueExternalBufferRegion(len)
      PROVE  PlaceInv'
  <2>1. UNCHANGED <<configured, availableCredits, preConfigureCredits, ackHandler>>
    BY <1>7 DEF QueueExternalBufferRegion, senderVars
  <2> QED
    BY <2>1, PlaceKept
<1>8. ASSUME NEW e \in Ends, Disconnection(e)
       PROVE  PlaceInv'
  <2>1. UNCHANGED <<configured, availableCredits, preConfigureCredits, ackHandler>>
    BY <1>8 DEF Disconnection
  <2> QED
    BY <2>1, PlaceKept
<1> QED
  BY <1>1, <1>2, <1>3, <1>4, <1>5, <1>6, <1>7, <1>8 DEF Next, Progress

-----------------------------------------------------------------------------
(* Credit messages are not empty.                                          *)

\* No message is empty once the oldest is gone.
LEMMA NoEmptyTail ==
    ASSUME NEW s \in Seq(Seq(Nat)), s # <<>>, NoEmpty(s)
    PROVE  Head(s) # <<>> /\ NoEmpty(Tail(s))
<1>1. Len(s) \in Nat /\ Len(s) # 0 /\ Head(s) = s[1]
  BY EmptySeq, LenProperties
<1>2. 1 \in 1 .. Len(s)
  BY <1>1
<1>3. Head(s) # <<>>
  BY <1>1, <1>2 DEF NoEmpty
<1>4. Len(Tail(s)) = Len(s) - 1 /\ \A i \in 1 .. Len(Tail(s)) : Tail(s)[i] = s[i + 1]
  BY HeadTailProperties
<1>5. ASSUME NEW i \in 1 .. Len(Tail(s))
      PROVE  Tail(s)[i] # <<>>
  <2>1. i + 1 \in 1 .. Len(s)
    BY <1>1, <1>4
  <2> QED
    BY <1>4, <2>1 DEF NoEmpty
<1> QED
  BY <1>3, <1>5 DEF NoEmpty

\* No message is empty after one that is not was added.
LEMMA NoEmptyAppend ==
    ASSUME NEW s \in Seq(Seq(Nat)), NEW m \in Seq(Nat), m # <<>>, NoEmpty(s)
    PROVE  NoEmpty(Append(s, m))
<1> DEFINE a == Append(s, m)
<1>1. /\ Len(a) = Len(s) + 1 /\ a[Len(s) + 1] = m
      /\ \A i \in 1 .. Len(s) : a[i] = s[i]
  BY AppendProperties
<1>2. Len(s) \in Nat
  BY LenProperties
<1> HIDE DEF a
<1>3. ASSUME NEW i \in 1 .. Len(a)
      PROVE  a[i] # <<>>
  <2>1. i \in 1 .. Len(s) \/ i = Len(s) + 1
    BY <1>1, <1>2
  <2>2. CASE i \in 1 .. Len(s)
    <3>1. a[i] = s[i] /\ s[i] # <<>>
      BY <1>1, <2>2 DEF NoEmpty
    <3> QED
      BY <3>1
  <2>3. CASE i = Len(s) + 1
    BY <1>1, <2>3
  <2> QED
    BY <2>1, <2>2, <2>3
<1> QED
  BY <1>3 DEF NoEmpty, a

\* Steps that leave the credit messages alone
LEMMA MessagesKept ==
    ASSUME MessageInv, UNCHANGED <<creditsDone, creditNet>>, Announcing' => owed' # <<>>
    PROVE  MessageInv'
  BY DEF MessageInv, NoEmpty

\* MessageInv is preserved by every step.
LEMMA MessageNext ==
    ASSUME TypeInv, MessageInv, Next
    PROVE  MessageInv'
<1>0. /\ caller \in [at : Callers, call : {"none", "configure", "queue", "release"}]
      /\ owed \in Seq(Nat) /\ bufferLen \in Nat
      /\ creditsDone \in Seq(Seq(Nat)) /\ creditNet \in Seq(Seq(Nat))
  BY DEF TypeInv
<1>00. Announcing => owed # <<>>
  BY DEF MessageInv
<1>1. CASE ConfigureSender \/ AckWakesForNothing \/ AddCredit \/ AckFails \/ AckRequeue
           \/ Break \/ DeliverData
  <2>1. UNCHANGED <<creditsDone, creditNet, caller, owed>>
    BY <1>1 DEF ConfigureSender, AckWakesForNothing, AddCredit, AckFails, AckRequeue, Break,
                DeliverData, senderVars, receiverVars
  <2> QED
    BY <1>00, <2>1, MessagesKept DEF Announcing
<1>2. ASSUME NEW bytes \in Sizes, SubmitSend(bytes)
      PROVE  MessageInv'
  <2>1. UNCHANGED <<creditsDone, creditNet, caller, owed>>
    BY <1>2 DEF SubmitSend, receiverVars
  <2> QED
    BY <1>00, <2>1, MessagesKept DEF Announcing
<1>3. CASE AckTake
  <2>1. /\ UNCHANGED <<creditNet, caller, owed>>
        /\ creditsDone' = creditsDone \/ (creditsDone # <<>> /\ creditsDone' = Tail(creditsDone))
    BY <1>3 DEF AckTake, receiverVars
  <2>2. NoEmpty(creditsDone) /\ NoEmpty(creditNet)
    BY DEF MessageInv
  <2>3. NoEmpty(creditsDone')
    BY <1>0, <2>1, <2>2, NoEmptyTail
  <2>4. NoEmpty(creditNet')
    BY <2>1, <2>2
  <2> QED
    BY <1>00, <2>1, <2>3, <2>4 DEF MessageInv, Announcing, NoEmpty
<1>4. CASE DeliverCredit
  <2>1. /\ UNCHANGED <<caller, owed>> /\ creditNet # <<>> /\ creditNet' = Tail(creditNet)
        /\ creditsDone' \in {creditsDone, Append(creditsDone, Head(creditNet))}
    BY <1>4 DEF DeliverCredit
  <2>2. NoEmpty(creditsDone) /\ NoEmpty(creditNet)
    BY DEF MessageInv
  <2>3. Head(creditNet) # <<>> /\ NoEmpty(Tail(creditNet)) /\ Head(creditNet) \in Seq(Nat)
    BY <1>0, <2>1, <2>2, NoEmptyTail, Peel
  <2>4. NoEmpty(Append(creditsDone, Head(creditNet)))
    BY <1>0, <2>2, <2>3, NoEmptyAppend
  <2>5. NoEmpty(creditsDone') /\ NoEmpty(creditNet')
    BY <2>1, <2>2, <2>3, <2>4
  <2> QED
    BY <1>00, <2>1, <2>5 DEF MessageInv, Announcing, NoEmpty
<1>5. CASE ConfigureReceiver \/ SpuriousWakeUp \/ CreditSent
  <2>1. /\ UNCHANGED <<creditsDone, creditNet, owed>>
        /\ caller'.at \in {"none", "configure"} \/ Announcing
    BY <1>0, <1>5 DEF ConfigureReceiver, SpuriousWakeUp, CreditSent, senderVars, Announcing,
                      Callers
  <2> QED
    BY <1>00, <2>1, MessagesKept DEF Announcing
<1>6. CASE PostConfigure
  <2>1. /\ UNCHANGED <<creditsDone, creditNet>>
        /\ \/ caller' = caller /\ caller.at = "configure"
           \/ caller'.at = "update" /\ owed # <<>> /\ owed' = owed
           \/ caller'.at = "none"
    BY <1>0, <1>6 DEF PostConfigure, senderVars
  <2> QED
    BY <2>1, MessagesKept DEF Announcing
<1>7. CASE ReleaseReceivedBufferRegion
  <2>0. Append(owed, bufferLen) # <<>>
    BY <1>0, Push
  <2>1. /\ UNCHANGED <<creditsDone, creditNet>>
        /\ caller' = caller \/ owed' = Append(owed, bufferLen)
        /\ caller.at = "none"
    BY <1>7 DEF ReleaseReceivedBufferRegion, Post, senderVars
  <2> QED
    BY <2>0, <2>1, MessagesKept DEF Announcing
<1>8. ASSUME NEW len \in Sizes, QueueExternalBufferRegion(len)
      PROVE  MessageInv'
  <2>0. Append(owed, len) # <<>>
    BY <1>0, Push, FlowControlAssumption
  <2>1. UNCHANGED <<creditsDone, creditNet>> /\ owed' = Append(owed, len)
    BY <1>8 DEF QueueExternalBufferRegion, Post, senderVars
  <2> QED
    BY <2>0, <2>1, MessagesKept
<1>9. CASE WaitForCreditBuffer
  <2>1. /\ UNCHANGED <<creditsDone, creditNet>> /\ Announcing
        /\ owed' = owed \/ caller'.at = "none"
    BY <1>9 DEF WaitForCreditBuffer, TakeCreditBuffer, CallEnds, Announcing, senderVars
  <2> QED
    BY <1>00, <2>1, MessagesKept DEF Announcing
<1>10. CASE SendCreditUpdate
  <2>1. UNCHANGED creditsDone /\ Announcing
    BY <1>10 DEF SendCreditUpdate, Announcing, senderVars
  <2>2. NoEmpty(creditsDone) /\ NoEmpty(creditNet)
    BY DEF MessageInv
  <2>3. CASE Announce
    <3>1. PICK h \in Seq(Nat) : h # <<>> /\ creditNet' = Append(creditNet, h)
      BY <1>0, <1>00, <2>1, <2>3, AnnounceSplits
    <3>2. NoEmpty(creditNet')
      BY <1>0, <2>2, <3>1, NoEmptyAppend
    <3>3. owed' # <<>> \/ caller'.at = "none"
      BY <1>10 DEF SendCreditUpdate, CallEnds
    <3> QED
      BY <2>1, <2>2, <3>2, <3>3 DEF MessageInv, Announcing, NoEmpty
  <2>4. CASE CallEnds(creditStatus["receiver"]) /\ UNCHANGED creditNet
    <3>1. caller'.at = "none"
      BY <2>4 DEF CallEnds
    <3> QED
      BY <2>1, <2>4, <3>1, MessagesKept DEF Announcing
  <2> QED
    BY <1>10, <2>3, <2>4 DEF SendCreditUpdate
<1>11. ASSUME NEW e \in Ends, Disconnection(e)
       PROVE  MessageInv'
  <2>1. /\ UNCHANGED <<creditsDone, creditNet, owed>>
        /\ caller' = caller \/ caller.at = "asleep"
    BY <1>11 DEF Disconnection, HandleDisconnect, AbortCredits
  <2> QED
    BY <1>00, <2>1, MessagesKept DEF Announcing
<1> QED
  BY <1>1, <1>2, <1>3, <1>4, <1>5, <1>6, <1>7, <1>8, <1>9, <1>10, <1>11 DEF Next, Progress

-----------------------------------------------------------------------------
(* Buffers                                                                 *)

\* Of a sum, one moves from one part to another.
LEMMA Moved ==
    \A i, h, p, m \in Nat :
        i + h + p = m => /\ (i - 1) + h + (p + 1) = m /\ i + (h - 1) + (p + 1) = m
                         /\ (i + 1) + h + (p - 1) = m /\ i + (h + 1) + (p - 1) = m
  OBVIOUS

\* The receiver's transfer buffers are conserved by every step.
LEMMA TransferBuffersNext ==
    ASSUME TypeInv, UpInv, link, TransferBuffers, Next
    PROVE  link' => TransferBuffers'
<1>0. /\ idle \in Nat /\ held \in Nat /\ posted \in Seq(Nat) /\ Len(posted) \in Nat
      /\ maxConcurrentTransactions \in Nat /\ bufferLen \in Nat
      /\ connected["receiver"] /\ transferStatus["receiver"] = "ok"
  BY LenProperties DEF TypeInv, UpInv, Ends
<1>00. idle + held + Len(posted) = maxConcurrentTransactions
  BY DEF TransferBuffers
<1>n. /\ idle \in Nat /\ held \in Nat /\ Len(posted) \in Nat
      /\ maxConcurrentTransactions \in Nat
  BY <1>0
<1>000. ASSUME NEW x \in Nat
        PROVE  Len(Append(posted, x)) = Len(posted) + 1
  BY <1>0, AppendProperties
<1>1. CASE UNCHANGED <<idle, held, posted, maxConcurrentTransactions>>
  BY <1>00, <1>1 DEF TransferBuffers
<1>2. CASE DeliverData
  <2>1. posted # <<>> /\ posted' = Tail(posted)
    BY <1>2 DEF DeliverData
  <2>2. Len(posted') = Len(posted) - 1
    BY <1>0, <2>1, HeadTailProperties
  <2>3. maxConcurrentTransactions' = maxConcurrentTransactions
    BY <1>2 DEF DeliverData, kind
  <2>4. \/ idle' = idle + 1 /\ held' = held
        \/ idle' = idle /\ held' = held + 1
    <3>1. CASE external
      BY <1>0, <1>2, <3>1 DEF DeliverData
    <3>2. CASE ~external
      BY <1>0, <1>2, <3>2 DEF DeliverData
    <3> QED
      BY <3>1, <3>2
  <2>5. idle' + held' + Len(posted') = maxConcurrentTransactions'
    BY <1>n, <1>00, <2>2, <2>3, <2>4, Moved
  <2> QED
    BY <2>5 DEF TransferBuffers
<1>3. CASE PostConfigure
  <2>1. /\ UNCHANGED <<held, maxConcurrentTransactions>>
        /\ \/ idle > 0 /\ idle' = idle - 1 /\ posted' = Append(posted, bufferLen)
           \/ UNCHANGED <<idle, posted>>
    BY <1>3 DEF PostConfigure, Post, kind
  <2>2. idle' + held' + Len(posted') = maxConcurrentTransactions'
    <3>1. CASE UNCHANGED <<idle, posted>>
      BY <1>00, <2>1, <3>1
    <3>2. CASE idle > 0 /\ idle' = idle - 1 /\ posted' = Append(posted, bufferLen)
      <4>1. Len(posted') = Len(posted) + 1
        BY <1>0, <1>000, <3>2
      <4> QED
        BY <1>n, <1>00, <2>1, <3>2, <4>1, Moved
    <3> QED
      BY <2>1, <3>1, <3>2
  <2> QED
    BY <2>2 DEF TransferBuffers
<1>4. CASE ReleaseReceivedBufferRegion
  <2>1. /\ held > 0 /\ held' = held - 1 /\ UNCHANGED <<idle, maxConcurrentTransactions>>
        /\ posted' = Append(posted, bufferLen)
    BY <1>0, <1>4 DEF ReleaseReceivedBufferRegion, Post, kind
  <2>2. idle' + held' + Len(posted') = maxConcurrentTransactions'
    <3>1. Len(posted') = Len(posted) + 1
      BY <1>0, <1>000, <2>1
    <3> QED
      BY <1>n, <1>00, <2>1, <3>1, Moved
  <2> QED
    BY <2>2 DEF TransferBuffers
<1>5. ASSUME NEW len \in Sizes, QueueExternalBufferRegion(len)
      PROVE  link' => TransferBuffers'
  <2>1. /\ idle > 0 /\ idle' = idle - 1 /\ UNCHANGED <<held, maxConcurrentTransactions>>
        /\ posted' = Append(posted, len) /\ len \in Nat
    BY <1>5, FlowControlAssumption DEF QueueExternalBufferRegion, Post, kind
  <2>2. idle' + held' + Len(posted') = maxConcurrentTransactions'
    <3>1. Len(posted') = Len(posted) + 1
      BY <1>0, <1>000, <2>1
    <3> QED
      BY <1>n, <1>00, <2>1, <3>1, Moved
  <2> QED
    BY <2>2 DEF TransferBuffers
<1>6. CASE \/ ConfigureSender \/ AckTake \/ AckWakesForNothing \/ AddCredit \/ AckFails
           \/ AckRequeue \/ ConfigureReceiver \/ WaitForCreditBuffer \/ SpuriousWakeUp
           \/ SendCreditUpdate \/ CreditSent \/ DeliverCredit \/ Break
  <2>1. UNCHANGED <<idle, held, posted, maxConcurrentTransactions>>
    BY <1>6 DEF ConfigureSender, AckTake, AckWakesForNothing, AddCredit, AckFails,
                AckRequeue, ConfigureReceiver, WaitForCreditBuffer, SpuriousWakeUp, SendCreditUpdate, CreditSent,
                DeliverCredit, Break, kind, receiverVars
  <2> QED
    BY <1>1, <2>1
<1>7. ASSUME NEW bytes \in Sizes, SubmitSend(bytes)
      PROVE  link' => TransferBuffers'
  <2>1. UNCHANGED <<idle, held, posted, maxConcurrentTransactions>>
    BY <1>7 DEF SubmitSend, kind, receiverVars
  <2> QED
    BY <1>1, <2>1
<1>8. ASSUME NEW e \in Ends, Disconnection(e)
      PROVE  link' => TransferBuffers'
  <2>1. UNCHANGED <<idle, held, posted, maxConcurrentTransactions>>
    BY <1>8 DEF Disconnection, kind
  <2> QED
    BY <1>1, <2>1
<1> QED
  BY <1>2, <1>3, <1>4, <1>5, <1>6, <1>7, <1>8 DEF Next, Progress

\* The sender's credit buffers are conserved by every step.
LEMMA SenderBuffersNext ==
    ASSUME TypeInv, UpInv, link, Adding => SenderBuffers, Next
    PROVE  Adding' => SenderBuffers'
<1>0. /\ creditsPosted \in Nat /\ creditsDone \in Seq(Seq(Nat)) /\ Len(creditsDone) \in Nat
      /\ CreditBuffers \in Nat /\ creditStatus["sender"] = "ok"
      /\ creditNet \in Seq(Seq(Nat))
  BY LenProperties, FlowControlAssumption DEF TypeInv, UpInv, Ends
<1>1. CASE UNCHANGED <<creditsPosted, creditsDone, ackHandler>>
  BY <1>1 DEF Adding, SenderBuffers
<1>2. CASE AckTake
  <2>1. /\ ackHandler.at = "wait" /\ creditsDone # <<>> /\ creditsDone' = Tail(creditsDone)
        /\ ackHandler'.at = "add" /\ UNCHANGED creditsPosted
    BY <1>0, <1>2 DEF AckTake
  <2>2. Len(creditsDone') = Len(creditsDone) - 1
    BY <1>0, <2>1, HeadTailProperties
  <2>3. creditsPosted + Len(creditsDone) = CreditBuffers
    BY <1>0, <2>1 DEF Adding, SenderBuffers
  <2> QED
    BY <1>0, <2>1, <2>2, <2>3 DEF SenderBuffers
<1>3. CASE AddCredit
  <2>1. /\ ackHandler.at = "add" /\ ackHandler'.at \in {"add", "fail"}
        /\ UNCHANGED <<creditsPosted, creditsDone>>
    BY <1>3 DEF AddCredit
  <2> QED
    BY <2>1 DEF Adding, SenderBuffers
<1>4. CASE AckFails
  <2>1. ackHandler'.at = "gone"
    BY <1>4 DEF AckFails
  <2> QED
    BY <2>1 DEF Adding
<1>5. CASE AckRequeue
  <2>1. /\ ackHandler.at = "add" /\ ackHandler'.at = "wait"
        /\ creditsPosted' = creditsPosted + 1 /\ UNCHANGED creditsDone
    BY <1>0, <1>5 DEF AckRequeue
  <2>2. creditsPosted + Len(creditsDone) + 1 = CreditBuffers
    BY <1>0, <2>1 DEF Adding, SenderBuffers
  <2> QED
    BY <1>0, <2>1, <2>2 DEF SenderBuffers
<1>6. CASE DeliverCredit
  <2>1. /\ creditNet # <<>> /\ creditsPosted > 0 /\ creditsPosted' = creditsPosted - 1
        /\ creditsDone' = Append(creditsDone, Head(creditNet)) /\ UNCHANGED ackHandler
    BY <1>0, <1>6 DEF DeliverCredit
  <2>2. Head(creditNet) \in Seq(Nat)
    BY <1>0, <2>1, Peel
  <2>3. Len(creditsDone') = Len(creditsDone) + 1
    BY <1>0, <2>1, <2>2, AppendProperties
  <2>4. creditsPosted' + Len(creditsDone') = creditsPosted + Len(creditsDone)
    BY <1>0, <2>1, <2>3
  <2> QED
    BY <2>1, <2>4 DEF Adding, SenderBuffers
<1>7. CASE \/ ConfigureSender \/ ConfigureReceiver \/ PostConfigure
           \/ ReleaseReceivedBufferRegion \/ WaitForCreditBuffer \/ SpuriousWakeUp
           \/ SendCreditUpdate \/ CreditSent \/ DeliverData \/ Break
  <2>1. UNCHANGED <<creditsPosted, creditsDone, ackHandler>>
    BY <1>7 DEF ConfigureSender, ConfigureReceiver, PostConfigure,
                ReleaseReceivedBufferRegion, WaitForCreditBuffer, SpuriousWakeUp,
                SendCreditUpdate, CreditSent, DeliverData, Break, senderVars
  <2> QED
    BY <1>1, <2>1
<1>8. ASSUME NEW bytes \in Sizes, SubmitSend(bytes) \/ QueueExternalBufferRegion(bytes)
      PROVE  Adding' => SenderBuffers'
  <2>1. UNCHANGED <<creditsPosted, creditsDone, ackHandler>>
    BY <1>8 DEF SubmitSend, QueueExternalBufferRegion, senderVars
  <2> QED
    BY <1>1, <2>1
<1>9. ASSUME NEW e \in Ends, Disconnection(e)
      PROVE  Adding' => SenderBuffers'
  <2>1. UNCHANGED <<creditsPosted, creditsDone, ackHandler>>
    BY <1>9 DEF Disconnection
  <2> QED
    BY <1>1, <2>1
<1>10. CASE AckWakesForNothing
  <2>1. /\ ackHandler.at = "wait" /\ ackHandler'.at = "timedOut"
        /\ UNCHANGED <<creditsPosted, creditsDone>>
    BY <1>10 DEF AckWakesForNothing
  <2> QED
    BY <2>1 DEF Adding, SenderBuffers
<1> QED
  BY <1>2, <1>3, <1>4, <1>5, <1>6, <1>7, <1>8, <1>9, <1>10 DEF Next, Progress

\* A connection that is down stays down.
LEMMA LinkNext ==
    ASSUME Next
    PROVE  link' => link
<1>1. ASSUME NEW bytes \in Sizes, SubmitSend(bytes) \/ QueueExternalBufferRegion(bytes)
      PROVE  link' => link
  BY <1>1 DEF SubmitSend, QueueExternalBufferRegion
<1>2. ASSUME NEW e \in Ends, Disconnection(e)
      PROVE  link' => link
  BY <1>2 DEF Disconnection
<1>3. CASE \/ ConfigureSender \/ AckTake \/ AckWakesForNothing \/ AddCredit \/ AckFails
           \/ AckRequeue \/ ConfigureReceiver \/ PostConfigure \/ ReleaseReceivedBufferRegion
           \/ WaitForCreditBuffer \/ SpuriousWakeUp \/ SendCreditUpdate \/ CreditSent
           \/ DeliverData \/ DeliverCredit \/ Break
  BY <1>3 DEF ConfigureSender, AckTake, AckWakesForNothing, AddCredit, AckFails, AckRequeue,
              ConfigureReceiver, PostConfigure, ReleaseReceivedBufferRegion, WaitForCreditBuffer, SpuriousWakeUp,
              SendCreditUpdate, CreditSent, DeliverData, DeliverCredit, Break
<1> QED
  BY <1>1, <1>2, <1>3 DEF Next, Progress

\* BufferInv is preserved by every step.
LEMMA BufferNext ==
    ASSUME TypeInv, UpInv, BufferInv, Next
    PROVE  BufferInv'
<1> SUFFICES ASSUME link' PROVE TransferBuffers' /\ (Adding' => SenderBuffers')
  BY DEF BufferInv
<1>1. link
  BY LinkNext
<1>2. TransferBuffers /\ (Adding => SenderBuffers)
  BY <1>1 DEF BufferInv
<1> QED
  BY <1>1, <1>2, TransferBuffersNext, SenderBuffersNext

-----------------------------------------------------------------------------
(* Credits and posted buffers                                              *)

\* The parts of TypeInv that are sequences
LEMMA SequenceTypes ==
    ASSUME TypeInv
    PROVE  /\ availableCredits \in Seq(Nat) /\ preConfigureCredits \in Seq(Nat)
           /\ ackHandler.left \in Seq(Nat) /\ owed \in Seq(Nat) /\ waiting \in Seq(Nat)
           /\ dataNet \in Seq(Nat) /\ posted \in Seq(Nat)
           /\ creditsDone \in Seq(Seq(Nat)) /\ creditNet \in Seq(Seq(Nat))
           /\ FlattenSeq(creditsDone) \in Seq(Nat) /\ FlattenSeq(creditNet) \in Seq(Nat)
<1>1. /\ availableCredits \in Seq(Nat) /\ preConfigureCredits \in Seq(Nat)
      /\ ackHandler.left \in Seq(Nat) /\ owed \in Seq(Nat) /\ waiting \in Seq(Nat)
      /\ dataNet \in Seq(Nat) /\ posted \in Seq(Nat)
      /\ creditsDone \in Seq(Seq(Nat)) /\ creditNet \in Seq(Seq(Nat))
  BY DEF TypeInv
<1> QED
  BY <1>1, FlattenType

\* Steps that change no place of a credit
LEMMA NothingMoves ==
    ASSUME CreditInv, link' => link, unannounced => unannounced',
           UNCHANGED <<availableCredits, preConfigureCredits, ackHandler, creditsDone,
                       creditNet, owed, dataNet, posted>>
    PROVE  CreditInv'
<1>1. Credits' = Credits /\ Adding' = Adding
  BY DEF Credits, Adding
<1> QED
  BY <1>1, CreditsKept

\* The sender is configured: CreditInv.
LEMMA CreditConfigure ==
    ASSUME TypeInv, PlaceInv, CreditInv, ConfigureSender
    PROVE  CreditInv'
<1>1. /\ ~configured["sender"] /\ availableCredits' = preConfigureCredits
      /\ preConfigureCredits' = <<>>
      /\ UNCHANGED <<link, unannounced, ackHandler, creditsDone, creditNet, owed, dataNet,
                     posted>>
  BY DEF ConfigureSender, receiverVars, history
<1>2. availableCredits = <<>> /\ preConfigureCredits \in Seq(Nat)
  BY <1>1, SequenceTypes DEF PlaceInv
<1>3. Credits' = Credits
  <2>1. <<>> \o preConfigureCredits = preConfigureCredits \o <<>>
    BY <1>2, ConcatEmptySeq
  <2>2. CASE Adding
    <3>1. /\ Credits = Line(<<>>, preConfigureCredits, ackHandler.left,
                            FlattenSeq(creditsDone), FlattenSeq(creditNet), owed)
          /\ Credits' = Line(preConfigureCredits, <<>>, ackHandler.left,
                             FlattenSeq(creditsDone), FlattenSeq(creditNet), owed)
      BY <1>1, <1>2, <2>2 DEF Credits, Adding
    <3> QED
      BY <1>2, <3>1, LineConfigure
  <2>3. CASE ~Adding
    BY <1>1, <1>2, <2>1, <2>3 DEF Credits, Adding
  <2> QED
    BY <2>2, <2>3
<1> QED
  BY <1>1, <1>3, CreditsKept DEF Adding

\* The oldest of the credits that the sender has is the oldest of all.
OldestFirst(h, a, p, l, d, n, o) ==
    /\ Line(h \o a, p, l, d, n, o) = h \o Line(a, p, l, d, n, o)
    /\ (h \o a) \o p = h \o (a \o p)

\* The oldest credit of the sender is the oldest of the line.
LEMMA OldestCredit ==
    \A h, a, p, l, d, n, o \in Seq(Nat) : OldestFirst(h, a, p, l, d, n, o)
<1>1. ASSUME NEW h \in Seq(Nat), NEW a \in Seq(Nat), NEW p \in Seq(Nat), NEW l \in Seq(Nat),
             NEW d \in Seq(Nat), NEW n \in Seq(Nat), NEW o \in Seq(Nat)
      PROVE  OldestFirst(h, a, p, l, d, n, o)
  <2>1. LineUses(h, a, p, l, d, n, o)
    BY LineUse
  <2>2. Associate(h, a, p)
    BY Regroup
  <2> QED
    BY <2>1, <2>2 DEF Associate, LineUses, OldestFirst
<1> QED
  BY <1>1

\* A submission uses a credit or waits: CreditInv.
LEMMA CreditSubmit ==
    ASSUME TypeInv, TypeInv', CreditInv, NEW bytes \in Sizes, SubmitSend(bytes)
    PROVE  CreditInv'
<1>1. UNCHANGED <<link, unannounced, preConfigureCredits, ackHandler, creditsDone, creditNet,
                  owed, posted>>
  BY DEF SubmitSend, receiverVars
<1>2. CASE UNCHANGED <<availableCredits, dataNet>>
  BY <1>1, <1>2, NothingMoves
<1>3. CASE /\ availableCredits # <<>> /\ Fits(bytes, Head(availableCredits))
           /\ availableCredits' = Tail(availableCredits)
           /\ dataNet' = Append(dataNet, bytes)
  <2> DEFINE c == Head(availableCredits)
             a == Tail(availableCredits)
             h == <<c>>
  <2>1. c \in Nat /\ a \in Seq(Nat) /\ availableCredits = h \o a
    BY <1>3, SequenceTypes, HeadFirst
  <2>2. bytes \in Nat /\ bytes <= c
    BY <1>3, FlowControlAssumption DEF Fits
  <2>3. availableCredits' = a
    BY <1>3
  <2> HIDE DEF c, a
  <2>h. h \in Seq(Nat)
    BY <2>1
  <2> HIDE DEF h
  <2>4. Credits = h \o Credits'
    <3>1. /\ Credits = IF Adding THEN Line(h \o a, preConfigureCredits, ackHandler.left,
                               FlattenSeq(creditsDone), FlattenSeq(creditNet), owed)
                                 ELSE (h \o a) \o preConfigureCredits
          /\ Credits' = IF Adding THEN Line(a, preConfigureCredits, ackHandler.left,
                               FlattenSeq(creditsDone), FlattenSeq(creditNet), owed)
                                  ELSE a \o preConfigureCredits
      BY <1>1, <2>1, <2>3 DEF Credits, Adding
    <3>2. /\ preConfigureCredits \in Seq(Nat) /\ ackHandler.left \in Seq(Nat)
          /\ owed \in Seq(Nat) /\ FlattenSeq(creditsDone) \in Seq(Nat)
          /\ FlattenSeq(creditNet) \in Seq(Nat)
      BY SequenceTypes
    <3>3. OldestFirst(h, a, preConfigureCredits, ackHandler.left,
                      FlattenSeq(creditsDone), FlattenSeq(creditNet), owed)
      BY <2>1, <2>h, <3>2, OldestCredit
    <3>4. CASE Adding
      BY <3>1, <3>3, <3>4 DEF OldestFirst
    <3>5. CASE ~Adding
      BY <3>1, <3>3, <3>5 DEF OldestFirst
    <3> QED
      BY <3>4, <3>5
  <2>5. Credits' \in Seq(Nat)
    BY CreditsTypeNext
  <2>6. dataNet \in Seq(Nat) /\ posted \in Seq(Nat)
    BY SequenceTypes
  <2>7. Credits = <<c>> \o Credits'
    BY <2>4 DEF h
  <2> QED
    BY <1>1, <1>3, <2>1, <2>2, <2>5, <2>6, <2>7, CreditsUsed DEF Adding
<1> QED
  BY <1>2, <1>3 DEF SubmitSend

\* The ack handler takes a message: CreditInv.
LEMMA CreditTake ==
    ASSUME TypeInv, UpInv, PlaceInv, CreditInv, AckTake
    PROVE  CreditInv'
<1> SUFFICES ASSUME link PROVE CreditInv'
  BY DEF AckTake, CreditInv
<1>1. /\ ackHandler.at = "wait" /\ creditsDone # <<>>
      /\ ackHandler' = [at |-> "add", left |-> Head(creditsDone)]
      /\ creditsDone' = Tail(creditsDone)
      /\ UNCHANGED <<link, unannounced, preConfigureCredits, availableCredits, creditNet,
                     owed, dataNet, posted>>
  BY DEF AckTake, UpInv, Ends, receiverVars, history
<1>2. /\ availableCredits \in Seq(Nat) /\ preConfigureCredits \in Seq(Nat)
      /\ creditsDone \in Seq(Seq(Nat))
  BY SequenceTypes
<1>3. /\ Head(creditsDone) \in Seq(Nat) /\ FlattenSeq(Tail(creditsDone)) \in Seq(Nat)
      /\ FlattenSeq(creditsDone) = Head(creditsDone) \o FlattenSeq(Tail(creditsDone))
  <2>1. Head(creditsDone) \in Seq(Nat) /\ Tail(creditsDone) \in Seq(Seq(Nat))
    BY <1>1, <1>2, Peel
  <2>2. FlattenSeq(Tail(creditsDone)) \in Seq(Nat)
    BY <2>1, FlattenType
  <2>3. FlattenSeq(creditsDone) = Head(creditsDone) \o FlattenSeq(Tail(creditsDone))
    BY <1>1, <1>2, FlattenTail
  <2> QED
    BY <2>1, <2>2, <2>3
<1>4. Adding /\ Adding' /\ ackHandler.left = <<>> /\ ackHandler'.left = Head(creditsDone)
  BY <1>1 DEF Adding, PlaceInv
<1>5. /\ Credits = Line(availableCredits, preConfigureCredits, <<>>,
                        FlattenSeq(creditsDone), FlattenSeq(creditNet), owed)
      /\ Credits' = Line(availableCredits, preConfigureCredits, Head(creditsDone),
                         FlattenSeq(Tail(creditsDone)), FlattenSeq(creditNet), owed)
  BY <1>1, <1>4 DEF Credits
<1>6. Credits' = Credits
  BY <1>2, <1>3, <1>5, LineTake
<1> QED
  BY <1>1, <1>4, <1>6, CreditsKept

\* The ack handler ends, with no credit of its own: CreditInv.
LEMMA CreditWakes ==
    ASSUME PlaceInv, CreditInv, AckWakesForNothing
    PROVE  CreditInv'
<1>1. /\ ackHandler.at = "wait" /\ ackHandler.left = <<>>
      /\ ackHandler' = [at |-> "timedOut", left |-> <<>>]
      /\ UNCHANGED <<link, unannounced, preConfigureCredits, availableCredits, creditsDone,
                     creditNet, owed, dataNet, posted>>
  BY DEF AckWakesForNothing, PlaceInv, receiverVars, history
<1>2. Adding /\ Adding' /\ ackHandler'.left = ackHandler.left
  BY <1>1 DEF Adding
<1>3. Credits' = Credits
  BY <1>1, <1>2 DEF Credits
<1> QED
  BY <1>1, <1>2, <1>3, CreditsKept

\* The ack handler posts its buffer again: CreditInv.
LEMMA CreditRequeue ==
    ASSUME UpInv, CreditInv, AckRequeue
    PROVE  CreditInv'
<1> SUFFICES ASSUME link PROVE CreditInv'
  BY DEF AckRequeue, CreditInv
<1>1. /\ ackHandler.at = "add" /\ ackHandler.left = <<>>
      /\ ackHandler' = [at |-> "wait", left |-> <<>>]
      /\ UNCHANGED <<link, unannounced, preConfigureCredits, availableCredits, creditsDone,
                     creditNet, owed, dataNet, posted>>
  BY DEF AckRequeue, UpInv, Ends, receiverVars, history
<1>2. Adding /\ Adding' /\ ackHandler'.left = ackHandler.left
  BY <1>1 DEF Adding
<1>3. Credits' = Credits
  BY <1>1, <1>2 DEF Credits
<1> QED
  BY <1>1, <1>2, <1>3, CreditsKept

\* The ack handler fails: CreditInv.
LEMMA CreditFails ==
    ASSUME CreditInv, AckFails
    PROVE  CreditInv'
<1>1. /\ ~Adding /\ ~Adding'
      /\ UNCHANGED <<link, unannounced, preConfigureCredits, availableCredits, dataNet, posted>>
  BY DEF AckFails, Adding, receiverVars, history
<1>2. Credits' = Credits
  BY <1>1 DEF Credits
<1> QED
  BY <1>1, <1>2, CreditsKept

\* AddCredit: CreditInv.
LEMMA CreditAdd ==
    ASSUME TypeInv, TypeInv', PlaceInv, CreditInv, AddCredit
    PROVE  CreditInv'
<1> DEFINE c == Head(ackHandler.left)
           l == Tail(ackHandler.left)
           all == Append(availableCredits, c)
           d == FlattenSeq(creditsDone)
           n == FlattenSeq(creditNet)
<1>1. /\ ackHandler.at = "add" /\ ackHandler.left # <<>>
      /\ UNCHANGED <<link, unannounced, creditsDone, creditNet, owed, posted>>
      /\ d' = d /\ n' = n
  BY DEF AddCredit, receiverVars, history
<1>2. /\ availableCredits \in Seq(Nat) /\ preConfigureCredits \in Seq(Nat)
      /\ d \in Seq(Nat) /\ n \in Seq(Nat) /\ owed \in Seq(Nat) /\ waiting \in Seq(Nat)
      /\ dataNet \in Seq(Nat) /\ posted \in Seq(Nat) /\ Credits' \in Seq(Nat)
  BY SequenceTypes, CreditsTypeNext
<1>3. c \in Nat /\ l \in Seq(Nat) /\ ackHandler.left = <<c>> \o l
  BY <1>1, SequenceTypes, HeadFirst
<1>4. \/ /\ ~configured["sender"]
         /\ preConfigureCredits' = Append(preConfigureCredits, c)
         /\ ackHandler' = [at |-> "add", left |-> l]
         /\ UNCHANGED <<availableCredits, dataNet>>
      \/ /\ configured["sender"]
         /\ availableCredits' = all
         /\ ackHandler' = [at |-> "add", left |-> l]
         /\ UNCHANGED <<preConfigureCredits, dataNet>>
      \/ /\ configured["sender"] /\ waiting # <<>>
         /\ Fits(Head(waiting), Head(all))
         /\ dataNet' = Append(dataNet, Head(waiting))
         /\ availableCredits' = Tail(all)
         /\ ackHandler' = [at |-> "add", left |-> l]
         /\ UNCHANGED preConfigureCredits
      \/ /\ configured["sender"]
         /\ availableCredits' = all
         /\ ackHandler' = [at |-> "fail", left |-> <<>>]
         /\ UNCHANGED <<preConfigureCredits, dataNet>>
  BY DEF AddCredit
<1>5. Adding /\ Credits = Line(availableCredits, preConfigureCredits, <<c>> \o l, d, n, owed)
  BY <1>1, <1>3 DEF Adding, Credits
<1> HIDE DEF c, l, d, n
<1>6. ASSUME ackHandler' = [at |-> "add", left |-> l]
      PROVE  /\ Adding'
             /\ Credits' = Line(availableCredits', preConfigureCredits', l, d, n, owed)
  <2>1. Adding' /\ ackHandler'.left = l
    BY <1>6 DEF Adding
  <2>2. Credits' = Line(availableCredits', preConfigureCredits', l, d', n', owed)
    BY <1>1, <2>1 DEF Credits, d, n
  <2> QED
    BY <1>1, <2>1, <2>2
<1>7. /\ all \in Seq(Nat) /\ all # <<>> /\ all = availableCredits \o <<c>>
      /\ Append(preConfigureCredits, c) = preConfigureCredits \o <<c>>
  BY <1>2, <1>3, Push
<1>8. configured["sender"] => /\ preConfigureCredits = <<>>
                              /\ Credits = Line(all, <<>>, l, d, n, owed)
  <2>1. configured["sender"] => preConfigureCredits = <<>>
    BY DEF PlaceInv
  <2>2. Line(availableCredits \o <<c>>, <<>>, l, d, n, owed)
        = Line(availableCredits, <<>>, <<c>> \o l, d, n, owed)
    BY <1>2, <1>3, LineGive
  <2>3. Line(all, <<>>, l, d, n, owed) = Line(availableCredits, <<>>, <<c>> \o l, d, n, owed)
    BY <1>7, <2>2
  <2> QED
    BY <1>5, <2>1, <2>3
<1> HIDE DEF all
<1>9. CASE /\ ~configured["sender"]
           /\ preConfigureCredits' = Append(preConfigureCredits, c)
           /\ ackHandler' = [at |-> "add", left |-> l]
           /\ UNCHANGED <<availableCredits, dataNet>>
  <2>1. Line(availableCredits, preConfigureCredits \o <<c>>, l, d, n, owed)
        = Line(availableCredits, preConfigureCredits, <<c>> \o l, d, n, owed)
    BY <1>2, <1>3, LineAdd
  <2>2. Credits' = Credits
    BY <1>5, <1>6, <1>7, <1>9, <2>1
  <2> QED
    BY <1>1, <1>5, <1>9, <2>2, CreditsKept
<1>10. CASE /\ configured["sender"]
            /\ availableCredits' = all
            /\ ackHandler' = [at |-> "add", left |-> l]
            /\ UNCHANGED <<preConfigureCredits, dataNet>>
  <2>1. Credits' = Credits
    BY <1>6, <1>8, <1>10
  <2> QED
    BY <1>1, <1>5, <1>10, <2>1, CreditsKept
<1>11. CASE /\ configured["sender"] /\ waiting # <<>>
            /\ Fits(Head(waiting), Head(all))
            /\ dataNet' = Append(dataNet, Head(waiting))
            /\ availableCredits' = Tail(all)
            /\ ackHandler' = [at |-> "add", left |-> l]
            /\ UNCHANGED preConfigureCredits
  <2> DEFINE x == Head(all)
             a == Tail(all)
             b == Head(waiting)
             h == <<x>>
  <2>1. x \in Nat /\ a \in Seq(Nat) /\ all = h \o a
    BY <1>7, HeadFirst
  <2>2. b \in Nat
    BY <1>2, <1>11, Peel
  <2>3. b <= x /\ dataNet' = Append(dataNet, b) /\ availableCredits' = a
    BY <1>11 DEF Fits
  <2> HIDE DEF x, a, b
  <2>4. h \in Seq(Nat)
    BY <2>1
  <2> HIDE DEF h
  <2>5. OldestFirst(h, a, <<>>, l, d, n, owed)
    BY <1>2, <1>3, <2>1, <2>4, NoCredits, OldestCredit
  <2>6. Line(all, <<>>, l, d, n, owed) = h \o Line(a, <<>>, l, d, n, owed)
    BY <2>1, <2>5 DEF OldestFirst
  <2>7. Credits' = Line(a, <<>>, l, d, n, owed)
    BY <1>6, <1>8, <1>11, <2>3
  <2>8. Credits = h \o Credits'
    BY <1>8, <1>11, <2>6, <2>7
  <2>9. Credits = <<x>> \o Credits'
    BY <2>8 DEF h
  <2> QED
    BY <1>1, <1>2, <1>5, <2>1, <2>2, <2>3, <2>9, CreditsUsed
<1>12. CASE /\ configured["sender"]
            /\ availableCredits' = all
            /\ ackHandler' = [at |-> "fail", left |-> <<>>]
            /\ UNCHANGED <<preConfigureCredits, dataNet>>
  <2>1. ~Adding'
    BY <1>12 DEF Adding
  <2>2. Credits' = all \o <<>>
    BY <1>8, <1>12, <2>1 DEF Credits
  <2>3. PICK lost \in Seq(Nat) : Line(all, <<>>, l, d, n, owed) = (all \o <<>>) \o lost
    <3>1. LineLoses(all, <<>>, l, d, n, owed)
      BY <1>2, <1>3, <1>7, NoCredits, LineLost
    <3> QED
      BY <3>1 DEF LineLoses
  <2>4. Credits = Credits' \o lost
    BY <1>8, <1>12, <2>2, <2>3
  <2> QED
    BY <1>1, <1>2, <1>12, <2>1, <2>4, CreditsLost
<1> QED
  BY <1>4, <1>9, <1>10, <1>11, <1>12 DEF all

\* A buffer of x bytes is posted.
LEMMA CreditPost ==
    ASSUME TypeInv, CreditInv, NEW x \in Nat, posted' = Append(posted, x),
           owed' = Append(owed, x),
           UNCHANGED <<link, unannounced, availableCredits, preConfigureCredits, ackHandler,
                       creditsDone, creditNet, dataNet>>
    PROVE  CreditInv'
<1> DEFINE d == FlattenSeq(creditsDone)
           n == FlattenSeq(creditNet)
           h == <<x>>
<1>1. /\ availableCredits \in Seq(Nat) /\ preConfigureCredits \in Seq(Nat)
      /\ ackHandler.left \in Seq(Nat) /\ d \in Seq(Nat) /\ n \in Seq(Nat) /\ owed \in Seq(Nat)
      /\ dataNet \in Seq(Nat) /\ posted \in Seq(Nat) /\ Credits \in Seq(Nat)
  BY SequenceTypes, CreditsType
<1>2. h \in Seq(Nat) /\ owed' = owed \o h
  BY <1>1, Push
<1>3. Adding' = Adding
  BY DEF Adding
<1>4. ASSUME Adding
      PROVE  Credits' = Credits \o <<x>>
  <2>1. /\ Credits = Line(availableCredits, preConfigureCredits, ackHandler.left, d, n, owed)
        /\ Credits' = Line(availableCredits, preConfigureCredits, ackHandler.left, d, n, owed')
    BY <1>3, <1>4 DEF Credits
  <2> HIDE DEF d, n, h
  <2>2. LinePosts(availableCredits, preConfigureCredits, ackHandler.left, d, n, owed, h)
    BY <1>1, <1>2, LinePost
  <2>3. Credits' = Credits \o h
    BY <1>2, <2>1, <2>2 DEF LinePosts
  <2> QED
    BY <2>3 DEF h
<1>5. ~Adding => Credits' = Credits
  BY <1>3 DEF Credits
<1> QED
  BY <1>1, <1>3, <1>4, <1>5, CreditsPosted

\* A call gives up what it owes.
LEMMA CreditWithheld ==
    ASSUME TypeInv, TypeInv', CreditInv, owed' = <<>>, unannounced',
           UNCHANGED <<link, availableCredits, preConfigureCredits, ackHandler,
                       creditsDone, creditNet, dataNet, posted>>
    PROVE  CreditInv'
<1> DEFINE d == FlattenSeq(creditsDone)
           n == FlattenSeq(creditNet)
<1>1. /\ availableCredits \in Seq(Nat) /\ preConfigureCredits \in Seq(Nat)
      /\ ackHandler.left \in Seq(Nat) /\ d \in Seq(Nat) /\ n \in Seq(Nat) /\ owed \in Seq(Nat)
      /\ dataNet \in Seq(Nat) /\ posted \in Seq(Nat) /\ Credits' \in Seq(Nat)
  BY SequenceTypes, CreditsTypeNext
<1>2. Adding' = Adding
  BY DEF Adding
<1>3. CASE Adding
  <2>1. /\ Credits = Line(availableCredits, preConfigureCredits, ackHandler.left, d, n, owed)
        /\ Credits' = Line(availableCredits, preConfigureCredits, ackHandler.left, d, n, <<>>)
    BY <1>2, <1>3 DEF Credits
  <2> HIDE DEF d, n
  <2>2. LinePosts(availableCredits, preConfigureCredits, ackHandler.left, d, n, <<>>, owed)
    BY <1>1, NoCredits, LinePost
  <2>3. <<>> \o owed = owed
    BY <1>1, ConcatEmptySeq
  <2>4. Credits = Credits' \o owed
    BY <2>1, <2>2, <2>3 DEF LinePosts
  <2> QED
    BY <1>1, <2>4, CreditsLost
<1>4. CASE ~Adding
  <2>1. Credits' = Credits
    BY <1>2, <1>4 DEF Credits
  <2> QED
    BY <1>2, <2>1, CreditsKept
<1> QED
  BY <1>3, <1>4

\* SendCreditUpdate posts a message: CreditInv.
LEMMA CreditAnnounce ==
    ASSUME TypeInv, CreditInv, owed # <<>>, Announce,
           UNCHANGED <<link, unannounced, availableCredits, preConfigureCredits, ackHandler,
                       creditsDone, dataNet, posted>>
    PROVE  CreditInv'
<1> DEFINE d == FlattenSeq(creditsDone)
           n == FlattenSeq(creditNet)
<1>1. /\ availableCredits \in Seq(Nat) /\ preConfigureCredits \in Seq(Nat)
      /\ ackHandler.left \in Seq(Nat) /\ d \in Seq(Nat) /\ n \in Seq(Nat) /\ owed \in Seq(Nat)
      /\ creditNet \in Seq(Seq(Nat))
  BY SequenceTypes
<1>2. PICK h \in Seq(Nat) : owed' \in Seq(Nat) /\ owed = h \o owed'
                            /\ creditNet' = Append(creditNet, h)
  BY <1>1, AnnounceSplits
<1>3. FlattenSeq(creditNet') = n \o h
  BY <1>1, <1>2, FlattenAppend
<1>4. Adding' = Adding
  BY DEF Adding
<1>5. CASE Adding
  <2>1. /\ Credits = Line(availableCredits, preConfigureCredits, ackHandler.left, d, n, owed)
        /\ Credits' = Line(availableCredits, preConfigureCredits, ackHandler.left, d,
                           FlattenSeq(creditNet'), owed')
    BY <1>4, <1>5 DEF Credits
  <2> HIDE DEF d, n
  <2>2. LineSends(availableCredits, preConfigureCredits, ackHandler.left, d, n, h, owed')
    BY <1>1, <1>2, LineSend
  <2>3. Credits' = Credits
    BY <1>2, <1>3, <2>1, <2>2 DEF LineSends
  <2> QED
    BY <1>4, <2>3, CreditsKept
<1>6. CASE ~Adding
  <2>1. Credits' = Credits
    BY <1>4, <1>6 DEF Credits
  <2> QED
    BY <1>4, <2>1, CreditsKept
<1> QED
  BY <1>5, <1>6

\* A credit message arrives: CreditInv.
LEMMA CreditArrive ==
    ASSUME TypeInv, UpInv, CreditInv, DeliverCredit
    PROVE  CreditInv'
<1> DEFINE d == FlattenSeq(creditsDone)
           n == FlattenSeq(creditNet)
           h == Head(creditNet)
           r == FlattenSeq(Tail(creditNet))
<1>0. /\ link /\ creditNet # <<>> /\ creditNet' = Tail(creditNet)
      /\ creditsDone' = Append(creditsDone, h)
      /\ UNCHANGED <<link, unannounced, availableCredits, preConfigureCredits, ackHandler,
                     owed, dataNet, posted>>
  BY DEF DeliverCredit, UpInv, Ends, history
<1>1. /\ availableCredits \in Seq(Nat) /\ preConfigureCredits \in Seq(Nat)
      /\ ackHandler.left \in Seq(Nat) /\ d \in Seq(Nat) /\ owed \in Seq(Nat)
      /\ creditNet \in Seq(Seq(Nat)) /\ creditsDone \in Seq(Seq(Nat))
  BY SequenceTypes
<1>2. h \in Seq(Nat) /\ Tail(creditNet) \in Seq(Seq(Nat))
  BY <1>0, <1>1, Peel
<1>3. r \in Seq(Nat) /\ n = h \o r
  BY <1>0, <1>1, <1>2, FlattenType, FlattenTail
<1>4. FlattenSeq(creditsDone') = d \o h
  <2> HIDE DEF h
  <2> QED
    BY <1>0, <1>1, <1>2, FlattenAppend
<1>5. Adding' = Adding
  BY <1>0 DEF Adding
<1>6. CASE Adding
  <2>1. /\ Credits = Line(availableCredits, preConfigureCredits, ackHandler.left, d, n, owed)
        /\ Credits' = Line(availableCredits, preConfigureCredits, ackHandler.left,
                           FlattenSeq(creditsDone'), r, owed)
    BY <1>0, <1>5, <1>6 DEF Credits
  <2> HIDE DEF d, n, h, r
  <2>2. LineArrives(availableCredits, preConfigureCredits, ackHandler.left, d, h, r, owed)
    BY <1>1, <1>2, <1>3, LineArrive
  <2>3. Credits' = Credits
    BY <1>3, <1>4, <2>1, <2>2 DEF LineArrives
  <2> QED
    BY <1>0, <1>5, <2>3, CreditsKept
<1>7. CASE ~Adding
  <2>1. Credits' = Credits
    BY <1>0, <1>5, <1>7 DEF Credits
  <2> QED
    BY <1>0, <1>5, <2>1, CreditsKept
<1> QED
  BY <1>6, <1>7

\* A message arrives in the oldest posted buffer: CreditInv.
LEMMA CreditDeliver ==
    ASSUME TypeInv, CreditInv, DeliverData
    PROVE  CreditInv'
<1>0. /\ link /\ dataNet # <<>> /\ posted # <<>>
      /\ dataNet' = Tail(dataNet) /\ posted' = Tail(posted)
      /\ UNCHANGED <<unannounced, availableCredits, preConfigureCredits, ackHandler,
                     creditsDone, creditNet, owed>>
  BY DEF DeliverData, senderVars, history
<1>1. dataNet \in Seq(Nat) /\ posted \in Seq(Nat) /\ Credits \in Seq(Nat)
  BY SequenceTypes, CreditsType
<1>2. PICK x \in Nat, y \in Nat :
          /\ dataNet' \in Seq(Nat) /\ posted' \in Seq(Nat)
          /\ dataNet = <<x>> \o dataNet' /\ posted = <<y>> \o posted'
  <2>1. /\ Head(dataNet) \in Nat /\ Tail(dataNet) \in Seq(Nat)
        /\ dataNet = <<Head(dataNet)>> \o Tail(dataNet)
    BY <1>0, <1>1, HeadFirst
  <2>2. /\ Head(posted) \in Nat /\ Tail(posted) \in Seq(Nat)
        /\ posted = <<Head(posted)>> \o Tail(posted)
    BY <1>0, <1>1, HeadFirst
  <2> QED
    BY <1>0, <2>1, <2>2, Zenon
<1>3. Credits' = Credits /\ Adding' = Adding
  BY <1>0 DEF Credits, Adding
<1> QED
  BY <1>0, <1>1, <1>2, <1>3, CreditsDelivered

\* CreditInv is preserved by every step.
LEMMA CreditNext ==
    ASSUME IInv, TypeInv', Next
    PROVE  CreditInv'
<1>0. TypeInv /\ UpInv /\ PlaceInv /\ CreditInv /\ MessageInv
  BY DEF IInv
<1>00. link => /\ transferStatus["receiver"] = "ok" /\ creditStatus["receiver"] = "ok"
               /\ connected["receiver"]
  BY <1>0 DEF UpInv, Ends
<1>1. CASE \/ ConfigureSender \/ AckTake \/ AckWakesForNothing \/ AddCredit \/ AckFails
           \/ AckRequeue
  BY <1>0, <1>1, CreditConfigure, CreditTake, CreditWakes, CreditAdd, CreditFails, CreditRequeue
<1>2. ASSUME NEW bytes \in Sizes, SubmitSend(bytes)
      PROVE  CreditInv'
  BY <1>0, <1>2, CreditSubmit
<1>3. CASE DeliverData \/ DeliverCredit
  BY <1>0, <1>3, CreditDeliver, CreditArrive
<1>4. CASE Break
  <2>1. ~link'
    BY <1>4 DEF Break
  <2> QED
    BY <2>1 DEF CreditInv
<1>5. ASSUME ~link
      PROVE  CreditInv'
  BY <1>5, LinkNext DEF CreditInv
<1>6. CASE ConfigureReceiver \/ SpuriousWakeUp \/ CreditSent
  <2>1. UNCHANGED <<link, unannounced, availableCredits, preConfigureCredits, ackHandler,
                    creditsDone, creditNet, owed, dataNet, posted>>
    BY <1>6 DEF ConfigureReceiver, SpuriousWakeUp, CreditSent, senderVars, history
  <2> QED
    BY <1>0, <2>1, NothingMoves
<1>7. CASE PostConfigure
  <2>1. UNCHANGED <<link, unannounced, availableCredits, preConfigureCredits, ackHandler,
                    creditsDone, creditNet, dataNet>>
    BY <1>7 DEF PostConfigure, senderVars
  <2>2. \/ ~link
        \/ UNCHANGED <<owed, posted>>
        \/ posted' = Append(posted, bufferLen) /\ owed' = Append(owed, bufferLen)
    BY <1>00, <1>7 DEF PostConfigure, Post
  <2>3. bufferLen \in Nat
    BY <1>0 DEF TypeInv
  <2> QED
    BY <1>0, <1>5, <2>1, <2>2, <2>3, NothingMoves, CreditPost
<1>8. CASE ReleaseReceivedBufferRegion
  <2>1. UNCHANGED <<link, unannounced, availableCredits, preConfigureCredits, ackHandler,
                    creditsDone, creditNet, dataNet>>
    BY <1>8 DEF ReleaseReceivedBufferRegion, senderVars
  <2>2. \/ ~link
        \/ posted' = Append(posted, bufferLen) /\ owed' = Append(owed, bufferLen)
    BY <1>00, <1>8 DEF ReleaseReceivedBufferRegion, Post
  <2>3. bufferLen \in Nat
    BY <1>0 DEF TypeInv
  <2> QED
    BY <1>0, <1>5, <2>1, <2>2, <2>3, CreditPost
<1>9. ASSUME NEW len \in Sizes, QueueExternalBufferRegion(len)
      PROVE  CreditInv'
  <2>1. UNCHANGED <<link, unannounced, availableCredits, preConfigureCredits, ackHandler,
                    creditsDone, creditNet, dataNet>>
    BY <1>9 DEF QueueExternalBufferRegion, senderVars
  <2>2. posted' = Append(posted, len) /\ owed' = Append(owed, len) /\ len \in Nat
    BY <1>9, FlowControlAssumption DEF QueueExternalBufferRegion, Post
  <2> QED
    BY <1>0, <2>1, <2>2, CreditPost
<1>10. CASE WaitForCreditBuffer
  <2>1. UNCHANGED <<link, availableCredits, preConfigureCredits, ackHandler,
                    creditsDone, creditNet, dataNet, posted>>
    BY <1>10 DEF WaitForCreditBuffer, senderVars
  <2>2. \/ ~link
        \/ UNCHANGED <<owed, unannounced>>
        \/ owed' = <<>> /\ unannounced'
    BY <1>00, <1>10 DEF WaitForCreditBuffer, TakeCreditBuffer, CallEnds
  <2> QED
    BY <1>0, <1>5, <2>1, <2>2, NothingMoves, CreditWithheld
<1>11. CASE SendCreditUpdate
  <2>1. UNCHANGED <<link, availableCredits, preConfigureCredits, ackHandler,
                    creditsDone, dataNet, posted>>
    BY <1>11 DEF SendCreditUpdate, senderVars
  <2>2. owed # <<>>
    BY <1>0, <1>11 DEF MessageInv, SendCreditUpdate, Announcing
  <2>3. ~link \/ (Announce /\ UNCHANGED unannounced)
    BY <1>00, <1>11 DEF SendCreditUpdate
  <2> QED
    BY <1>0, <1>5, <2>1, <2>2, <2>3, CreditAnnounce
<1>12. ASSUME NEW e \in Ends, Disconnection(e)
       PROVE  CreditInv'
  <2>1. UNCHANGED <<link, unannounced, availableCredits, preConfigureCredits, ackHandler,
                    creditsDone, creditNet, owed, dataNet, posted>>
    BY <1>12 DEF Disconnection, history
  <2> QED
    BY <1>0, <2>1, NothingMoves
<1> QED
  BY <1>1, <1>2, <1>3, <1>4, <1>6, <1>7, <1>8, <1>9, <1>10, <1>11, <1>12 DEF Next, Progress

-----------------------------------------------------------------------------
(* The theorems                                                            *)

\* The inductive invariant holds at the start and is preserved.
LEMMA InitInv == Init => IInv
<1> SUFFICES ASSUME Init PROVE IInv
  OBVIOUS
<1>1. TypeInv
  BY InitType
<1>2. Adding /\ UpInv /\ PlaceInv
  <2>1. Adding /\ ackHandler.at = "wait"
    BY DEF Init, Adding
  <2>2. UpInv
    BY <2>1 DEF Init, UpInv, Ends
  <2>3. PlaceInv
    BY DEF Init, PlaceInv, Ends
  <2> QED
    BY <2>1, <2>2, <2>3
<1>3. CreditInv
  <2>1. Credits = Line(<<>>, <<>>, <<>>, <<>>, <<>>, <<>>)
    BY <1>2, FlattenEmpty DEF Init, Credits
  <2>2. Credits = <<>>
    BY <2>1 DEF Line
  <2>3. dataNet = <<>> /\ posted = <<>> /\ Len(<<>>) = 0
    BY DEF Init
  <2> QED
    BY <2>2, <2>3 DEF CreditInv, Covers
<1>4. MessageInv
  BY DEF Init, MessageInv, NoEmpty, Announcing
<1>5. BufferInv
  <2>1. /\ idle = maxConcurrentTransactions /\ held = 0 /\ Len(posted) = 0
        /\ creditsPosted = CreditBuffers /\ Len(creditsDone) = 0 /\ ackHandler.at = "wait"
    BY DEF Init
  <2>2. maxConcurrentTransactions \in Nat /\ CreditBuffers \in Nat
    BY <1>1, FlowControlAssumption DEF TypeInv
  <2> QED
    BY <2>1, <2>2 DEF BufferInv, TransferBuffers, SenderBuffers
<1> QED
  BY <1>1, <1>2, <1>3, <1>4, <1>5 DEF IInv

\* One conjunct after the other
LEMMA StepInv == IInv /\ [Next]_vars => IInv'
<1> SUFFICES ASSUME IInv, [Next]_vars PROVE IInv'
  OBVIOUS
<1>0. TypeInv /\ UpInv /\ PlaceInv /\ CreditInv /\ MessageInv /\ BufferInv
  BY DEF IInv
<1>1. CASE Next
  <2>1. TypeInv'
    <3>1. Announcing => owed # <<>>
      BY <1>0 DEF MessageInv
    <3> QED
      BY <1>0, <1>1, <3>1, SenderTypes, ReceiverTypes, ConnectionTypes DEF Next, Progress
  <2>2. UpInv' /\ PlaceInv' /\ MessageInv' /\ BufferInv'
    BY <1>0, <1>1, UpNext, PlaceNext, MessageNext, BufferNext
  <2>3. CreditInv'
    BY <1>1, <2>1, CreditNext
  <2> QED
    BY <2>1, <2>2, <2>3 DEF IInv
<1>2. CASE UNCHANGED vars
  <2>1. UNCHANGED <<link, connected, transferStatus, creditStatus, disconnecting, configured,
                    external, bufferLen, maxConcurrentTransactions, preConfigureCredits,
                    availableCredits, waiting, creditsPosted, creditsDone, ackHandler, idle,
                    held, posted, creditsIdle, creditsSent, caller, owed, dataNet, creditNet,
                    submitted, posts, unannounced>>
    BY <1>2 DEF vars, status, kind, senderVars, receiverVars, history
  <2>2. TypeInv'
    BY <1>0, <2>1 DEF TypeInv
  <2>3. UpInv' /\ PlaceInv'
    BY <1>0, <2>1, UpKept, PlaceKept DEF status
  <2>4. MessageInv'
    BY <1>0, <2>1, MessagesKept DEF MessageInv, Announcing
  <2>5. BufferInv'
    BY <1>0, <2>1 DEF BufferInv, TransferBuffers, SenderBuffers, Adding
  <2>6. CreditInv'
    BY <1>0, <2>1, NothingMoves
  <2> QED
    BY <2>2, <2>3, <2>4, <2>5, <2>6 DEF IInv
<1> QED
  BY <1>1, <1>2

\* The credit protocol keeps its invariant, for all sizes and numbers of buffers.
THEOREM Invariance == Spec => []IInv
  BY InitInv, StepInv, PTL DEF Spec

\* What the runs check follows from the inductive invariant.
LEMMA InvDataFindsBuffer == IInv => DataFindsBuffer
<1> SUFFICES ASSUME IInv, link
             PROVE  /\ Len(dataNet) <= Len(posted)
                    /\ ~unannounced => \A i \in DOMAIN dataNet : dataNet[i] <= posted[i]
  BY DEF DataFindsBuffer
<1>1. TypeInv /\ CreditInv
  BY DEF IInv
<1>2. /\ dataNet \in Seq(Nat) /\ posted \in Seq(Nat) /\ Credits \in Seq(Nat)
  BY <1>1, SequenceTypes, CreditsType
<1>3. Len(dataNet) \in Nat /\ Len(posted) \in Nat /\ Len(Credits) \in Nat
      /\ DOMAIN dataNet = 1 .. Len(dataNet)
  BY <1>2, LenProperties
<1>4. Len(dataNet) + Len(Credits) <= Len(posted)
  BY <1>1 DEF CreditInv
<1>5. ~unannounced => \A i \in 1 .. Len(dataNet) : dataNet[i] <= posted[i]
  BY <1>1 DEF CreditInv, Covers
<1>6. Len(dataNet) <= Len(posted)
  BY <1>3, <1>4
<1> QED
  BY <1>3, <1>5, <1>6

\* A part of a sequence of lengths
IsPiece(p, m, n) ==
    /\ SubSeq(p, m, n) \in Seq(Nat)
    /\ Len(SubSeq(p, m, n)) = IF m <= n THEN n - m + 1 ELSE 0
    /\ \A i \in 1 .. n - m + 1 : SubSeq(p, m, n)[i] = p[m + i - 1]

LEMMA Piece ==
    ASSUME NEW p \in Seq(Nat), NEW m \in Int, NEW n \in Int, \A i \in m .. n : p[i] \in Nat
    PROVE  IsPiece(p, m, n)
  BY SubSeqProperties DEF IsPiece

\* What is left without the first k elements
IsRest(q, p, k, l) ==
    /\ q \in Seq(Nat) /\ Len(q) = l - k
    /\ \A i \in 1 .. l - k : q[i] = p[k + i]

LEMMA Rest ==
    ASSUME NEW p \in Seq(Nat), NEW k \in Nat, NEW l \in Nat, k <= l,
           \A i \in k + 1 .. l : p[i] \in Nat
    PROVE  IsRest(SubSeq(p, k + 1, l), p, k, l)
<1> DEFINE m == k + 1
           q == SubSeq(p, m, l)
<1>1. m \in Int /\ l \in Int
  OBVIOUS
<1>2. IsPiece(p, m, l)
  BY <1>1, Piece
<1>3. /\ q \in Seq(Nat) /\ Len(q) = (IF m <= l THEN l - m + 1 ELSE 0)
      /\ \A i \in 1 .. l - m + 1 : q[i] = p[m + i - 1]
  BY <1>2 DEF IsPiece
<1> HIDE DEF q
<1>4. Len(q) = l - k
  BY <1>3
<1>5. ASSUME NEW i \in 1 .. l - k
      PROVE  q[i] = p[k + i]
  <2>1. i \in 1 .. l - m + 1 /\ m + i - 1 = k + i
    OBVIOUS
  <2> QED
    BY <1>3, <2>1
<1>6. IsRest(q, p, k, l)
  BY <1>3, <1>4, <1>5 DEF IsRest
<1> QED
  BY <1>6 DEF q

\* The posted buffers behind those of the messages are those of the credits.
LEMMA Behind ==
    ASSUME NEW c \in Seq(Nat), NEW d \in Seq(Nat), NEW p \in Seq(Nat), Covers(c, d, p),
           Len(d) + Len(c) = Len(p)
    PROVE  SubSeq(p, 1, Len(d)) \in Seq(Nat) /\ p = SubSeq(p, 1, Len(d)) \o c
<1> DEFINE k == Len(d)
           q == SubSeq(p, k + 1, Len(p))
<1>1. k \in Nat /\ Len(c) \in Nat /\ Len(p) \in Nat /\ k + Len(c) = Len(p)
  BY LenProperties
<1>2. \A i \in 1 .. Len(p) : p[i] \in Nat
  OBVIOUS
<1>3. \A j \in 1 .. Len(c) : c[j] = p[k + j]
  BY DEF Covers
<1> HIDE DEF k
<1>4. SubSeq(p, 1, k) \in Seq(Nat)
  <2>1. 1 \in Int /\ k \in Int /\ \A i \in 1 .. k : p[i] \in Nat
    BY <1>1, <1>2
  <2> QED
    BY <2>1, Piece DEF IsPiece
<1>5. /\ q \in Seq(Nat) /\ Len(q) = Len(c)
      /\ \A i \in 1 .. Len(c) : q[i] = p[k + i]
  <2>1. k \in Nat /\ Len(p) \in Nat /\ k <= Len(p) /\ Len(p) - k = Len(c)
    <3>1. \A x, y, z \in Nat : x + y = z => x <= z /\ z - x = y
      OBVIOUS
    <3> QED
      BY <1>1, <3>1, Zenon
  <2>2. \A i \in k + 1 .. Len(p) : p[i] \in Nat
    BY <1>2, <2>1
  <2>3. IsRest(q, p, k, Len(p))
    BY <2>1, <2>2, Rest
  <2> HIDE DEF q
  <2> QED
    BY <2>1, <2>3 DEF IsRest
<1>6. SubSeq(p, 1, k) \o q = p
  <2>1. /\ 1 \in 1 .. Len(p) + 1 /\ k \in 1 - 1 .. Len(p) /\ Len(p) \in k .. Len(p)
    BY <1>1
  <2>2. SubSeq(p, 1, k) \o SubSeq(p, k + 1, Len(p)) = SubSeq(p, 1, Len(p))
    BY <2>1, ConcatAdjacentSubSeq
  <2>3. SubSeq(p, 1, Len(p)) = p
    BY SubSeqFull
  <2> QED
    BY <2>2, <2>3
<1> HIDE DEF q
<1>7. q = c
  <2>1. \A i \in 1 .. Len(q) : q[i] = c[i]
    BY <1>3, <1>5
  <2> QED
    BY <1>5, <2>1, SeqEqual
<1> QED
  BY <1>4, <1>6, <1>7 DEF k

\* The credits are the lengths of the buffers behind those of the messages.
LEMMA InvCreditsMatchBuffers == IInv => CreditsMatchBuffers
<1> SUFFICES ASSUME IInv, Healthy PROVE CreditsMatchBuffers
  BY DEF CreditsMatchBuffers
<1> DEFINE x == SubSeq(posted, 1, Len(dataNet))
           d == FlattenSeq(creditsDone)
           n == FlattenSeq(creditNet)
<1>1. TypeInv /\ CreditInv /\ UpInv
  BY DEF IInv
<1>2. link /\ ~unannounced /\ Adding
  <2>1. /\ link /\ ~unannounced /\ ackHandler.at # "fail" /\ transferStatus["sender"] = "ok"
    BY DEF Healthy, Ends
  <2>2. ackHandler.at \in {"wait", "add", "timedOut", "fail", "gone"} /\ ackHandler.at # "gone"
    BY <1>1, <2>1 DEF TypeInv, UpInv
  <2> QED
    BY <2>1, <2>2 DEF Adding
<1>3. /\ dataNet \in Seq(Nat) /\ posted \in Seq(Nat) /\ Credits \in Seq(Nat)
      /\ availableCredits \in Seq(Nat) /\ preConfigureCredits \in Seq(Nat)
      /\ ackHandler.left \in Seq(Nat) /\ owed \in Seq(Nat)
      /\ d \in Seq(Nat) /\ n \in Seq(Nat)
  BY <1>1, SequenceTypes, CreditsType
<1>4. Covers(Credits, dataNet, posted) /\ Len(dataNet) + Len(Credits) = Len(posted)
  BY <1>1, <1>2 DEF CreditInv
<1>5. x \in Seq(Nat) /\ posted = x \o Credits
  BY <1>3, <1>4, Behind
<1>6. Credits = Line(availableCredits, preConfigureCredits, ackHandler.left, d, n, owed)
  BY <1>2 DEF Credits
<1>7. posted = x \o availableCredits \o preConfigureCredits \o ackHandler.left \o d \o n \o owed
  <2> HIDE DEF x, d, n
  <2>1. LineUses(x, availableCredits, preConfigureCredits, ackHandler.left, d, n, owed)
    BY <1>3, <1>5, LineUse
  <2>2. posted = Line(x \o availableCredits, preConfigureCredits, ackHandler.left, d, n, owed)
    BY <1>5, <1>6, <2>1 DEF LineUses
  <2> QED
    BY <2>2 DEF Line
<1> QED
  BY <1>7 DEF CreditsMatchBuffers

\* Credit messages are no more than the credits in them, which are no more than
\* the posted buffers.
LEMMA InvCreditFindsBuffer == IInv => CreditFindsBuffer
<1> SUFFICES ASSUME IInv, maxConcurrentTransactions < CreditBuffers, link,
                    ackHandler.at \notin {"fail", "gone"}
             PROVE  Len(creditNet) <= creditsPosted
  BY DEF CreditFindsBuffer
<1> DEFINE d == FlattenSeq(creditsDone)
           n == FlattenSeq(creditNet)
<1>1. TypeInv /\ CreditInv /\ BufferInv /\ MessageInv
  BY DEF IInv
<1>2. Adding
  BY <1>1 DEF TypeInv, Adding
<1>3. /\ dataNet \in Seq(Nat) /\ posted \in Seq(Nat)
      /\ availableCredits \in Seq(Nat) /\ preConfigureCredits \in Seq(Nat)
      /\ ackHandler.left \in Seq(Nat) /\ owed \in Seq(Nat)
      /\ creditsDone \in Seq(Seq(Nat)) /\ creditNet \in Seq(Seq(Nat))
      /\ d \in Seq(Nat) /\ n \in Seq(Nat)
  BY <1>1, SequenceTypes
<1>4. Len(creditsDone) <= Len(d) /\ Len(creditNet) <= Len(n)
  BY <1>1, <1>3, FlattenLong DEF MessageInv, NoEmpty
<1>5. Len(Credits) = Len(availableCredits) + Len(preConfigureCredits) + Len(ackHandler.left)
                     + Len(d) + Len(n) + Len(owed)
  <2>1. Credits = Line(availableCredits, preConfigureCredits, ackHandler.left, d, n, owed)
    BY <1>2 DEF Credits
  <2> HIDE DEF d, n
  <2>2. LineTyped(availableCredits, preConfigureCredits, ackHandler.left, d, n, owed)
    BY <1>3, LineType
  <2> QED
    BY <2>1, <2>2 DEF LineTyped
<1>6. Len(dataNet) + Len(Credits) <= Len(posted)
  BY <1>1 DEF CreditInv
<1>7. /\ idle + held + Len(posted) = maxConcurrentTransactions
      /\ \/ creditsPosted + Len(creditsDone) + 1 = CreditBuffers
         \/ creditsPosted + Len(creditsDone) + 0 = CreditBuffers
  BY <1>1, <1>2 DEF BufferInv, TransferBuffers, SenderBuffers
<1> HIDE DEF d, n
<1>8. /\ Len(dataNet) \in Nat /\ Len(posted) \in Nat /\ Len(availableCredits) \in Nat
      /\ Len(preConfigureCredits) \in Nat /\ Len(ackHandler.left) \in Nat
      /\ Len(owed) \in Nat /\ Len(d) \in Nat /\ Len(n) \in Nat
      /\ Len(creditsDone) \in Nat /\ Len(creditNet) \in Nat
  BY <1>3, LenProperties
<1>9. /\ idle \in Nat /\ held \in Nat /\ maxConcurrentTransactions \in Nat
      /\ creditsPosted \in Nat /\ CreditBuffers \in Nat
  BY <1>1, FlowControlAssumption DEF TypeInv
<1>10. Len(d) + Len(n) <= Len(posted)
  <2>1. Len(dataNet) + (Len(availableCredits) + Len(preConfigureCredits)
                        + Len(ackHandler.left) + Len(d) + Len(n) + Len(owed)) <= Len(posted)
    BY <1>5, <1>6
  <2> QED
    BY <1>8, <2>1, MiddleFits
<1>11. Len(posted) < CreditBuffers
  BY <1>7, <1>8, <1>9
<1>12. Len(creditsDone) + Len(creditNet) + 1 <= CreditBuffers
  BY <1>4, <1>8, <1>9, <1>10, <1>11, OneLess
<1> QED
  BY <1>7, <1>8, <1>9, <1>12, WhatIsLeft

\* Every credit stands for one posted buffer, in the order of the posts: none is
\* lost, duplicated or overtaken between PostConfigure or ReleaseReceivedBufferRegion
\* at the receiver and QueueBuffer at the sender, however many credits a message
\* takes (SendCreditUpdate) and whichever end configures first
\* (ProcessPreConfigureCredits).
THEOREM Accounts == Spec => []CreditsMatchBuffers
  BY Invariance, InvCreditsMatchBuffers, PTL

\* A message that QueueBuffer or AddCredit has posted against a credit finds a
\* posted receive buffer, and one that it fits in, unless a call left its buffer
\* unannounced.
THEOREM Delivery == Spec => []DataFindsBuffer
  BY Invariance, InvDataFindsBuffer, PTL

\* A credit message finds a credit buffer posted at the sender, if the receiver has
\* fewer transfer buffers than there are credit buffers.
THEOREM CreditDelivery == Spec => []CreditFindsBuffer
  BY Invariance, InvCreditFindsBuffer, PTL

=============================================================================
