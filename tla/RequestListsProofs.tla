------------------------- MODULE RequestListsProofs -------------------------
(***************************************************************************)
(* Proofs about RequestLists, for every set of threads and every width of  *)
(* the mask: the request objects and their lists implement AccessManager,  *)
(* their counters are exact, and AcquireAll restores what ReleaseAll       *)
(* released.                                                               *)
(***************************************************************************)
EXTENDS RequestLists, FiniteSetTheorems, SequenceTheorems, WellFoundedInduction, TLAPS

Kinds == {"shared", "exclusive"}

-----------------------------------------------------------------------------
(* Induction over numbers, and the powers of two                           *)

\* The order of the numbers is well founded (the library has the general theorem).
LEMMA NatWF == IsWellFoundedOn({ss \in Nat \X Nat : ss[1] < ss[2]}, Nat)
  BY NatLessThanWellFounded, Zenon DEF OpToRel

\* A set of numbers that is not empty has a least one: what is used of it.
LEMMA LeastNumber ==
    ASSUME NEW T \in SUBSET Nat, T # {}
    PROVE  \E n \in T : \A k \in T : n <= k
<1>1. PICK n \in T : \A k \in T : ~ (<<k, n>> \in {ss \in Nat \X Nat : ss[1] < ss[2]})
  BY WFMin, NatWF
<1>2. ASSUME NEW k \in T
      PROVE  n <= k
  <2>1. k \in Nat /\ n \in Nat
    OBVIOUS
  <2>2. ~(k < n)
    BY <1>1, <2>1
  <2> QED
    BY <2>1, <2>2
<1> QED
  BY <1>2

\* Induction over the numbers, for a set in place of a predicate.
LEMMA Induction ==
    ASSUME NEW T \in SUBSET Nat, 0 \in T, \A n \in Nat : n \in T => n + 1 \in T
    PROVE  T = Nat
<1>1. SUFFICES ASSUME Nat \ T # {} PROVE FALSE
  OBVIOUS
<1>2. PICK n \in Nat \ T : \A k \in Nat \ T : n <= k
  BY <1>1, LeastNumber
<1>3. n # 0 /\ n - 1 \in Nat
  BY <1>2
<1>4. n - 1 \in T
  BY <1>2, <1>3
<1> QED
  BY <1>2, <1>3, <1>4

\* The recursion defines a function.
LEMMA TwoRecursion ==
    /\ Two[0] = 1
    /\ \A i \in 0 .. MaxNest - 1 : Two[i + 1] = 2 * Two[i]
<1> DEFINE Step(f, i) == IF i = 0 THEN 1 ELSE 2 * f[i - 1]
           Solves(f, n) == \A i \in 0 .. n : f[i] = Step(f, i)
           Solvable(n) == \E f \in [0 .. n -> Nat] : Solves(f, n)
           T == {n \in Nat : Solvable(n)}
           Image(f) == [i \in 0 .. MaxNest |-> Step(f, i)]
<1>1. MaxNest \in Nat /\ MaxNest # 0
  BY RequestListsAssumption
<1>2. Solvable(0)
  <2> DEFINE f == [i \in 0 .. 0 |-> 1]
  <2>1. f \in [0 .. 0 -> Nat] /\ Solves(f, 0)
    OBVIOUS
  <2> QED
    BY <2>1
<1>3. ASSUME NEW n \in Nat, Solvable(n)
      PROVE  Solvable(n + 1)
  <2>1. PICK f \in [0 .. n -> Nat] : Solves(f, n)
    BY <1>3
  <2> DEFINE g == [i \in 0 .. n + 1 |-> IF i <= n THEN f[i] ELSE 2 * f[n]]
  <2>2. f[n] \in Nat
    OBVIOUS
  <2>3. g \in [0 .. n + 1 -> Nat]
    BY <2>2
  <2>4. ASSUME NEW i \in 0 .. n + 1
        PROVE  g[i] = Step(g, i)
    <3>1. CASE i <= n
      <4>1. g[i] = f[i] /\ f[i] = Step(f, i)
        BY <2>1, <3>1
      <4>2. i # 0 => i - 1 \in 0 .. n + 1 /\ i - 1 <= n
        BY <3>1
      <4>3. i # 0 => g[i - 1] = f[i - 1]
        BY <4>2
      <4> HIDE DEF g
      <4> QED
        BY <4>1, <4>3
    <3>2. CASE ~(i <= n)
      <4>1. i = n + 1 /\ n \in 0 .. n + 1 /\ i # 0 /\ i - 1 = n
        BY <3>2
      <4>2. g[i] = 2 * f[n] /\ g[n] = f[n]
        BY <3>2, <4>1
      <4> HIDE DEF g
      <4> QED
        BY <4>1, <4>2
    <3> QED
      BY <3>1, <3>2
  <2> HIDE DEF g, Step
  <2> QED
    BY <2>3, <2>4
<1>4. PICK f \in [0 .. MaxNest -> Nat] : Solves(f, MaxNest)
  <2> HIDE DEF Solvable
  <2>1. T \in SUBSET Nat /\ 0 \in T /\ \A n \in Nat : n \in T => n + 1 \in T
    BY <1>2, <1>3
  <2> HIDE DEF T
  <2>2. MaxNest \in T
    BY <1>1, <2>1, Induction
  <2> QED
    BY <2>2 DEF T, Solvable
<1>5. f = Image(f)
  <2> HIDE DEF Step
  <2> QED
    BY <1>4
<1>6. Two = Image(Two)
  <2> DEFINE c == CHOOSE h : h = Image(h)
  <2>1. c = Image(c)
    <3> HIDE DEF Image
    <3> QED
      BY <1>5
  <2>2. Two = c
    BY DEF Two
  <2> HIDE DEF c, Image
  <2> QED
    BY <2>1, <2>2
<1>7. \A i \in 0 .. MaxNest : Two[i] = Step(Two, i)
  <2>1. \A i \in 0 .. MaxNest : Image(Two)[i] = Step(Two, i)
    OBVIOUS
  <2> HIDE DEF Image, Step
  <2> QED
    BY <1>6, <2>1
<1>8. 0 \in 0 .. MaxNest /\ \A i \in 0 .. MaxNest - 1 : i + 1 \in 0 .. MaxNest /\ i + 1 # 0
  BY <1>1
<1>9. \A i \in 0 .. MaxNest - 1 : (i + 1) - 1 = i
  OBVIOUS
<1> HIDE DEF Image
<1> QED
  BY <1>7, <1>8, <1>9

\* Powers of two are positive, and a higher one is twice a multiple of a lower one.
LEMMA TwoType == \A i \in 0 .. MaxNest : Two[i] \in Nat \ {0}
<1> DEFINE T == {i \in Nat : i <= MaxNest => Two[i] \in Nat \ {0}}
<1>1. 0 \in T
  BY TwoRecursion
<1>2. ASSUME NEW i \in Nat, i \in T
      PROVE  i + 1 \in T
  <2>1. CASE i + 1 <= MaxNest
    <3>1. i \in 0 .. MaxNest - 1 /\ Two[i] \in Nat \ {0}
      BY <1>2, <2>1, RequestListsAssumption
    <3>2. Two[i + 1] = 2 * Two[i]
      BY <3>1, TwoRecursion
    <3> QED
      BY <3>1, <3>2
  <2> QED
    BY <2>1
<1>3. T \in SUBSET Nat
  OBVIOUS
<1> HIDE DEF T
<1>4. T = Nat
  BY <1>1, <1>2, <1>3, Induction
<1> QED
  BY <1>4, RequestListsAssumption DEF T

LEMMA TwoMultiple ==
    ASSUME NEW k \in 0 .. MaxNest - 1
    PROVE  \E z \in Nat : Two[MaxNest] = 2 * (z * Two[k])
<1> DEFINE T == {j \in Nat : k + 1 + j <= MaxNest =>
                    \E z \in Nat : Two[k + 1 + j] = 2 * (z * Two[k])}
<1>0. MaxNest \in Nat /\ k \in Nat /\ k + 1 <= MaxNest /\ Two[k] \in Nat
  BY TwoType, RequestListsAssumption
<1>1. 0 \in T
  <2>1. Two[k + 1] = 2 * (1 * Two[k])
    BY <1>0, TwoRecursion
  <2>2. k + 1 + 0 = k + 1
    BY <1>0
  <2> QED
    BY <2>1, <2>2
<1>2. ASSUME NEW j \in Nat, j \in T
      PROVE  j + 1 \in T
  <2>1. CASE k + 1 + (j + 1) <= MaxNest
    <3>1. PICK z \in Nat : Two[k + 1 + j] = 2 * (z * Two[k])
      BY <1>0, <1>2, <2>1
    <3>2. k + 1 + j \in 0 .. MaxNest - 1 /\ (k + 1 + j) + 1 = k + 1 + (j + 1)
      BY <1>0, <2>1
    <3>3. Two[k + 1 + (j + 1)] = 2 * (2 * (z * Two[k]))
      BY <3>1, <3>2, TwoRecursion
    <3>4. 2 * (2 * (z * Two[k])) = 2 * ((2 * z) * Two[k]) /\ 2 * z \in Nat
      BY <1>0
    <3> QED
      BY <3>3, <3>4
  <2> QED
    BY <2>1
<1>3. T \in SUBSET Nat
  OBVIOUS
<1> HIDE DEF T
<1>4. T = Nat
  BY <1>1, <1>2, <1>3, Induction
<1> DEFINE j == MaxNest - (k + 1)
<1>5. j \in Nat /\ k + 1 + j = MaxNest
  BY <1>0
<1> QED
  BY <1>4, <1>5 DEF T


-----------------------------------------------------------------------------
(* The nesting mask                                                        *)

\* Dividing a sum of a multiple and a rest
LEMMA Division ==
    ASSUME NEW P \in Nat \ {0}, NEW a \in Nat, NEW r \in 0 .. P - 1,
           NEW x \in Nat, x = P * a + r
    PROVE  x \div P = a
<1>1. (P * a + r) \div P = a
  OBVIOUS
<1> QED
  BY <1>1

\* The quotient and the rest
LEMMA Quotient ==
    ASSUME NEW P \in Nat \ {0}, NEW x \in Nat
    PROVE  \E a \in Nat, r \in 0 .. P - 1 : a = x \div P /\ r = x % P /\ x = P * a + r
<1>1. PICK a \in Nat : a = x \div P
  OBVIOUS
<1>2. PICK r \in 0 .. P - 1 : r = x % P
  OBVIOUS
<1>3. x = P * a + r
  BY <1>1, <1>2
<1> QED
  BY <1>1, <1>2, <1>3

LEMMA Multiples ==
    ASSUME NEW P \in Nat, NEW a \in Nat, NEW b \in Nat, NEW z \in Nat
    PROVE  /\ (2 * (z * P)) * a + P * b = P * (2 * (z * a) + b)
           /\ 2 * (P * a) = (2 * P) * a
           /\ z * a \in Nat
  OBVIOUS

\* Shifting a bit in moves every other bit up.
LEMMA ShiftIn ==
    ASSUME NEW k \in 0 .. MaxNest - 1, NEW x \in Nat, NEW bit \in 0 .. 1,
           NEW y \in Nat, y = 2 * x + bit
    PROVE  y \div Two[k + 1] = x \div Two[k]
<1> DEFINE P == Two[k]
           D == 2 * P
<1>1. P \in Nat \ {0} /\ Two[k + 1] = D /\ D \in Nat \ {0} /\ D = 2 * P
  BY TwoType, TwoRecursion, RequestListsAssumption
<1> HIDE DEF P
<1>2. PICK a \in Nat, r \in 0 .. P - 1 : a = x \div P /\ x = P * a + r
  BY <1>1, Quotient
<1>3. P * a \in Nat /\ 2 * (P * a) = (2 * P) * a
  BY <1>1, <1>2, Multiples
<1> HIDE DEF D
<1>4. PICK e \in 0 .. D - 1 : y = D * a + e
  <2>1. x = P * a + r
    BY <1>2
  <2>2. 2 * r + bit \in 0 .. 2 * P - 1
    BY <1>1
  <2>3. y = 2 * (P * a) + (2 * r + bit)
    BY <1>3, <2>1
  <2>4. y = (2 * P) * a + (2 * r + bit)
    BY <1>3, <2>3
  <2> QED
    BY <1>1, <2>2, <2>4
<1>5. y \div D = a
  <2>1. D \in Nat \ {0}
    BY <1>1
  <2>2. (D * a + e) \div D = a
    BY <2>1
  <2> QED
    BY <1>4, <2>2
<1> QED
  BY <1>1, <1>2, <1>5 DEF P

\* Shifting a bit out moves every other bit down.
LEMMA ShiftOut ==
    ASSUME NEW k \in 0 .. MaxNest - 1, NEW x \in Nat
    PROVE  (x \div 2) \div Two[k] = x \div Two[k + 1]
<1>1. PICK y \in Nat, bit \in 0 .. 1 : y = x \div 2 /\ x = 2 * y + bit
  BY Quotient
<1>2. x \div Two[k + 1] = y \div Two[k]
  BY <1>1, ShiftIn
<1> QED
  BY <1>1, <1>2

\* What is cut off the mask is above all bits of the mask.
LEMMA Truncate ==
    ASSUME NEW k \in 0 .. MaxNest - 1, NEW x \in Nat
    PROVE  ((x % Two[MaxNest]) \div Two[k]) % 2 = (x \div Two[k]) % 2
<1> DEFINE P == Two[k]
           M == Two[MaxNest]
<1>0. PICK z \in Nat : M = 2 * (z * P)
  BY TwoMultiple
<1>1. P \in Nat \ {0} /\ M \in Nat \ {0}
  BY TwoType, RequestListsAssumption
<1> HIDE DEF P, M
<1>2. PICK a \in Nat, y \in 0 .. M - 1 : y = x % M /\ x = M * a + y
  <2>1. \E a \in Nat, y \in 0 .. M - 1 : a = x \div M /\ y = x % M /\ x = M * a + y
    BY <1>1, Quotient
  <2> QED
    BY <2>1
<1>3. PICK b \in Nat, r \in 0 .. P - 1 : b = y \div P /\ y = P * b + r
  <2>1. y \in Nat
    BY <1>1
  <2> QED
    BY <1>1, <2>1, Quotient
<1>4. z * a \in Nat /\ M * a + P * b = P * (2 * (z * a) + b)
  BY <1>0, <1>1, <1>2, <1>3, Multiples
<1>5. P * b \in Nat /\ M * a \in Nat
  BY <1>1, <1>2, <1>3, Multiples
<1>6. x = P * (2 * (z * a) + b) + r /\ 2 * (z * a) + b \in Nat
  BY <1>2, <1>3, <1>4, <1>5
<1>7. x \div P = 2 * (z * a) + b
  <2> DEFINE c == 2 * (z * a) + b
  <2>1. c \in Nat /\ x = P * c + r
    BY <1>6
  <2> HIDE DEF c
  <2>2. x \div P = c
    BY <1>1, <1>3, <2>1, Division
  <2> QED
    BY <2>2 DEF c
<1>8. (2 * (z * a) + b) % 2 = b % 2
  BY <1>3, <1>4
<1> QED
  BY <1>2, <1>3, <1>7, <1>8 DEF P, M

-----------------------------------------------------------------------------
(* Requests                                                                *)

\* A request object: fresh memory may hold any counts.
Requests == [tid : Threads \cup {None}, shared : Nat, exclusive : Nat, nesting : Nat,
             signal : BOOLEAN]

Positions(s, kind) == {i \in DOMAIN s : s[i] = kind}

\* A request of a thread: its counts are those of the accesses in its mask.
Fits(q) ==
    /\ q \in Requests /\ q.tid \in Threads
    /\ RequestCount(q) <= MaxNest
    /\ q.shared = Cardinality(Positions(StackOf(q), "shared"))
    /\ q.exclusive = Cardinality(Positions(StackOf(q), "exclusive"))

\* A stack is a sequence of kinds.
LEMMA StackType ==
    ASSUME NEW q \in Requests
    PROVE  /\ RequestCount(q) \in Nat
           /\ StackOf(q) \in Seq(Kinds)
           /\ Len(StackOf(q)) = RequestCount(q)
           /\ DOMAIN StackOf(q) = 1 .. RequestCount(q)
<1>1. RequestCount(q) \in Nat
  BY DEF RequestCount, Requests
<1>2. StackOf(q) \in [1 .. RequestCount(q) -> Kinds]
  BY DEF StackOf, Kinds
<1> QED
  BY <1>1, <1>2

\* What Add does to the fields
LEMMA AddFields ==
    ASSUME NEW q \in Requests, NEW kind \in Kinds
    PROVE  /\ Add(q, kind) \in Requests
           /\ Add(q, kind).tid = q.tid /\ Add(q, kind).signal = q.signal
           /\ Add(q, kind).shared = q.shared + (IF kind = "shared" THEN 1 ELSE 0)
           /\ Add(q, kind).exclusive = q.exclusive + (IF kind = "shared" THEN 0 ELSE 1)
           /\ Add(q, kind).nesting =
                 (2 * q.nesting + (IF kind = "shared" THEN 1 ELSE 0)) % Two[MaxNest]
           /\ RequestCount(Add(q, kind)) = RequestCount(q) + 1
<1> DEFINE n == (2 * q.nesting + (IF kind = "shared" THEN 1 ELSE 0)) % Two[MaxNest]
<1>1. Two[MaxNest] \in Nat \ {0}
  BY TwoType, RequestListsAssumption
<1>2. n \in Nat
  BY <1>1 DEF Requests
<1>3. Add(q, kind) =
        [tid |-> q.tid, shared |-> q.shared + (IF kind = "shared" THEN 1 ELSE 0),
         exclusive |-> q.exclusive + (IF kind = "shared" THEN 0 ELSE 1), nesting |-> n,
         signal |-> q.signal]
  <2>1. q.shared \in Nat /\ q.exclusive \in Nat
    BY DEF Requests
  <2>2. q = [tid |-> q.tid, shared |-> q.shared, exclusive |-> q.exclusive,
             nesting |-> q.nesting, signal |-> q.signal]
    BY DEF Requests
  <2> DEFINE bit == IF kind = "shared" THEN 1 ELSE 0
  <2>3. Add(q, kind) = [q EXCEPT !.shared = q.shared + bit, !.exclusive = q.exclusive + 1 - bit,
                                 !.nesting = (2 * q.nesting + bit) % Two[MaxNest]]
    BY DEF Add
  <2>4. n = (2 * q.nesting + bit) % Two[MaxNest]
    OBVIOUS
  <2>5. /\ q.shared + bit = q.shared + (IF kind = "shared" THEN 1 ELSE 0)
        /\ q.exclusive + 1 - bit = q.exclusive + (IF kind = "shared" THEN 0 ELSE 1)
    BY <2>1
  <2> HIDE DEF n, bit
  <2> QED
    BY <2>2, <2>3, <2>4, <2>5
<1> HIDE DEF n
<1>4. Add(q, kind) \in Requests
  BY <1>2, <1>3 DEF Requests
<1>5. RequestCount(Add(q, kind)) = RequestCount(q) + 1
  BY <1>3 DEF RequestCount, Requests
<1>6. Add(q, kind).nesting = n
  BY <1>3
<1> QED
  BY <1>3, <1>4, <1>5, <1>6 DEF n

\* What RemoveLast does to them
LEMMA RemoveLastFields ==
    ASSUME NEW q \in Requests, IF LastIsExclusive(q) THEN q.exclusive > 0 ELSE q.shared > 0
    PROVE  /\ RemoveLast(q) \in Requests
           /\ RemoveLast(q).tid = q.tid /\ RemoveLast(q).signal = q.signal
           /\ RemoveLast(q).shared = q.shared - (IF LastIsExclusive(q) THEN 0 ELSE 1)
           /\ RemoveLast(q).exclusive = q.exclusive - (IF LastIsExclusive(q) THEN 1 ELSE 0)
           /\ RemoveLast(q).nesting = q.nesting \div 2
           /\ RequestCount(RemoveLast(q)) = RequestCount(q) - 1
<1>1. q.nesting \div 2 \in Nat
  BY DEF Requests
<1>2. RemoveLast(q) =
        [tid |-> q.tid, shared |-> q.shared - (IF LastIsExclusive(q) THEN 0 ELSE 1),
         exclusive |-> q.exclusive - (IF LastIsExclusive(q) THEN 1 ELSE 0),
         nesting |-> q.nesting \div 2, signal |-> q.signal]
  <2>1. q.shared \in Nat /\ q.exclusive \in Nat
    BY DEF Requests
  <2>2. q = [tid |-> q.tid, shared |-> q.shared, exclusive |-> q.exclusive,
             nesting |-> q.nesting, signal |-> q.signal]
    BY DEF Requests
  <2> DEFINE s == q.shared - (IF LastIsExclusive(q) THEN 0 ELSE 1)
             e == q.exclusive - (IF LastIsExclusive(q) THEN 1 ELSE 0)
             d == q.nesting \div 2
  <2>3. /\ s = IF LastIsExclusive(q) THEN q.shared ELSE q.shared - 1
        /\ e = IF LastIsExclusive(q) THEN q.exclusive - 1 ELSE q.exclusive
    BY <2>1
  <2> HIDE DEF s, e
  <2>4. RemoveLast(q) = [q EXCEPT !.shared = s, !.exclusive = e, !.nesting = d]
    BY <2>3 DEF RemoveLast
  <2> HIDE DEF d
  <2>5. RemoveLast(q) = [tid |-> q.tid, shared |-> s, exclusive |-> e, nesting |-> d,
                         signal |-> q.signal]
    BY <2>2, <2>4
  <2> QED
    BY <2>5 DEF s, e, d
<1>3. RemoveLast(q) \in Requests
  BY <1>1, <1>2 DEF Requests
<1>4. RequestCount(RemoveLast(q)) = RequestCount(q) - 1
  BY <1>2 DEF RequestCount, Requests
<1> QED
  BY <1>2, <1>3, <1>4

\* Add pushes on the stack, unless it is full.
LEMMA AddPushes ==
    ASSUME NEW q \in Requests, NEW kind \in Kinds, RequestCount(q) < MaxNest
    PROVE  StackOf(Add(q, kind)) = Append(StackOf(q), kind)
<1> DEFINE c == RequestCount(q)
           a == Add(q, kind)
           bit == IF kind = "shared" THEN 1 ELSE 0
           push == Append(StackOf(q), kind)
<1>1. /\ c \in Nat /\ StackOf(q) \in Seq(Kinds) /\ Len(StackOf(q)) = c
      /\ DOMAIN StackOf(q) = 1 .. c
  BY StackType
<1>2. /\ a \in Requests /\ RequestCount(a) = c + 1
      /\ a.nesting = (2 * q.nesting + bit) % Two[MaxNest]
  BY AddFields
<1>3. q.nesting \in Nat /\ bit \in {0, 1} /\ 2 * q.nesting + bit \in Nat
  BY DEF Requests
<1>4. StackOf(a) = [i \in 1 .. c + 1 |->
          IF (a.nesting \div Two[(c + 1) - i]) % 2 = 1 THEN "shared" ELSE "exclusive"]
  <2> HIDE DEF a, c
  <2>1. RequestCount(a) = c + 1
    BY <1>2
  <2> DEFINE F(n) == [i \in 1 .. n |->
          IF (a.nesting \div Two[n - i]) % 2 = 1 THEN "shared" ELSE "exclusive"]
  <2>2. StackOf(a) = F(RequestCount(a))
    BY Zenon DEF StackOf
  <2> HIDE DEF F
  <2>3. StackOf(a) = F(c + 1)
    BY <2>1, <2>2
  <2> QED
    BY <2>3 DEF F
<1>5. StackOf(q) = [i \in 1 .. c |->
          IF (q.nesting \div Two[c - i]) % 2 = 1 THEN "shared" ELSE "exclusive"]
  BY DEF StackOf
<1> HIDE DEF a, c, bit
<1>6. ASSUME NEW i \in 1 .. c
      PROVE  StackOf(a)[i] = StackOf(q)[i]
  <2>1. c - i \in 0 .. MaxNest - 1 /\ (c + 1) - i \in 0 .. MaxNest - 1
        /\ (c + 1) - i = (c - i) + 1
    BY <1>1, RequestListsAssumption DEF c
  <2>2. (a.nesting \div Two[(c + 1) - i]) % 2 = ((2 * q.nesting + bit) \div Two[(c + 1) - i]) % 2
    BY <1>2, <1>3, <2>1, Truncate
  <2>3. (2 * q.nesting + bit) \div Two[(c + 1) - i] = q.nesting \div Two[c - i]
    BY <1>3, <2>1, ShiftIn
  <2>4. StackOf(a)[i] = IF (a.nesting \div Two[(c + 1) - i]) % 2 = 1 THEN "shared" ELSE "exclusive"
    <3>1. i \in 1 .. c + 1
      BY <1>1
    <3> QED
      BY <1>4, <3>1, Zenon
  <2>5. StackOf(q)[i] = IF (q.nesting \div Two[c - i]) % 2 = 1 THEN "shared" ELSE "exclusive"
    BY <1>5, Zenon
  <2> QED
    BY <2>2, <2>3, <2>4, <2>5
<1>7. StackOf(a)[c + 1] = kind
  <2>1. 0 \in 0 .. MaxNest - 1 /\ (c + 1) - (c + 1) = 0 /\ c + 1 \in 1 .. c + 1
    BY <1>1, RequestListsAssumption
  <2>2. (a.nesting \div Two[0]) % 2 = ((2 * q.nesting + bit) \div Two[0]) % 2
    BY <1>2, <1>3, <2>1, Truncate
  <2>3. (2 * q.nesting + bit) \div 1 = 2 * q.nesting + bit
        /\ (2 * q.nesting + bit) % 2 = bit
    BY <1>3
  <2>4. (a.nesting \div Two[0]) % 2 = bit
    BY <2>2, <2>3, TwoRecursion
  <2>5. StackOf(a)[c + 1] = IF (a.nesting \div Two[0]) % 2 = 1 THEN "shared" ELSE "exclusive"
    BY <1>4, <2>1
  <2> QED
    BY <2>4, <2>5 DEF bit, Kinds
<1>8. /\ push \in Seq(Kinds) /\ Len(push) = c + 1
      /\ \A i \in 1 .. c : push[i] = StackOf(q)[i]
      /\ push[c + 1] = kind
  BY <1>1, AppendProperties
<1>9. StackOf(a) \in Seq(Kinds) /\ Len(StackOf(a)) = c + 1
  BY <1>2, StackType
<1> HIDE DEF push
<1>10. \A i \in 1 .. c + 1 : StackOf(a)[i] = push[i]
  <2>1. \A i \in 1 .. c + 1 : i \in 1 .. c \/ i = c + 1
    BY <1>1
  <2> QED
    BY <1>6, <1>7, <1>8, <2>1
<1>11. StackOf(a) = push
  BY <1>8, <1>9, <1>10, SeqEqual
<1> QED
  BY <1>11 DEF a, push

\* The lowest bit is the last access.
LEMMA LowestBit ==
    ASSUME NEW q \in Requests, 0 < RequestCount(q), RequestCount(q) <= MaxNest
    PROVE  StackOf(q)[RequestCount(q)] = IF LastIsExclusive(q) THEN "exclusive" ELSE "shared"
<1> DEFINE c == RequestCount(q)
<1>1. c \in 1 .. c /\ c - c = 0
  BY StackType
<1>2. q.nesting \div 1 = q.nesting /\ q.nesting % 2 \in {0, 1}
  BY DEF Requests
<1>3. StackOf(q)[c] = IF (q.nesting \div Two[c - c]) % 2 = 1 THEN "shared" ELSE "exclusive"
  BY <1>1 DEF StackOf
<1> HIDE DEF c
<1>4. StackOf(q)[c] = IF q.nesting % 2 = 1 THEN "shared" ELSE "exclusive"
  BY <1>1, <1>2, <1>3, TwoRecursion
<1> QED
  BY <1>2, <1>4 DEF LastIsExclusive, c

\* RemoveLast takes the last access off the stack.
LEMMA RemoveLastPops ==
    ASSUME NEW q \in Requests, 0 < RequestCount(q), RequestCount(q) <= MaxNest,
           IF LastIsExclusive(q) THEN q.exclusive > 0 ELSE q.shared > 0
    PROVE  StackOf(RemoveLast(q)) = SubSeq(StackOf(q), 1, Len(StackOf(q)) - 1)
<1> DEFINE c == RequestCount(q)
           d == RemoveLast(q)
           pop == SubSeq(StackOf(q), 1, Len(StackOf(q)) - 1)
<1>1. /\ c \in Nat \ {0} /\ StackOf(q) \in Seq(Kinds) /\ Len(StackOf(q)) = c
      /\ DOMAIN StackOf(q) = 1 .. c
  BY StackType
<1>2. d \in Requests /\ RequestCount(d) = c - 1 /\ d.nesting = q.nesting \div 2
  BY RemoveLastFields
<1>3. q.nesting \in Nat
  BY DEF Requests
<1>4. StackOf(d) = [i \in 1 .. c - 1 |->
          IF (d.nesting \div Two[c - 1 - i]) % 2 = 1 THEN "shared" ELSE "exclusive"]
  BY <1>2 DEF StackOf
<1>5. StackOf(q) = [i \in 1 .. c |->
          IF (q.nesting \div Two[c - i]) % 2 = 1 THEN "shared" ELSE "exclusive"]
  BY DEF StackOf
<1>6. c <= MaxNest
  OBVIOUS
<1> HIDE DEF c, d
<1>7. ASSUME NEW i \in 1 .. c - 1
      PROVE  StackOf(d)[i] = StackOf(q)[i]
  <2>1. c - 1 - i \in 0 .. MaxNest - 1 /\ (c - 1 - i) + 1 = c - i /\ i \in 1 .. c
    BY <1>1, <1>6, RequestListsAssumption
  <2>2. d.nesting \div Two[c - 1 - i] = q.nesting \div Two[c - i]
    BY <1>2, <1>3, <2>1, ShiftOut
  <2>3. StackOf(d)[i] = IF (d.nesting \div Two[c - 1 - i]) % 2 = 1 THEN "shared" ELSE "exclusive"
    BY <1>4, Zenon
  <2>4. StackOf(q)[i] = IF (q.nesting \div Two[c - i]) % 2 = 1 THEN "shared" ELSE "exclusive"
    BY <1>5, <2>1, Zenon
  <2> QED
    BY <2>2, <2>3, <2>4
<1>8. /\ pop \in Seq(Kinds) /\ Len(pop) = c - 1
      /\ \A i \in 1 .. c - 1 : pop[i] = StackOf(q)[i]
  BY <1>1
<1>9. StackOf(d) \in Seq(Kinds) /\ Len(StackOf(d)) = c - 1
  BY <1>2, StackType
<1> HIDE DEF pop
<1>10. StackOf(d) = pop
  BY <1>7, <1>8, <1>9, SeqEqual
<1> QED
  BY <1>10 DEF d, pop

\* Counting one more or one less access of a stack
LEMMA PositionsFinite ==
    ASSUME NEW s \in Seq(Kinds), NEW kind
    PROVE  IsFiniteSet(Positions(s, kind)) /\ Cardinality(Positions(s, kind)) \in Nat
<1>1. DOMAIN s = 1 .. Len(s) /\ Len(s) \in Nat
  OBVIOUS
<1>2. IsFiniteSet(1 .. Len(s))
  BY <1>1, FS_Interval
<1>3. Positions(s, kind) \in SUBSET (1 .. Len(s))
  BY <1>1 DEF Positions
<1> QED
  BY <1>2, <1>3, FS_Subset, FS_CardinalityType

LEMMA PositionsPush ==
    ASSUME NEW s \in Seq(Kinds), NEW x \in Kinds, NEW kind \in Kinds
    PROVE  Cardinality(Positions(Append(s, x), kind)) =
               Cardinality(Positions(s, kind)) + (IF x = kind THEN 1 ELSE 0)
<1> DEFINE r == Append(s, x)
<1>1. /\ r \in Seq(Kinds) /\ Len(s) \in Nat /\ Len(r) = Len(s) + 1
      /\ DOMAIN s = 1 .. Len(s) /\ DOMAIN r = 1 .. Len(s) + 1
      /\ \A i \in 1 .. Len(s) : r[i] = s[i]
      /\ r[Len(s) + 1] = x
  BY AppendProperties
<1> HIDE DEF r
<1>2. Len(s) + 1 \notin Positions(s, kind)
  BY <1>1 DEF Positions
<1>3. CASE x = kind
  <2>1. Positions(r, kind) = Positions(s, kind) \cup {Len(s) + 1}
    BY <1>1, <1>3 DEF Positions
  <2> QED
    BY <1>2, <1>3, <2>1, PositionsFinite, FS_AddElement DEF r
<1>4. CASE x # kind
  <2>1. Positions(r, kind) = Positions(s, kind)
    BY <1>1, <1>4 DEF Positions
  <2> QED
    BY <1>4, <2>1, PositionsFinite DEF r
<1> QED
  BY <1>3, <1>4

\* A sequence without its last element
LEMMA Shortened ==
    ASSUME NEW s \in Seq(Kinds), NEW k \in Nat, k = Len(s), k > 0
    PROVE  /\ SubSeq(s, 1, k - 1) \in Seq(Kinds)
           /\ Len(SubSeq(s, 1, k - 1)) = k - 1
           /\ \A i \in 1 .. k - 1 : SubSeq(s, 1, k - 1)[i] = s[i]
<1> DEFINE f == SubSeq(s, 1, k - 1)
<1>1. 1 \in Int /\ k - 1 \in Int /\ \A i \in 1 .. k - 1 : s[i] \in Kinds
  OBVIOUS
<1>2. /\ f \in Seq(Kinds) /\ Len(f) = IF 1 <= k - 1 THEN (k - 1) - 1 + 1 ELSE 0
      /\ \A i \in 1 .. (k - 1) - 1 + 1 : f[i] = s[1 + i - 1]
  BY <1>1, SubSeqProperties
<1> HIDE DEF f
<1>3. Len(f) = k - 1
  BY <1>2
<1>4. ASSUME NEW i \in 1 .. k - 1 PROVE f[i] = s[i]
  <2>1. i \in 1 .. (k - 1) - 1 + 1 /\ 1 + i - 1 = i
    OBVIOUS
  <2> QED
    BY <1>2, <2>1
<1> QED
  BY <1>2, <1>3, <1>4 DEF f

LEMMA PositionsPop ==
    ASSUME NEW s \in Seq(Kinds), s # <<>>, NEW kind \in Kinds
    PROVE  Cardinality(Positions(SubSeq(s, 1, Len(s) - 1), kind)) =
               Cardinality(Positions(s, kind)) - (IF s[Len(s)] = kind THEN 1 ELSE 0)
<1> DEFINE r == SubSeq(s, 1, Len(s) - 1)
<1>1. /\ r \in Seq(Kinds) /\ Len(s) \in Nat \ {0} /\ s[Len(s)] \in Kinds
      /\ s = Append(r, s[Len(s)])
  <2>1. /\ r \in Seq(Kinds) /\ Len(s) \in Nat \ {0} /\ s[Len(s)] \in Kinds
        /\ Len(r) = Len(s) - 1 /\ \A i \in 1 .. Len(s) - 1 : r[i] = s[i]
    <3> DEFINE k == Len(s)
    <3>1. k \in Nat /\ k = Len(s) /\ k > 0 /\ s[k] \in Kinds
      BY EmptySeq
    <3>2. r = SubSeq(s, 1, k - 1)
      OBVIOUS
    <3> HIDE DEF k, r
    <3>3. /\ SubSeq(s, 1, k - 1) \in Seq(Kinds)
          /\ Len(SubSeq(s, 1, k - 1)) = k - 1
          /\ \A i \in 1 .. k - 1 : SubSeq(s, 1, k - 1)[i] = s[i]
      BY <3>1, Shortened
    <3> QED
      BY <3>1, <3>2, <3>3
  <2> HIDE DEF r
  <2>2. /\ Append(r, s[Len(s)]) \in Seq(Kinds) /\ Len(Append(r, s[Len(s)])) = Len(s)
        /\ \A i \in 1 .. Len(s) : Append(r, s[Len(s)])[i] = s[i]
    BY <2>1, AppendProperties
  <2>3. s = Append(r, s[Len(s)])
    BY <2>2, SeqEqual
  <2> QED
    BY <2>1, <2>3
<1> HIDE DEF r
<1>2. Cardinality(Positions(Append(r, s[Len(s)]), kind)) =
          Cardinality(Positions(r, kind)) + (IF s[Len(s)] = kind THEN 1 ELSE 0)
  BY <1>1, PositionsPush
<1>3. Cardinality(Positions(s, kind)) =
          Cardinality(Positions(r, kind)) + (IF s[Len(s)] = kind THEN 1 ELSE 0)
  BY <1>1, <1>2
<1>4. Cardinality(Positions(r, kind)) \in Nat
  BY <1>1, PositionsFinite
<1> QED
  BY <1>3, <1>4 DEF r

\* A request that has an access of a kind has one in its mask.
LEMMA FitsCounts ==
    ASSUME NEW q, Fits(q)
    PROVE  /\ q.exclusive > 0 <=> \E i \in DOMAIN StackOf(q) : StackOf(q)[i] = "exclusive"
           /\ RequestCount(q) > 0 =>
                 IF LastIsExclusive(q) THEN q.exclusive > 0 ELSE q.shared > 0
<1>1. /\ q \in Requests /\ RequestCount(q) <= MaxNest
      /\ StackOf(q) \in Seq(Kinds) /\ Len(StackOf(q)) = RequestCount(q)
      /\ DOMAIN StackOf(q) = 1 .. RequestCount(q) /\ RequestCount(q) \in Nat
  BY StackType DEF Fits
<1>2. q.exclusive > 0 <=> Positions(StackOf(q), "exclusive") # {}
  BY <1>1, PositionsFinite, FS_EmptySet DEF Fits
<1>3. q.shared > 0 <=> Positions(StackOf(q), "shared") # {}
  BY <1>1, PositionsFinite, FS_EmptySet DEF Fits
<1>4. ASSUME RequestCount(q) > 0
      PROVE  IF LastIsExclusive(q) THEN q.exclusive > 0 ELSE q.shared > 0
  <2>1. RequestCount(q) \in DOMAIN StackOf(q)
    BY <1>1, <1>4
  <2>2. StackOf(q)[RequestCount(q)] = IF LastIsExclusive(q) THEN "exclusive" ELSE "shared"
    BY <1>1, <1>4, LowestBit
  <2> QED
    BY <1>2, <1>3, <2>1, <2>2 DEF Positions
<1> QED
  BY <1>2, <1>4 DEF Positions

\* Both keep the counts and the mask together.
LEMMA AddFits ==
    ASSUME NEW q, Fits(q), NEW kind \in Kinds, RequestCount(q) < MaxNest
    PROVE  Fits(Add(q, kind))
<1> DEFINE a == Add(q, kind)
<1>1. q \in Requests /\ StackOf(q) \in Seq(Kinds) /\ RequestCount(q) \in Nat
  BY StackType DEF Fits
<1>2. /\ a \in Requests /\ a.tid = q.tid /\ RequestCount(a) = RequestCount(q) + 1
      /\ a.shared = q.shared + (IF kind = "shared" THEN 1 ELSE 0)
      /\ a.exclusive = q.exclusive + (IF kind = "shared" THEN 0 ELSE 1)
  BY <1>1, AddFields
<1>3. StackOf(a) = Append(StackOf(q), kind)
  BY <1>1, AddPushes
<1>4. /\ Cardinality(Positions(StackOf(a), "shared")) =
            q.shared + (IF kind = "shared" THEN 1 ELSE 0)
      /\ Cardinality(Positions(StackOf(a), "exclusive")) =
            q.exclusive + (IF kind = "exclusive" THEN 1 ELSE 0)
  BY <1>1, <1>3, PositionsPush DEF Fits, Kinds
<1> HIDE DEF a
<1>5. RequestCount(a) <= MaxNest
  BY <1>1, <1>2, RequestListsAssumption
<1>6. Fits(a)
  BY <1>2, <1>4, <1>5 DEF Fits, Kinds
<1> QED
  BY <1>6 DEF a

LEMMA RemoveLastFits ==
    ASSUME NEW q, Fits(q), RequestCount(q) > 0
    PROVE  /\ Fits(RemoveLast(q))
           /\ RequestCount(RemoveLast(q)) = RequestCount(q) - 1
           /\ StackOf(RemoveLast(q)) = SubSeq(StackOf(q), 1, Len(StackOf(q)) - 1)
           /\ RemoveLast(q).tid = q.tid /\ RemoveLast(q).signal = q.signal
<1> DEFINE d == RemoveLast(q)
<1>1. /\ q \in Requests /\ StackOf(q) \in Seq(Kinds) /\ RequestCount(q) \in Nat
      /\ Len(StackOf(q)) = RequestCount(q) /\ RequestCount(q) <= MaxNest
  BY StackType DEF Fits
<1>2. IF LastIsExclusive(q) THEN q.exclusive > 0 ELSE q.shared > 0
  BY FitsCounts
<1>3. /\ d \in Requests /\ d.tid = q.tid /\ RequestCount(d) = RequestCount(q) - 1
      /\ d.signal = q.signal
      /\ d.shared = q.shared - (IF LastIsExclusive(q) THEN 0 ELSE 1)
      /\ d.exclusive = q.exclusive - (IF LastIsExclusive(q) THEN 1 ELSE 0)
  BY <1>1, <1>2, RemoveLastFields
<1>4. StackOf(d) = SubSeq(StackOf(q), 1, Len(StackOf(q)) - 1)
  BY <1>1, <1>2, RemoveLastPops
<1>5. StackOf(q)[Len(StackOf(q))] = IF LastIsExclusive(q) THEN "exclusive" ELSE "shared"
  BY <1>1, LowestBit
<1>6. StackOf(q) # <<>>
  BY <1>1
<1>7. /\ Cardinality(Positions(StackOf(d), "shared")) =
            q.shared - (IF LastIsExclusive(q) THEN 0 ELSE 1)
      /\ Cardinality(Positions(StackOf(d), "exclusive")) =
            q.exclusive - (IF LastIsExclusive(q) THEN 1 ELSE 0)
  BY <1>1, <1>4, <1>5, <1>6, PositionsPop DEF Fits, Kinds
<1> HIDE DEF d
<1>8. RequestCount(d) <= MaxNest
  BY <1>1, <1>3, RequestListsAssumption
<1>9. Fits(d)
  BY <1>3, <1>7, <1>8 DEF Fits
<1> QED
  BY <1>3, <1>4, <1>9 DEF d

-----------------------------------------------------------------------------
(* The lists.  X is the set of requests that a function holds in its hand  *)
(* between taking them out of one list and putting them in another.        *)

Fields == {"req", "list", "shared", "exclusive"}

Shape(L) ==
    /\ L = [f \in Fields |-> L[f]]
    /\ L.req \in Seq(Requests)
    /\ L.list \in [Lists -> Seq(DOMAIN L.req)]
    /\ \A n \in Lists : IsInjective(L.list[n])
    /\ L.shared \in [Lists -> Int] /\ L.exclusive \in [Lists -> Int]

OnceListed(L, X) ==
    /\ X \subseteq DOMAIN L.req
    /\ \A r \in DOMAIN L.req : r \in X <=> \A n \in Lists : r \notin Range(L.list[n])
    /\ \A n, k \in Lists : n # k => Range(L.list[n]) \cap Range(L.list[k]) = {}

\* The counters of a list are the numbers of its accesses.
Counts(L) ==
    \A n \in Lists :
        /\ IsFiniteSet(Accesses(L, n, "shared"))
        /\ L.shared[n] = Cardinality(Accesses(L, n, "shared"))
        /\ IsFiniteSet(Accesses(L, n, "exclusive"))
        /\ L.exclusive[n] = Cardinality(Accesses(L, n, "exclusive"))

\* The requests that are not in the pool
Busy(L) == DOMAIN L.req \ Range(L.list["empty"])

\* They have accesses of a thread, each that of another; and no event in the pool is set.
Owned(L, X) ==
    /\ \A r \in Busy(L) : Fits(L.req[r])
    /\ \A r \in Busy(L) \ X : RequestCount(L.req[r]) > 0
    /\ \A r, s \in Busy(L) : L.req[r].tid = L.req[s].tid => r = s
    /\ \A r \in Range(L.list["empty"]) : ~L.req[r].signal

Good(L, X) == Shape(L) /\ OnceListed(L, X) /\ Counts(L) /\ Owned(L, X)

-----------------------------------------------------------------------------
(* Putting a request into a list, and taking it out                        *)

\* K is L with another list n, in which sign times the counts of r more are counted.
Moved(L, K, n, s, r, sign) ==
    /\ K = [f \in Fields |-> K[f]]
    /\ K.req = L.req
    /\ K.list = [L.list EXCEPT ![n] = s]
    /\ K.shared = [L.shared EXCEPT ![n] = @ + sign * L.req[r].shared]
    /\ K.exclusive = [L.exclusive EXCEPT ![n] = @ + sign * L.req[r].exclusive]

LEMMA CountedMoves ==
    ASSUME NEW L, L = [f \in Fields |-> L[f]], NEW n, NEW s, NEW r, NEW sign
    PROVE  Moved(L, Counted([L EXCEPT !.list[n] = s], n, r, sign), n, s, r, sign)
<1> DEFINE L1 == [L EXCEPT !.list[n] = s]
           K == Counted(L1, n, r, sign)
<1>1. /\ L1 = [f \in Fields |-> L1[f]] /\ L1.req = L.req /\ L1.shared = L.shared
      /\ L1.exclusive = L.exclusive /\ L1.list = [L.list EXCEPT ![n] = s]
  BY DEF Fields
<1> HIDE DEF L1
<1>2. K = [L1 EXCEPT !.shared[n] = @ + sign * L1.req[r].shared,
                     !.exclusive[n] = @ + sign * L1.req[r].exclusive]
  BY DEF Counted
<1>3. /\ K = [f \in Fields |-> K[f]] /\ K.req = L1.req /\ K.list = L1.list
      /\ K.shared = [L1.shared EXCEPT ![n] = @ + sign * L1.req[r].shared]
      /\ K.exclusive = [L1.exclusive EXCEPT ![n] = @ + sign * L1.req[r].exclusive]
  BY <1>1, <1>2 DEF Fields
<1> HIDE DEF K
<1>4. Moved(L, K, n, s, r, sign)
  BY <1>1, <1>3 DEF Moved
<1> QED
  BY <1>4 DEF K, L1

\* The accesses of one request
LEMMA LineCardinality ==
    ASSUME NEW r, NEW c \in Nat
    PROVE  IsFiniteSet({r} \X (1 .. c)) /\ Cardinality({r} \X (1 .. c)) = c
<1>1. /\ IsFiniteSet({r}) /\ Cardinality({r}) = 1
      /\ IsFiniteSet(1 .. c) /\ Cardinality(1 .. c) = c
  <2>1. 1 \in Int /\ c \in Int
    OBVIOUS
  <2>2. IsFiniteSet(1 .. c) /\ Cardinality(1 .. c) = IF 1 > c THEN 0 ELSE c - 1 + 1
    BY <2>1, FS_Interval
  <2>3. IsFiniteSet({r}) /\ Cardinality({r}) = 1
    BY FS_Singleton
  <2> QED
    BY <2>2, <2>3
<1>2. /\ IsFiniteSet({r} \X (1 .. c))
      /\ Cardinality({r} \X (1 .. c)) = Cardinality({r}) * Cardinality(1 .. c)
  BY <1>1, FS_Product
<1> QED
  BY <1>1, <1>2

\* The accesses of a set of requests
AccessesOf(q, R, kind) == UNION {{r} \X (1 .. q[r][kind]) : r \in R}

\* S has the members of R, and r.
OneMore(S, R, r) == r \notin R /\ S = R \cup {r}

\* One request more has its accesses more.
LEMMA AccessesMore ==
    ASSUME NEW q, NEW R, NEW S, NEW kind, NEW r, OneMore(S, R, r), q[r][kind] \in Nat
    PROVE  /\ IsFiniteSet(AccessesOf(q, R, kind)) <=> IsFiniteSet(AccessesOf(q, S, kind))
           /\ IsFiniteSet(AccessesOf(q, R, kind)) =>
                  /\ Cardinality(AccessesOf(q, R, kind)) \in Nat
                  /\ Cardinality(AccessesOf(q, S, kind)) =
                        Cardinality(AccessesOf(q, R, kind)) + q[r][kind]
<1> DEFINE A == AccessesOf(q, R, kind)
           B == {r} \X (1 .. q[r][kind])
           C == AccessesOf(q, S, kind)
<1>1. C = A \cup B
  BY DEF AccessesOf, OneMore
<1>2. A \cap B = {}
  BY DEF AccessesOf, OneMore
<1>3. IsFiniteSet(B) /\ Cardinality(B) = q[r][kind]
  BY LineCardinality
<1> HIDE DEF A, B, C
<1>4. IsFiniteSet(C) => IsFiniteSet(A)
  <2>1. A \subseteq C
    BY <1>1
  <2> QED
    BY <2>1, FS_Subset
<1>5. ASSUME IsFiniteSet(A)
      PROVE  /\ IsFiniteSet(C) /\ Cardinality(A) \in Nat
             /\ Cardinality(C) = Cardinality(A) + q[r][kind]
  <2>1. /\ IsFiniteSet(A \cup B)
        /\ Cardinality(A \cup B) = Cardinality(A) + Cardinality(B) - Cardinality(A \cap B)
    BY <1>3, <1>5, FS_Union
  <2>2. Cardinality(A) \in Nat /\ Cardinality(A \cap B) = 0
    BY <1>2, <1>5, FS_CardinalityType, FS_EmptySet
  <2> QED
    BY <1>1, <1>3, <2>1, <2>2
<1> QED
  BY <1>4, <1>5 DEF A, C

LEMMA AccessesList ==
    ASSUME NEW L, NEW n, NEW kind
    PROVE  Accesses(L, n, kind) = AccessesOf(L.req, Range(L.list[n]), kind)
  BY DEF Accesses, AccessesOf

\* List n of K has the requests of that of L, and r.
OneMoreIn(L, K, n, r) == K.req = L.req /\ OneMore(Range(K.list[n]), Range(L.list[n]), r)

\* b is c more than a.
MoreBy(a, b, c) == a \in Nat /\ b = a + c

\* The counts of a list that has one request more than another
LEMMA CountsMore ==
    ASSUME NEW L, NEW K, NEW n, NEW r, NEW kind,
           OneMoreIn(L, K, n, r), L.req[r][kind] \in Nat
    PROVE  /\ IsFiniteSet(Accesses(L, n, kind)) <=> IsFiniteSet(Accesses(K, n, kind))
           /\ IsFiniteSet(Accesses(L, n, kind)) =>
                  MoreBy(Cardinality(Accesses(L, n, kind)), Cardinality(Accesses(K, n, kind)),
                         L.req[r][kind])
<1> DEFINE q == L.req
           R == Range(L.list[n])
           S == Range(K.list[n])
<1>1. Accesses(L, n, kind) = AccessesOf(q, R, kind)
  BY AccessesList
<1>2. Accesses(K, n, kind) = AccessesOf(q, S, kind)
  BY AccessesList DEF OneMoreIn
<1>3. OneMore(S, R, r) /\ q[r][kind] \in Nat /\ q[r][kind] = L.req[r][kind]
  BY DEF OneMoreIn
<1> HIDE DEF q, R, S
<1>4. /\ IsFiniteSet(AccessesOf(q, R, kind)) <=> IsFiniteSet(AccessesOf(q, S, kind))
      /\ IsFiniteSet(AccessesOf(q, R, kind)) =>
             /\ Cardinality(AccessesOf(q, R, kind)) \in Nat
             /\ Cardinality(AccessesOf(q, S, kind)) =
                   Cardinality(AccessesOf(q, R, kind)) + q[r][kind]
  BY <1>3, AccessesMore
<1> QED
  BY <1>1, <1>2, <1>3, <1>4 DEF MoreBy

\* A list that has the same requests, with the same counts, counts the same.
LEMMA AccessesSame ==
    ASSUME NEW L, NEW K, NEW n, NEW kind, Range(K.list[n]) = Range(L.list[n]),
           \A r \in Range(L.list[n]) : K.req[r][kind] = L.req[r][kind]
    PROVE  Accesses(K, n, kind) = Accesses(L, n, kind)
  BY DEF Accesses

\* What Moved says of each list
LEMMA MovedLists ==
    ASSUME NEW L, Shape(L), NEW n \in Lists, NEW s, NEW r, NEW sign, NEW K,
           Moved(L, K, n, s, r, sign)
    PROVE  /\ K.req = L.req /\ K.list[n] = s
           /\ \A k \in Lists : k # n => /\ K.list[k] = L.list[k]
                                        /\ K.shared[k] = L.shared[k]
                                        /\ K.exclusive[k] = L.exclusive[k]
           /\ K.shared[n] = L.shared[n] + sign * L.req[r].shared
           /\ K.exclusive[n] = L.exclusive[n] + sign * L.req[r].exclusive
  BY DEF Moved, Shape

\* The shape stays.
LEMMA MovedShape ==
    ASSUME NEW L, Shape(L), NEW n \in Lists, NEW s \in Seq(DOMAIN L.req), IsInjective(s),
           NEW r \in DOMAIN L.req, NEW sign \in {1, -1}, NEW K, Moved(L, K, n, s, r, sign)
    PROVE  Shape(K)
<1>1. L.req[r].shared \in Nat /\ L.req[r].exclusive \in Nat
  <2>1. L.req[r] \in Requests
    BY DEF Shape
  <2> QED
    BY <2>1 DEF Requests
<1>2. sign * L.req[r].shared \in Int /\ sign * L.req[r].exclusive \in Int
  BY <1>1
<1>3. K = [f \in Fields |-> K[f]] /\ K.req = L.req
  BY DEF Moved
<1>4. K.list \in [Lists -> Seq(DOMAIN K.req)]
  <2> DEFINE D == Seq(DOMAIN L.req)
  <2>1. L.list \in [Lists -> D] /\ s \in D /\ K.list = [L.list EXCEPT ![n] = s]
    BY DEF Moved, Shape
  <2> HIDE DEF D
  <2>2. K.list \in [Lists -> D]
    BY <2>1
  <2> QED
    BY <1>3, <2>2 DEF D
<1>5. ASSUME NEW k \in Lists PROVE IsInjective(K.list[k])
  <2>1. K.list[n] = s /\ (k # n => K.list[k] = L.list[k])
    BY MovedLists
  <2>2. IsInjective(L.list[k])
    BY DEF Shape
  <2> QED
    BY <2>1, <2>2
<1>6. K.shared \in [Lists -> Int] /\ K.exclusive \in [Lists -> Int]
  <2>1. L.shared \in [Lists -> Int] /\ L.exclusive \in [Lists -> Int]
    BY DEF Shape
  <2>2. /\ K.shared = [L.shared EXCEPT ![n] = @ + sign * L.req[r].shared]
        /\ K.exclusive = [L.exclusive EXCEPT ![n] = @ + sign * L.req[r].exclusive]
    BY DEF Moved
  <2> DEFINE a == sign * L.req[r].shared
             b == sign * L.req[r].exclusive
  <2> HIDE DEF a, b
  <2>3. /\ K.shared = [L.shared EXCEPT ![n] = L.shared[n] + a]
        /\ K.exclusive = [L.exclusive EXCEPT ![n] = L.exclusive[n] + b]
    BY <2>2 DEF a, b
  <2>4. a \in Int /\ b \in Int
    BY <1>2 DEF a, b
  <2>5. L.shared[n] + a \in Int /\ L.exclusive[n] + b \in Int
    BY <2>1, <2>4
  <2> QED
    BY <2>1, <2>3, <2>5
<1> QED
  BY <1>3, <1>4, <1>5, <1>6 DEF Shape

\* Counts of requests are numbers.
LEMMA CountTypes ==
    ASSUME NEW L, Shape(L), NEW r \in DOMAIN L.req
    PROVE  /\ L.req[r] \in Requests
           /\ L.req[r].shared \in Nat /\ L.req[r].exclusive \in Nat
           /\ L.req[r]["shared"] = L.req[r].shared
           /\ L.req[r]["exclusive"] = L.req[r].exclusive
<1>1. L.req[r] \in Requests
  BY DEF Shape
<1> QED
  BY <1>1 DEF Requests

\* A request goes to the pool without a set event, and to the other lists with accesses.
MayPut(L, n, r) ==
    IF n = "empty" THEN ~L.req[r].signal ELSE RequestCount(L.req[r]) > 0

\* Putting a request in hand into a list keeps everything in order.
LEMMA PutGood ==
    ASSUME NEW L, NEW X, Good(L, X), NEW n \in Lists, NEW r \in X,
           NEW s \in Seq(DOMAIN L.req), IsInjective(s),
           OneMore(Range(s), Range(L.list[n]), r),
           MayPut(L, n, r), NEW K, Moved(L, K, n, s, r, 1)
    PROVE  Good(K, X \ {r})
<1>1. Shape(L) /\ OnceListed(L, X) /\ Counts(L) /\ Owned(L, X) /\ r \in DOMAIN L.req
      /\ \A k \in Lists : r \notin Range(L.list[k])
  BY DEF Good, OnceListed
<1>2. /\ K.req = L.req /\ K.list[n] = s
      /\ \A k \in Lists : k # n => /\ K.list[k] = L.list[k]
                                   /\ K.shared[k] = L.shared[k]
                                   /\ K.exclusive[k] = L.exclusive[k]
      /\ K.shared[n] = L.shared[n] + 1 * L.req[r].shared
      /\ K.exclusive[n] = L.exclusive[n] + 1 * L.req[r].exclusive
  BY <1>1, MovedLists
<1>3. Shape(K)
  BY <1>1, MovedShape
<1>4. \A k \in Lists : \A x : x \in Range(K.list[k]) <=>
                                  x \in Range(L.list[k]) \/ (k = n /\ x = r)
  BY <1>2 DEF OneMore
<1>5. OnceListed(K, X \ {r})
  <2>1. DOMAIN K.req = DOMAIN L.req /\ X \subseteq DOMAIN L.req
    BY <1>1, <1>2 DEF OnceListed
  <2>2. ASSUME NEW x \in DOMAIN L.req
        PROVE  x \in X \ {r} <=> \A k \in Lists : x \notin Range(K.list[k])
    BY <1>1, <1>4 DEF OnceListed
  <2>3. ASSUME NEW k \in Lists, NEW l \in Lists, k # l
        PROVE  Range(K.list[k]) \cap Range(K.list[l]) = {}
    <3>1. Range(L.list[k]) \cap Range(L.list[l]) = {}
      BY <1>1, <2>3 DEF OnceListed
    <3> QED
      BY <1>1, <1>4, <2>3, <3>1
  <2> QED
    BY <2>1, <2>2, <2>3 DEF OnceListed
<1>6. /\ L.req[r].shared \in Nat /\ L.req[r].exclusive \in Nat
      /\ L.req[r]["shared"] = L.req[r].shared
      /\ L.req[r]["exclusive"] = L.req[r].exclusive
  BY <1>1, CountTypes
<1>7. Counts(K)
  <2>1. ASSUME NEW k \in Lists, k # n
        PROVE  /\ Accesses(K, k, "shared") = Accesses(L, k, "shared")
               /\ Accesses(K, k, "exclusive") = Accesses(L, k, "exclusive")
    BY <1>2, <2>1, AccessesSame
  <2>2. OneMoreIn(L, K, n, r)
    BY <1>2 DEF OneMoreIn
  <2>3. L.req[r]["shared"] \in Nat /\ L.req[r]["exclusive"] \in Nat
    BY <1>6
  <2>4. /\ IsFiniteSet(Accesses(L, n, "shared")) /\ IsFiniteSet(Accesses(L, n, "exclusive"))
        /\ L.shared[n] = Cardinality(Accesses(L, n, "shared"))
        /\ L.exclusive[n] = Cardinality(Accesses(L, n, "exclusive"))
    BY <1>1 DEF Counts
  <2>5. /\ IsFiniteSet(Accesses(K, n, "shared"))
        /\ MoreBy(Cardinality(Accesses(L, n, "shared")),
                  Cardinality(Accesses(K, n, "shared")), L.req[r]["shared"])
    BY <2>2, <2>3, <2>4, CountsMore
  <2>6. /\ IsFiniteSet(Accesses(K, n, "exclusive"))
        /\ MoreBy(Cardinality(Accesses(L, n, "exclusive")),
                  Cardinality(Accesses(K, n, "exclusive")), L.req[r]["exclusive"])
    BY <2>2, <2>3, <2>4, CountsMore
  <2>7. /\ K.shared[n] = L.shared[n] + L.req[r]["shared"]
        /\ K.exclusive[n] = L.exclusive[n] + L.req[r]["exclusive"]
    BY <1>2, <1>6
  <2>8. /\ K.shared[n] = Cardinality(Accesses(K, n, "shared"))
        /\ K.exclusive[n] = Cardinality(Accesses(K, n, "exclusive"))
    BY <2>4, <2>5, <2>6, <2>7 DEF MoreBy
  <2>9. ASSUME NEW k \in Lists
        PROVE  /\ IsFiniteSet(Accesses(K, k, "shared"))
               /\ K.shared[k] = Cardinality(Accesses(K, k, "shared"))
               /\ IsFiniteSet(Accesses(K, k, "exclusive"))
               /\ K.exclusive[k] = Cardinality(Accesses(K, k, "exclusive"))
    <3>1. CASE k = n
      BY <2>5, <2>6, <2>8, <3>1
    <3>2. CASE k # n
      BY <1>1, <1>2, <2>1, <3>2 DEF Counts
    <3> QED
      BY <3>1, <3>2
  <2> QED
    BY <2>9 DEF Counts
<1>8. Owned(K, X \ {r})
  <2>1. Busy(K) \subseteq Busy(L) /\ Busy(K) \ (X \ {r}) \subseteq (Busy(L) \ X) \cup {r}
    BY <1>1, <1>2, <1>4 DEF Busy, Lists
  <2>2. \A x \in Range(K.list["empty"]) : ~K.req[x].signal
    <3>1. CASE n = "empty"
      BY <1>1, <1>2, <1>4, <3>1 DEF Owned, MayPut
    <3>2. CASE n # "empty"
      BY <1>1, <1>2, <3>2 DEF Owned, Lists
    <3> QED
      BY <3>1, <3>2
  <2>3. n = "empty" => r \notin Busy(K)
    BY <1>4 DEF Busy
  <2>4. \A x \in Busy(K) \ (X \ {r}) : RequestCount(K.req[x]) > 0
    BY <1>1, <1>2, <2>1, <2>3 DEF Owned, MayPut
  <2> QED
    BY <1>1, <1>2, <2>1, <2>2, <2>4 DEF Owned
<1> QED
  BY <1>3, <1>5, <1>7, <1>8 DEF Good

\* So does taking a request that is not in the pool.
LEMMA TakeGood ==
    ASSUME NEW L, NEW X, Good(L, X), NEW n \in Lists, n # "empty", NEW r \in Range(L.list[n]),
           NEW s \in Seq(DOMAIN L.req), IsInjective(s),
           OneMore(Range(L.list[n]), Range(s), r),
           NEW K, Moved(L, K, n, s, r, -1)
    PROVE  Good(K, X \cup {r}) /\ r \in Busy(L) /\ r \notin X /\ RequestCount(L.req[r]) > 0
<1>1. Shape(L) /\ OnceListed(L, X) /\ Counts(L) /\ Owned(L, X)
  BY DEF Good
<1>2. /\ K.req = L.req /\ K.list[n] = s
      /\ \A k \in Lists : k # n => /\ K.list[k] = L.list[k]
                                   /\ K.shared[k] = L.shared[k]
                                   /\ K.exclusive[k] = L.exclusive[k]
      /\ K.shared[n] = L.shared[n] + (-1) * L.req[r].shared
      /\ K.exclusive[n] = L.exclusive[n] + (-1) * L.req[r].exclusive
  BY <1>1, MovedLists
<1>3. r \in DOMAIN L.req /\ "empty" \in Lists
  <2>1. L.list[n] \in Seq(DOMAIN L.req)
    BY <1>1 DEF Shape
  <2>2. PICK i \in DOMAIN L.list[n] : r = L.list[n][i]
    BY DEF Range
  <2>3. r \in DOMAIN L.req
    BY <2>1, <2>2
  <2> QED
    BY <2>3 DEF Lists
<1>4. r \notin Range(L.list["empty"]) /\ r \notin X
      /\ \A k \in Lists : k # n => r \notin Range(L.list[k])
  BY <1>1, <1>3 DEF OnceListed
<1>5. r \in Busy(L) /\ RequestCount(L.req[r]) > 0
  BY <1>1, <1>3, <1>4 DEF Busy, Owned
<1>6. Shape(K)
  BY <1>1, <1>3, MovedShape
<1>7. \A k \in Lists : \A x : x \in Range(K.list[k]) <=> x \in Range(L.list[k]) /\ x # r
  BY <1>2, <1>4 DEF OneMore
<1>8. OnceListed(K, X \cup {r})
  <2>1. DOMAIN K.req = DOMAIN L.req /\ X \cup {r} \subseteq DOMAIN L.req
    BY <1>1, <1>2, <1>3 DEF OnceListed
  <2>2. ASSUME NEW x \in DOMAIN L.req
        PROVE  x \in X \cup {r} <=> \A k \in Lists : x \notin Range(K.list[k])
    BY <1>1, <1>7 DEF OnceListed
  <2>3. ASSUME NEW k \in Lists, NEW l \in Lists, k # l
        PROVE  Range(K.list[k]) \cap Range(K.list[l]) = {}
    <3>1. Range(L.list[k]) \cap Range(L.list[l]) = {}
      BY <1>1, <2>3 DEF OnceListed
    <3> QED
      BY <1>7, <3>1
  <2> QED
    BY <2>1, <2>2, <2>3 DEF OnceListed
<1>9. /\ L.req[r].shared \in Nat /\ L.req[r].exclusive \in Nat
      /\ L.req[r]["shared"] = L.req[r].shared
      /\ L.req[r]["exclusive"] = L.req[r].exclusive
  BY <1>1, <1>3, CountTypes
<1>10. Counts(K)
  <2>1. ASSUME NEW k \in Lists, k # n
        PROVE  /\ Accesses(K, k, "shared") = Accesses(L, k, "shared")
               /\ Accesses(K, k, "exclusive") = Accesses(L, k, "exclusive")
    BY <1>2, <2>1, AccessesSame
  <2>2. OneMoreIn(K, L, n, r)
    BY <1>2 DEF OneMoreIn
  <2>3. K.req[r]["shared"] \in Nat /\ K.req[r]["exclusive"] \in Nat
    BY <1>2, <1>9
  <2>4. /\ IsFiniteSet(Accesses(L, n, "shared")) /\ IsFiniteSet(Accesses(L, n, "exclusive"))
        /\ L.shared[n] = Cardinality(Accesses(L, n, "shared"))
        /\ L.exclusive[n] = Cardinality(Accesses(L, n, "exclusive"))
    BY <1>1 DEF Counts
  <2>5. /\ IsFiniteSet(Accesses(K, n, "shared"))
        /\ MoreBy(Cardinality(Accesses(K, n, "shared")),
                  Cardinality(Accesses(L, n, "shared")), K.req[r]["shared"])
    BY <2>2, <2>3, <2>4, CountsMore
  <2>6. /\ IsFiniteSet(Accesses(K, n, "exclusive"))
        /\ MoreBy(Cardinality(Accesses(K, n, "exclusive")),
                  Cardinality(Accesses(L, n, "exclusive")), K.req[r]["exclusive"])
    BY <2>2, <2>3, <2>4, CountsMore
  <2>7. /\ K.req[r]["shared"] = L.req[r].shared /\ K.req[r]["exclusive"] = L.req[r].exclusive
        /\ L.req[r].shared \in Nat /\ L.req[r].exclusive \in Nat
    BY <1>2, <1>9
  <2>8. /\ K.shared[n] = L.shared[n] - L.req[r].shared
        /\ K.exclusive[n] = L.exclusive[n] - L.req[r].exclusive
    <3> DEFINE a == L.shared[n]
               b == L.exclusive[n]
               c == L.req[r].shared
               d == L.req[r].exclusive
    <3>1. a \in Int /\ b \in Int
      BY <1>1 DEF Shape
    <3>2. c \in Nat /\ d \in Nat
      BY <2>7
    <3>3. K.shared[n] = a + (-1) * c /\ K.exclusive[n] = b + (-1) * d
      BY <1>2
    <3> HIDE DEF a, b, c, d
    <3>4. a + (-1) * c = a - c /\ b + (-1) * d = b - d
      BY <3>1, <3>2
    <3>5. K.shared[n] = a - c /\ K.exclusive[n] = b - d
      BY <3>3, <3>4
    <3> QED
      BY <3>5 DEF a, b, c, d
  <2>9. /\ K.shared[n] = Cardinality(Accesses(K, n, "shared"))
        /\ K.exclusive[n] = Cardinality(Accesses(K, n, "exclusive"))
    BY <2>4, <2>5, <2>6, <2>7, <2>8 DEF MoreBy
  <2>10. ASSUME NEW k \in Lists
         PROVE  /\ IsFiniteSet(Accesses(K, k, "shared"))
                /\ K.shared[k] = Cardinality(Accesses(K, k, "shared"))
                /\ IsFiniteSet(Accesses(K, k, "exclusive"))
                /\ K.exclusive[k] = Cardinality(Accesses(K, k, "exclusive"))
    <3>1. CASE k = n
      BY <2>5, <2>6, <2>9, <3>1
    <3>2. CASE k # n
      BY <1>1, <1>2, <2>1, <3>2 DEF Counts
    <3> QED
      BY <3>1, <3>2
  <2> QED
    BY <2>10 DEF Counts
<1>11. Owned(K, X \cup {r})
  <2>1. K.list["empty"] = L.list["empty"] /\ Busy(K) = Busy(L)
    BY <1>2, <1>3 DEF Busy
  <2> QED
    BY <1>1, <1>2, <2>1 DEF Owned
<1> QED
  BY <1>4, <1>5, <1>6, <1>8, <1>10, <1>11 DEF Good

\* Requests in the hand and in lists
LEMMA GoodTypes ==
    ASSUME NEW L, NEW X, Good(L, X)
    PROVE  /\ L = [f \in Fields |-> L[f]] /\ Shape(L) /\ X \subseteq Busy(L)
           /\ \A r \in X : \A n \in Lists : r \notin Range(L.list[n])
           /\ \A n \in Lists : /\ L.list[n] \in Seq(DOMAIN L.req) /\ IsInjective(L.list[n])
                               /\ Range(L.list[n]) \subseteq DOMAIN L.req
           /\ \A n \in Lists \ {"empty"} : Range(L.list[n]) \subseteq Busy(L)
           /\ Busy(L) \subseteq DOMAIN L.req /\ Busy(L) \cap Range(L.list["empty"]) = {}
           /\ \A r \in Busy(L) : /\ Fits(L.req[r]) /\ L.req[r] \in Requests
                                 /\ L.req[r].tid \in Threads
<1>1. Shape(L) /\ OnceListed(L, X) /\ Owned(L, X)
  BY DEF Good
<1>2. "empty" \in Lists
  BY DEF Lists
<1>3. X \subseteq Busy(L)
  BY <1>1, <1>2 DEF OnceListed, Busy
<1>4. \A r \in X : \A n \in Lists : r \notin Range(L.list[n])
  BY <1>1 DEF OnceListed
<1>5. L = [f \in Fields |-> L[f]]
  BY <1>1 DEF Shape
<1>6. ASSUME NEW n \in Lists
      PROVE  /\ L.list[n] \in Seq(DOMAIN L.req) /\ IsInjective(L.list[n])
             /\ Range(L.list[n]) \subseteq DOMAIN L.req
  <2>1. L.list[n] \in Seq(DOMAIN L.req) /\ IsInjective(L.list[n])
    BY <1>1 DEF Shape
  <2> QED
    BY <2>1 DEF Range
<1>7. \A n \in Lists \ {"empty"} : Range(L.list[n]) \subseteq Busy(L)
  BY <1>1, <1>2, <1>6 DEF OnceListed, Busy
<1>8. \A r \in Busy(L) : /\ Fits(L.req[r]) /\ L.req[r] \in Requests
                         /\ L.req[r].tid \in Threads
  BY <1>1 DEF Owned, Fits
<1>9. Busy(L) \subseteq DOMAIN L.req /\ Busy(L) \cap Range(L.list["empty"]) = {}
  BY DEF Busy
<1> QED
  BY <1>1, <1>3, <1>4, <1>5, <1>6, <1>7, <1>8, <1>9

-----------------------------------------------------------------------------
(* Changing a request                                                      *)

\* K is L with q for request r.
SetTo(L, K, r, q) == K = [L EXCEPT !.req[r] = q]

SameThread(q, p) == q.tid = p.tid
SameCounts(q, p) == q.shared = p.shared /\ q.exclusive = p.exclusive

\* A request in hand may get other accesses, one in a list keeps its counts.
LEMMA SetGood ==
    ASSUME NEW L, NEW X, Good(L, X), NEW r \in Busy(L), NEW q, Fits(q),
           SameThread(q, L.req[r]), r \in X \/ SameCounts(q, L.req[r]),
           NEW K, SetTo(L, K, r, q)
    PROVE  /\ Good(K, X) /\ K.list = L.list /\ Busy(K) = Busy(L)
           /\ K.req[r] = q /\ \A x \in DOMAIN L.req : x # r => K.req[x] = L.req[x]
<1>1. Shape(L) /\ OnceListed(L, X) /\ Counts(L) /\ Owned(L, X)
  BY DEF Good
<1>2. r \in DOMAIN L.req /\ q \in Requests
  BY DEF Busy, Fits
<1>3. /\ K = [f \in Fields |-> K[f]] /\ K.list = L.list /\ K.shared = L.shared
      /\ K.exclusive = L.exclusive /\ K.req = [L.req EXCEPT ![r] = q]
  BY <1>1 DEF Shape, Fields, SetTo
<1>4. /\ K.req \in Seq(Requests) /\ DOMAIN K.req = DOMAIN L.req
      /\ K.req[r] = q /\ \A x \in DOMAIN L.req : x # r => K.req[x] = L.req[x]
  <2>1. L.req \in Seq(Requests)
    BY <1>1 DEF Shape
  <2> QED
    BY <1>2, <1>3, <2>1
<1>5. Shape(K)
  BY <1>1, <1>3, <1>4 DEF Shape
<1>6. OnceListed(K, X)
  BY <1>1, <1>3, <1>4 DEF OnceListed
<1>7. Busy(K) = Busy(L)
  BY <1>3, <1>4 DEF Busy
<1>8. \A n \in Lists : \A x \in Range(L.list[n]) :
          /\ x \in DOMAIN L.req
          /\ K.req[x]["shared"] = L.req[x]["shared"]
          /\ K.req[x]["exclusive"] = L.req[x]["exclusive"]
  <2> SUFFICES ASSUME NEW n \in Lists, NEW x \in Range(L.list[n])
               PROVE  /\ x \in DOMAIN L.req
                      /\ K.req[x]["shared"] = L.req[x]["shared"]
                      /\ K.req[x]["exclusive"] = L.req[x]["exclusive"]
    OBVIOUS
  <2>1. x \in DOMAIN L.req
    BY GoodTypes
  <2>2. CASE x # r
    BY <1>4, <2>1, <2>2
  <2>3. CASE x = r
    <3>1. r \notin X
      BY <1>1, <2>1, <2>3 DEF OnceListed
    <3>2. q.shared = L.req[r].shared /\ q.exclusive = L.req[r].exclusive
      BY <3>1 DEF SameCounts
    <3>3. q["shared"] = L.req[r]["shared"] /\ q["exclusive"] = L.req[r]["exclusive"]
      BY <3>2
    <3> QED
      BY <1>4, <2>1, <2>3, <3>3
  <2> QED
    BY <2>2, <2>3
<1>9. Counts(K)
  <2>1. ASSUME NEW n \in Lists
        PROVE  /\ Accesses(K, n, "shared") = Accesses(L, n, "shared")
               /\ Accesses(K, n, "exclusive") = Accesses(L, n, "exclusive")
    <3>1. Range(K.list[n]) = Range(L.list[n])
      BY <1>3
    <3>2. \A x \in Range(L.list[n]) : K.req[x]["shared"] = L.req[x]["shared"]
      BY <1>8
    <3>3. \A x \in Range(L.list[n]) : K.req[x]["exclusive"] = L.req[x]["exclusive"]
      BY <1>8
    <3>4. Accesses(K, n, "shared") = Accesses(L, n, "shared")
      BY <3>1, <3>2, AccessesSame
    <3>5. Accesses(K, n, "exclusive") = Accesses(L, n, "exclusive")
      BY <3>1, <3>3, AccessesSame
    <3> QED
      BY <3>4, <3>5
  <2> QED
    BY <1>1, <1>3, <2>1 DEF Counts
<1>10. Owned(K, X)
  <2>1. \A x \in Busy(K) : Fits(K.req[x]) /\ K.req[x].tid = L.req[x].tid
    BY <1>1, <1>4, <1>7 DEF Owned, Busy, SameThread
  <2>2. \A x \in Busy(K) \ X : RequestCount(K.req[x]) > 0
    BY <1>1, <1>4, <1>7 DEF Owned, Busy, RequestCount, SameCounts
  <2>3. \A x \in Range(K.list["empty"]) : ~K.req[x].signal
    <3>1. /\ Range(L.list["empty"]) \subseteq DOMAIN L.req
          /\ r \notin Range(L.list["empty"])
      BY GoodTypes DEF Busy, Lists
    <3> QED
      BY <1>1, <1>3, <1>4, <3>1 DEF Owned
  <2> QED
    BY <1>1, <1>7, <2>1, <2>2, <2>3 DEF Owned
<1> QED
  BY <1>3, <1>4, <1>5, <1>6, <1>7, <1>9, <1>10 DEF Good

\* The event is no part of the accesses.
LEMMA SignalFits ==
    ASSUME NEW q, Fits(q), NEW b \in BOOLEAN
    PROVE  LET p == [q EXCEPT !.signal = b]
           IN  /\ Fits(p) /\ p.tid = q.tid /\ p.shared = q.shared
               /\ p.exclusive = q.exclusive /\ p.signal = b /\ StackOf(p) = StackOf(q)
<1> DEFINE p == [q EXCEPT !.signal = b]
<1>1. q \in Requests
  BY DEF Fits
<1>2. /\ p \in Requests /\ p.tid = q.tid /\ p.shared = q.shared
      /\ p.exclusive = q.exclusive /\ p.signal = b /\ p.nesting = q.nesting
  BY <1>1 DEF Requests
<1> HIDE DEF p
<1>3. RequestCount(p) = RequestCount(q) /\ StackOf(p) = StackOf(q)
  BY <1>2 DEF RequestCount, StackOf
<1>4. Fits(p)
  BY <1>2, <1>3 DEF Fits
<1> QED
  BY <1>2, <1>3, <1>4 DEF p

\* A request that is constructed has one access, whatever was in the memory.
LEMMA ConstructFits ==
    ASSUME NEW q \in Requests, NEW t \in Threads, NEW kind \in Kinds
    PROVE  LET p == Add([q EXCEPT !.tid = t, !.shared = 0, !.exclusive = 0], kind)
           IN  /\ Fits(p) /\ p.tid = t /\ p.signal = q.signal
               /\ RequestCount(p) = 1 /\ StackOf(p) = <<kind>>
<1> DEFINE o == [q EXCEPT !.tid = t, !.shared = 0, !.exclusive = 0]
<1>1. /\ o \in Requests /\ o.tid = t /\ o.shared = 0 /\ o.exclusive = 0
      /\ o.signal = q.signal
  BY DEF Requests
<1> HIDE DEF o
<1>2. RequestCount(o) = 0
  BY <1>1 DEF RequestCount
<1>3. StackOf(o) \in Seq(Kinds) /\ Len(StackOf(o)) = 0
  BY <1>1, <1>2, StackType
<1>4. StackOf(o) = <<>>
  BY <1>3, EmptySeq
<1>5. Positions(<<>>, "shared") = {} /\ Positions(<<>>, "exclusive") = {}
  BY DEF Positions
<1>6. Fits(o)
  <2>1. Cardinality({}) = 0 /\ 0 <= MaxNest
    BY FS_EmptySet, RequestListsAssumption
  <2>2. /\ Cardinality(Positions(StackOf(o), "shared")) = 0
        /\ Cardinality(Positions(StackOf(o), "exclusive")) = 0
    BY <1>4, <1>5, <2>1
  <2> QED
    BY <1>1, <1>2, <2>1, <2>2 DEF Fits
<1>7. 0 < MaxNest
  BY RequestListsAssumption
<1>8. Fits(Add(o, kind))
  BY <1>2, <1>6, <1>7, AddFits
<1>9. /\ Add(o, kind).tid = t /\ Add(o, kind).signal = q.signal
      /\ RequestCount(Add(o, kind)) = 1
  BY <1>1, <1>2, AddFields
<1>10. StackOf(Add(o, kind)) = Append(<<>>, kind)
  BY <1>1, <1>2, <1>4, <1>7, AddPushes
<1>11. Append(<<>>, kind) = <<kind>>
  OBVIOUS
<1> QED
  BY <1>8, <1>9, <1>10, <1>11 DEF o

-----------------------------------------------------------------------------
(* The operations on a list                                                *)

LEMMA ConsList ==
    ASSUME NEW S, NEW s \in Seq(S), IsInjective(s), NEW x \in S, x \notin Range(s)
    PROVE  /\ <<x>> \o s \in Seq(S) /\ IsInjective(<<x>> \o s)
           /\ OneMore(Range(<<x>> \o s), Range(s), x)
<1> DEFINE r == <<x>> \o s
<1>1. /\ r \in Seq(S) /\ Len(s) \in Nat /\ Len(r) = Len(s) + 1
      /\ DOMAIN s = 1 .. Len(s) /\ DOMAIN r = 1 .. Len(s) + 1
      /\ r[1] = x /\ \A i \in 1 .. Len(s) : r[i + 1] = s[i]
  OBVIOUS
<1> HIDE DEF r
<1>2. \A i \in 2 .. Len(s) + 1 : i - 1 \in 1 .. Len(s) /\ r[i] = s[i - 1]
  <2>1. ASSUME NEW i \in 2 .. Len(s) + 1
        PROVE  i - 1 \in 1 .. Len(s) /\ r[i] = s[i - 1]
    <3>1. i - 1 \in 1 .. Len(s) /\ (i - 1) + 1 = i
      BY <1>1
    <3> QED
      BY <1>1, <3>1
  <2> QED
    BY <2>1
<1>3. \A i \in 1 .. Len(s) + 1 : i = 1 \/ i \in 2 .. Len(s) + 1
  BY <1>1
<1>4. \A i \in 1 .. Len(s) : s[i] # x
  BY <1>1 DEF Range
<1>5. \A i, j \in 1 .. Len(s) : s[i] = s[j] => i = j
  BY <1>1 DEF IsInjective
<1>6. IsInjective(r)
  <2> SUFFICES ASSUME NEW i \in 1 .. Len(s) + 1, NEW j \in 1 .. Len(s) + 1, r[i] = r[j]
               PROVE  i = j
    BY <1>1 DEF IsInjective
  <2>1. CASE i = 1 \/ j = 1
    BY <1>1, <1>2, <1>3, <1>4, <2>1
  <2>2. CASE i # 1 /\ j # 1
    <3>1. i - 1 = j - 1
      BY <1>2, <1>3, <1>5, <2>2
    <3> QED
      BY <1>1, <3>1
  <2> QED
    BY <2>1, <2>2
<1>7. Range(r) \subseteq Range(s) \cup {x}
  BY <1>1, <1>2, <1>3 DEF Range
<1>8. Range(s) \subseteq Range(r)
  <2> SUFFICES ASSUME NEW i \in 1 .. Len(s)
               PROVE  s[i] \in Range(r)
    BY <1>1 DEF Range
  <2>1. i + 1 \in DOMAIN r /\ r[i + 1] = s[i]
    BY <1>1
  <2> QED
    BY <2>1 DEF Range
<1>9. x \in Range(r)
  BY <1>1 DEF Range
<1>10. OneMore(Range(r), Range(s), x)
  BY <1>7, <1>8, <1>9 DEF OneMore
<1> QED
  BY <1>1, <1>6, <1>10 DEF r

LEMMA AppendList ==
    ASSUME NEW S, NEW s \in Seq(S), IsInjective(s), NEW x \in S, x \notin Range(s)
    PROVE  /\ Append(s, x) \in Seq(S) /\ IsInjective(Append(s, x))
           /\ OneMore(Range(Append(s, x)), Range(s), x)
<1> DEFINE r == Append(s, x)
<1>1. /\ r \in Seq(S) /\ Len(s) \in Nat /\ Len(r) = Len(s) + 1
      /\ DOMAIN s = 1 .. Len(s) /\ DOMAIN r = 1 .. Len(s) + 1
      /\ r[Len(s) + 1] = x /\ \A i \in 1 .. Len(s) : r[i] = s[i]
  OBVIOUS
<1> HIDE DEF r
<1>2. \A i \in 1 .. Len(s) + 1 : i = Len(s) + 1 \/ i \in 1 .. Len(s)
  BY <1>1
<1>3. \A i \in 1 .. Len(s) : s[i] # x
  BY <1>1 DEF Range
<1>4. \A i, j \in 1 .. Len(s) : s[i] = s[j] => i = j
  BY <1>1 DEF IsInjective
<1>5. IsInjective(r)
  BY <1>1, <1>2, <1>3, <1>4 DEF IsInjective
<1>6. Range(r) \subseteq Range(s) \cup {x}
  BY <1>1, <1>2 DEF Range
<1>7. Range(s) \subseteq Range(r)
  BY <1>1 DEF Range
<1>8. x \in Range(r)
  BY <1>1 DEF Range
<1>9. OneMore(Range(r), Range(s), x)
  BY <1>6, <1>7, <1>8 DEF OneMore
<1> QED
  BY <1>1, <1>5, <1>9 DEF r

LEMMA TailList ==
    ASSUME NEW S, NEW s \in Seq(S), IsInjective(s), s # <<>>
    PROVE  /\ Tail(s) \in Seq(S) /\ IsInjective(Tail(s))
           /\ Head(s) \in Range(s) /\ OneMore(Range(s), Range(Tail(s)), Head(s))
<1> DEFINE r == Tail(s)
<1>1. /\ r \in Seq(S) /\ Len(s) \in Nat \ {0} /\ Len(r) = Len(s) - 1
      /\ DOMAIN s = 1 .. Len(s) /\ DOMAIN r = 1 .. Len(s) - 1
      /\ Head(s) = s[1] /\ \A i \in 1 .. Len(s) - 1 : r[i] = s[i + 1]
  OBVIOUS
<1> HIDE DEF r
<1>2. \A i, j \in 1 .. Len(s) : s[i] = s[j] => i = j
  BY <1>1 DEF IsInjective
<1>3. IsInjective(r)
  BY <1>1, <1>2 DEF IsInjective
<1>4. Head(s) \in Range(s)
  BY <1>1 DEF Range
<1>5. Range(r) \subseteq Range(s) \ {Head(s)}
  <2> SUFFICES ASSUME NEW i \in 1 .. Len(s) - 1
               PROVE  r[i] \in Range(s) /\ r[i] # s[1]
    BY <1>1 DEF Range
  <2>1. i + 1 \in 1 .. Len(s) /\ 1 \in 1 .. Len(s) /\ i + 1 # 1 /\ r[i] = s[i + 1]
    BY <1>1
  <2>2. s[i + 1] # s[1]
    BY <1>2, <2>1
  <2>3. s[i + 1] \in Range(s)
    BY <1>1, <2>1 DEF Range
  <2> QED
    BY <2>1, <2>2, <2>3
<1>6. Range(s) \ {Head(s)} \subseteq Range(r)
  <2> SUFFICES ASSUME NEW i \in 1 .. Len(s), s[i] # s[1]
               PROVE  s[i] \in Range(r)
    BY <1>1 DEF Range
  <2>1. i - 1 \in DOMAIN r /\ (i - 1) + 1 = i
    BY <1>1
  <2>2. r[i - 1] = s[i]
    BY <1>1, <2>1
  <2> QED
    BY <2>1, <2>2 DEF Range
<1>7. OneMore(Range(s), Range(r), Head(s))
  BY <1>4, <1>5, <1>6 DEF OneMore
<1> QED
  BY <1>1, <1>3, <1>4, <1>7 DEF r

LEMMA RemoveList ==
    ASSUME NEW S, NEW s \in Seq(S), IsInjective(s), NEW x \in Range(s)
    PROVE  LET r == RemoveAt(s, CHOOSE i \in DOMAIN s : s[i] = x)
           IN  r \in Seq(S) /\ IsInjective(r) /\ OneMore(Range(s), Range(r), x)
<1> DEFINE h == CHOOSE i \in DOMAIN s : s[i] = x
           r == RemoveAt(s, h)
<1>1. h \in DOMAIN s /\ s[h] = x
  BY DEF Range
<1>2. Len(s) \in Nat /\ DOMAIN s = 1 .. Len(s)
  OBVIOUS
<1> HIDE DEF h
<1>3. r = SubSeq(s, 1, h - 1) \o SubSeq(s, h + 1, Len(s))
  BY DEF RemoveAt
<1>4. /\ SubSeq(s, 1, h - 1) \in Seq(S) /\ Len(SubSeq(s, 1, h - 1)) = h - 1
      /\ \A i \in 1 .. h - 1 : SubSeq(s, 1, h - 1)[i] = s[i]
  BY <1>1, <1>2
<1>5. /\ SubSeq(s, h + 1, Len(s)) \in Seq(S) /\ Len(SubSeq(s, h + 1, Len(s))) = Len(s) - h
      /\ \A i \in 1 .. Len(s) - h : SubSeq(s, h + 1, Len(s))[i] = s[h + i]
  BY <1>1, <1>2
<1>6. /\ r \in Seq(S) /\ Len(r) = Len(s) - 1
      /\ \A i \in 1 .. Len(s) - 1 : r[i] = IF i < h THEN s[i] ELSE s[i + 1]
  <2> DEFINE u == SubSeq(s, 1, h - 1)
             v == SubSeq(s, h + 1, Len(s))
  <2>1. /\ u \in Seq(S) /\ v \in Seq(S) /\ r = u \o v
        /\ Len(u) = h - 1 /\ Len(v) = Len(s) - h
        /\ \A i \in 1 .. h - 1 : u[i] = s[i]
        /\ \A i \in 1 .. Len(s) - h : v[i] = s[h + i]
    BY <1>3, <1>4, <1>5
  <2> HIDE DEF u, v, r
  <2>2. /\ r \in Seq(S) /\ Len(r) = Len(u) + Len(v)
        /\ \A i \in 1 .. Len(u) + Len(v) :
              r[i] = IF i <= Len(u) THEN u[i] ELSE v[i - Len(u)]
    BY <2>1, ConcatProperties
  <2>3. h \in 1 .. Len(s)
    BY <1>1, <1>2
  <2>4. ASSUME NEW i \in 1 .. Len(s) - 1
        PROVE  r[i] = IF i < h THEN s[i] ELSE s[i + 1]
    <3>1. CASE i < h
      BY <1>2, <2>1, <2>2, <2>3, <3>1
    <3>2. CASE ~(i < h)
      <4>1. i - (h - 1) \in 1 .. Len(s) - h /\ h + (i - (h - 1)) = i + 1
        BY <1>2, <2>3, <3>2
      <4>2. r[i] = v[i - (h - 1)]
        <5>1. i \in 1 .. Len(u) + Len(v) /\ ~(i <= Len(u)) /\ Len(u) = h - 1
          BY <1>2, <2>1, <2>3, <3>2
        <5>2. r[i] = v[i - Len(u)]
          BY <2>2, <5>1
        <5> QED
          BY <5>1, <5>2
      <4> QED
        BY <2>1, <3>2, <4>1, <4>2
    <3> QED
      BY <3>1, <3>2
  <2> QED
    BY <1>2, <2>1, <2>2, <2>3, <2>4
<1>7. DOMAIN r = 1 .. Len(s) - 1
  BY <1>6
<1> HIDE DEF r
<1>8. \A i, j \in 1 .. Len(s) : s[i] = s[j] => i = j
  BY <1>2 DEF IsInjective
<1>9. IsInjective(r)
  BY <1>1, <1>2, <1>6, <1>7, <1>8 DEF IsInjective
<1>10. Range(r) \subseteq Range(s) \ {x}
  BY <1>1, <1>2, <1>6, <1>7, <1>8 DEF Range
<1>11. Range(s) \ {x} \subseteq Range(r)
  <2> SUFFICES ASSUME NEW i \in 1 .. Len(s), s[i] # x
               PROVE  s[i] \in Range(r)
    BY <1>2 DEF Range
  <2>1. CASE i < h
    <3>1. i \in 1 .. Len(s) - 1 /\ r[i] = s[i]
      BY <1>1, <1>2, <1>6, <2>1
    <3> QED
      BY <1>7, <3>1 DEF Range
  <2>2. CASE i > h
    <3>1. i - 1 \in 1 .. Len(s) - 1 /\ (i - 1) + 1 = i /\ ~(i - 1 < h)
      BY <1>1, <1>2, <2>2
    <3>2. r[i - 1] = s[i]
      BY <1>6, <3>1
    <3> QED
      BY <1>7, <3>1, <3>2 DEF Range
  <2> QED
    BY <1>1, <1>2, <2>1, <2>2
<1>12. OneMore(Range(s), Range(r), x)
  BY <1>10, <1>11 DEF OneMore
<1> QED
  BY <1>6, <1>9, <1>12 DEF r, h

\* K is L with r in list n too.
PutIn(L, K, n, r) ==
    /\ K.req = L.req
    /\ Range(K.list[n]) = Range(L.list[n]) \cup {r}
    /\ \A k \in Lists : k # n => K.list[k] = L.list[k]

LEMMA AtHead ==
    ASSUME NEW L, NEW X, Good(L, X), NEW n \in Lists, NEW r \in X, MayPut(L, n, r)
    PROVE  /\ Good(AddAtHead(L, n, r), X \ {r}) /\ PutIn(L, AddAtHead(L, n, r), n, r)
           /\ AddAtHead(L, n, r).list[n] = <<r>> \o L.list[n]
<1> DEFINE s == <<r>> \o L.list[n]
           K == AddAtHead(L, n, r)
<1>1. /\ r \in DOMAIN L.req /\ r \notin Range(L.list[n]) /\ L = [f \in Fields |-> L[f]]
      /\ L.list[n] \in Seq(DOMAIN L.req) /\ IsInjective(L.list[n]) /\ Shape(L)
  BY GoodTypes
<1>2. s \in Seq(DOMAIN L.req) /\ IsInjective(s) /\ OneMore(Range(s), Range(L.list[n]), r)
  BY <1>1, ConsList
<1>3. K = Counted([L EXCEPT !.list[n] = s], n, r, 1)
  BY DEF AddAtHead
<1> HIDE DEF s, K
<1>4. Moved(L, K, n, s, r, 1)
  BY <1>1, <1>3, CountedMoves
<1>5. Good(K, X \ {r})
  BY <1>2, <1>4, PutGood
<1>6. K.req = L.req /\ K.list[n] = s /\ \A k \in Lists : k # n => K.list[k] = L.list[k]
  BY <1>1, <1>4, MovedLists
<1>7. PutIn(L, K, n, r)
  BY <1>2, <1>6 DEF PutIn, OneMore
<1> QED
  BY <1>5, <1>6, <1>7 DEF K, s

LEMMA AtTail ==
    ASSUME NEW L, NEW X, Good(L, X), NEW n \in Lists, NEW r \in X, MayPut(L, n, r)
    PROVE  /\ Good(AddAtTail(L, n, r), X \ {r}) /\ PutIn(L, AddAtTail(L, n, r), n, r)
           /\ AddAtTail(L, n, r).list[n] = Append(L.list[n], r)
<1> DEFINE s == Append(L.list[n], r)
           K == AddAtTail(L, n, r)
<1>1. /\ r \in DOMAIN L.req /\ r \notin Range(L.list[n]) /\ L = [f \in Fields |-> L[f]]
      /\ L.list[n] \in Seq(DOMAIN L.req) /\ IsInjective(L.list[n]) /\ Shape(L)
  BY GoodTypes
<1>2. s \in Seq(DOMAIN L.req) /\ IsInjective(s) /\ OneMore(Range(s), Range(L.list[n]), r)
  BY <1>1, AppendList
<1>3. K = Counted([L EXCEPT !.list[n] = s], n, r, 1)
  BY DEF AddAtTail
<1> HIDE DEF s, K
<1>4. Moved(L, K, n, s, r, 1)
  BY <1>1, <1>3, CountedMoves
<1>5. Good(K, X \ {r})
  BY <1>2, <1>4, PutGood
<1>6. K.req = L.req /\ K.list[n] = s /\ \A k \in Lists : k # n => K.list[k] = L.list[k]
  BY <1>1, <1>4, MovedLists
<1>7. PutIn(L, K, n, r)
  BY <1>2, <1>6 DEF PutIn, OneMore
<1> QED
  BY <1>5, <1>6, <1>7 DEF K, s

LEMMA FromHead ==
    ASSUME NEW L, NEW X, Good(L, X), NEW n \in Lists, n # "empty", L.list[n] # <<>>
    PROVE  LET K == RemoveHead(L, n)
               r == Head(L.list[n])
           IN  /\ Good(K, X \cup {r}) /\ K.req = L.req
               /\ K.list = [L.list EXCEPT ![n] = Tail(L.list[n])]
               /\ Range(Tail(L.list[n])) = Range(L.list[n]) \ {r}
               /\ r \in Range(L.list[n]) /\ r \in Busy(L) /\ r \notin X
               /\ RequestCount(L.req[r]) > 0
<1> DEFINE s == Tail(L.list[n])
           r == Head(L.list[n])
           K == RemoveHead(L, n)
<1>1. /\ L = [f \in Fields |-> L[f]]
      /\ L.list[n] \in Seq(DOMAIN L.req) /\ IsInjective(L.list[n])
  BY GoodTypes
<1>2. /\ s \in Seq(DOMAIN L.req) /\ IsInjective(s) /\ OneMore(Range(L.list[n]), Range(s), r)
      /\ r \in Range(L.list[n])
  BY <1>1, TailList
<1>3. K = Counted([L EXCEPT !.list[n] = s], n, r, -1)
  BY DEF RemoveHead
<1> HIDE DEF s, K, r
<1>4. Moved(L, K, n, s, r, -1)
  BY <1>1, <1>3, CountedMoves
<1>5. /\ Good(K, X \cup {r}) /\ r \in Busy(L) /\ r \notin X
      /\ RequestCount(L.req[r]) > 0
  BY <1>2, <1>4, TakeGood
<1>6. K.req = L.req /\ K.list = [L.list EXCEPT ![n] = s]
  BY <1>4 DEF Moved
<1>7. Range(s) = Range(L.list[n]) \ {r}
  BY <1>2 DEF OneMore
<1> QED
  BY <1>2, <1>5, <1>6, <1>7 DEF K, s, r

LEMMA Removed ==
    ASSUME NEW L, NEW X, Good(L, X), NEW n \in Lists, n # "empty", NEW r \in Range(L.list[n])
    PROVE  LET K == RemoveRequest(L, n, r)
           IN  /\ Good(K, X \cup {r}) /\ K.req = L.req
               /\ \A k \in Lists : k # n => K.list[k] = L.list[k]
               /\ Range(K.list[n]) = Range(L.list[n]) \ {r}
               /\ r \in Busy(L) /\ r \notin X /\ RequestCount(L.req[r]) > 0
<1> DEFINE s == RemoveAt(L.list[n], CHOOSE i \in DOMAIN L.list[n] : L.list[n][i] = r)
           K == RemoveRequest(L, n, r)
<1>1. /\ L = [f \in Fields |-> L[f]] /\ Shape(L)
      /\ L.list[n] \in Seq(DOMAIN L.req) /\ IsInjective(L.list[n])
  BY GoodTypes
<1>2. s \in Seq(DOMAIN L.req) /\ IsInjective(s) /\ OneMore(Range(L.list[n]), Range(s), r)
  BY <1>1, RemoveList
<1>3. K = Counted([L EXCEPT !.list[n] = s], n, r, -1)
  BY DEF RemoveRequest
<1> HIDE DEF s, K
<1>4. Moved(L, K, n, s, r, -1)
  BY <1>1, <1>3, CountedMoves
<1>5. /\ Good(K, X \cup {r}) /\ r \in Busy(L) /\ r \notin X
      /\ RequestCount(L.req[r]) > 0
  BY <1>2, <1>4, TakeGood
<1>6. K.req = L.req /\ K.list[n] = s /\ \A k \in Lists : k # n => K.list[k] = L.list[k]
  BY <1>1, <1>4, MovedLists
<1>7. Range(s) = Range(L.list[n]) \ {r}
  BY <1>2 DEF OneMore
<1> QED
  BY <1>5, <1>6, <1>7 DEF K

-----------------------------------------------------------------------------
(* New requests                                                            *)

\* K is L with request r in hand, which was in the pool or did not exist.
Joins(L, K, r) ==
    /\ r \notin Busy(L)
    /\ DOMAIN K.req = DOMAIN L.req \cup {r}
    /\ \A x \in DOMAIN L.req : x # r => K.req[x] = L.req[x]
    /\ \A k \in Lists : k # "empty" => K.list[k] = L.list[k]
    /\ Range(K.list["empty"]) = Range(L.list["empty"]) \ {r}

\* It may be given to a thread that had none.
LEMMA NewGood ==
    ASSUME NEW L, Good(L, {}), NEW t \in Threads, \A x \in Busy(L) : L.req[x].tid # t,
           NEW K, Shape(K), Counts(K), NEW r, Joins(L, K, r),
           Fits(K.req[r]), K.req[r].tid = t
    PROVE  Good(K, {r}) /\ Busy(K) = Busy(L) \cup {r}
<1>0. /\ r \notin Busy(L)
      /\ DOMAIN K.req = DOMAIN L.req \cup {r}
      /\ \A x \in DOMAIN L.req : x # r => K.req[x] = L.req[x]
      /\ \A k \in Lists : k # "empty" => K.list[k] = L.list[k]
      /\ Range(K.list["empty"]) = Range(L.list["empty"]) \ {r}
  BY DEF Joins
<1>1. OnceListed(L, {}) /\ Owned(L, {}) /\ "empty" \in Lists
  BY DEF Good, Lists
<1>2. \A n \in Lists : Range(L.list[n]) \subseteq DOMAIN L.req
  BY GoodTypes
<1>3. \A n \in Lists : r \notin Range(K.list[n])
  <2>1. ASSUME NEW n \in Lists, n # "empty", r \in Range(K.list[n])
        PROVE  FALSE
    <3>1. r \in Range(L.list[n]) /\ r \in DOMAIN L.req
      BY <1>0, <1>2, <2>1
    <3> QED
      BY <1>0, <1>1, <2>1, <3>1 DEF OnceListed, Busy
  <2> QED
    BY <1>0, <2>1
<1>4. \A n \in Lists : Range(K.list[n]) = Range(L.list[n]) \ {r}
  <2>1. ASSUME NEW n \in Lists, n # "empty"
        PROVE  Range(K.list[n]) = Range(L.list[n]) \ {r}
    <3>1. K.list[n] = L.list[n]
      BY <1>0, <2>1
    <3> QED
      BY <1>3, <3>1
  <2> QED
    BY <1>0, <2>1
<1>5. OnceListed(K, {r})
  BY <1>0, <1>1, <1>3, <1>4 DEF OnceListed
<1>6. Busy(K) = Busy(L) \cup {r}
  BY <1>0, <1>1, <1>2, <1>3, <1>4 DEF Busy
<1>7. \A x \in Busy(L) : K.req[x] = L.req[x]
  BY <1>0 DEF Busy
<1>8. \A x \in Range(K.list["empty"]) : ~K.req[x].signal
  BY <1>0, <1>1, <1>2, <1>4 DEF Owned
<1>9. Owned(K, {r})
  <2>1. \A x \in Busy(K) : Fits(K.req[x])
    BY <1>1, <1>6, <1>7 DEF Owned
  <2>2. \A x \in Busy(K) \ {r} : RequestCount(K.req[x]) > 0
    BY <1>1, <1>6, <1>7 DEF Owned
  <2>3. \A x, y \in Busy(K) : K.req[x].tid = K.req[y].tid => x = y
    BY <1>1, <1>6, <1>7 DEF Owned
  <2> QED
    BY <1>8, <2>1, <2>2, <2>3 DEF Owned
<1> QED
  BY <1>5, <1>6, <1>9 DEF Good

LEMMA NewRequest ==
    ASSUME NEW L, Good(L, {}), NEW t \in Threads, \A x \in Busy(L) : L.req[x].tid # t,
           NEW kind \in Kinds, NEW g \in Nat
    PROVE  LET new == Allocate(L, g)
               r == new.request
               K == Construct(new.state, r, t, kind)
           IN  /\ Good(K, {r}) /\ Busy(K) = Busy(L) \cup {r} /\ r \notin Busy(L)
               /\ \A x \in Busy(L) : K.req[x] = L.req[x]
               /\ \A k \in Lists : k # "empty" => K.list[k] = L.list[k]
               /\ K.req[r].tid = t /\ ~K.req[r].signal /\ StackOf(K.req[r]) = <<kind>>
               /\ RequestCount(K.req[r]) = 1
<1> DEFINE new == Allocate(L, g)
           r == new.request
           L1 == new.state
           q == Add([L1.req[r] EXCEPT !.tid = t, !.shared = 0, !.exclusive = 0], kind)
           K == Construct(L1, r, t, kind)
<1>1. /\ Shape(L) /\ Counts(L) /\ Owned(L, {}) /\ L = [f \in Fields |-> L[f]]
      /\ L.req \in Seq(Requests) /\ Len(L.req) \in Nat /\ DOMAIN L.req = 1 .. Len(L.req)
      /\ OnceListed(L, {}) /\ "empty" \in Lists
  BY DEF Good, Shape, Lists
\* Either way L1 is in shape and has the counts of the lists without r.
<1>2. /\ Shape(L1) /\ Counts(L1) /\ r \notin Busy(L) /\ L1.req[r] \in Requests
      /\ ~L1.req[r].signal
      /\ DOMAIN L1.req = DOMAIN L.req \cup {r}
      /\ \A x \in DOMAIN L.req : x # r => L1.req[x] = L.req[x]
      /\ \A k \in Lists : k # "empty" => L1.list[k] = L.list[k]
      /\ Range(L1.list["empty"]) = Range(L.list["empty"]) \ {r}
  <2>1. CASE L.list["empty"] # <<>>
    <3> DEFINE s == Tail(L.list["empty"])
    <3>1. L1 = RemoveHead(L, "empty") /\ r = Head(L.list["empty"])
      BY <2>1 DEF Allocate
    <3>2. L1 = Counted([L EXCEPT !.list["empty"] = s], "empty", r, -1)
      BY <3>1 DEF RemoveHead
    <3>3. /\ s \in Seq(DOMAIN L.req) /\ IsInjective(s)
          /\ OneMore(Range(L.list["empty"]), Range(s), r)
      <4>1. L.list["empty"] \in Seq(DOMAIN L.req) /\ IsInjective(L.list["empty"])
        BY <1>1 DEF Shape
      <4> QED
        BY <2>1, <3>1, <4>1, TailList
    <3>4. /\ r \in DOMAIN L.req /\ r \notin Busy(L) /\ ~L.req[r].signal
          /\ Range(s) = Range(L.list["empty"]) \ {r}
      <4>1. Range(L.list["empty"]) \subseteq DOMAIN L.req
        BY <1>1, GoodTypes
      <4>2. r \in Range(L.list["empty"]) /\ Range(s) = Range(L.list["empty"]) \ {r}
        BY <3>3 DEF OneMore
      <4> QED
        BY <1>1, <4>1, <4>2 DEF Busy, Owned
    <3> HIDE DEF L1, r, s, new
    <3>5. Moved(L, L1, "empty", s, r, -1)
      BY <1>1, <3>2, CountedMoves
    <3>6. Shape(L1)
      BY <1>1, <3>3, <3>4, <3>5, MovedShape
    <3>7. /\ L1.req = L.req /\ L1.list["empty"] = s
          /\ \A k \in Lists : k # "empty" => /\ L1.list[k] = L.list[k]
                                             /\ L1.shared[k] = L.shared[k]
                                             /\ L1.exclusive[k] = L.exclusive[k]
          /\ L1.shared["empty"] = L.shared["empty"] + (-1) * L.req[r].shared
          /\ L1.exclusive["empty"] = L.exclusive["empty"] + (-1) * L.req[r].exclusive
      BY <1>1, <3>5, MovedLists
    <3>8. /\ L.req[r] \in Requests
          /\ L.req[r].shared \in Nat /\ L.req[r].exclusive \in Nat
          /\ L.req[r]["shared"] = L.req[r].shared
          /\ L.req[r]["exclusive"] = L.req[r].exclusive
      BY <1>1, <3>4, CountTypes
    <3>9. Counts(L1)
      <4>1. ASSUME NEW k \in Lists, k # "empty"
            PROVE  /\ Accesses(L1, k, "shared") = Accesses(L, k, "shared")
                   /\ Accesses(L1, k, "exclusive") = Accesses(L, k, "exclusive")
        BY <3>7, <4>1, AccessesSame
      <4>2. OneMoreIn(L1, L, "empty", r)
        BY <3>3, <3>7 DEF OneMoreIn
      <4>3. L1.req[r]["shared"] \in Nat /\ L1.req[r]["exclusive"] \in Nat
        BY <3>7, <3>8
      <4>4. /\ IsFiniteSet(Accesses(L, "empty", "shared"))
            /\ IsFiniteSet(Accesses(L, "empty", "exclusive"))
            /\ L.shared["empty"] = Cardinality(Accesses(L, "empty", "shared"))
            /\ L.exclusive["empty"] = Cardinality(Accesses(L, "empty", "exclusive"))
        BY <1>1 DEF Counts
      <4>5. /\ IsFiniteSet(Accesses(L1, "empty", "shared"))
            /\ MoreBy(Cardinality(Accesses(L1, "empty", "shared")),
                      Cardinality(Accesses(L, "empty", "shared")), L1.req[r]["shared"])
        BY <4>2, <4>3, <4>4, CountsMore
      <4>6. /\ IsFiniteSet(Accesses(L1, "empty", "exclusive"))
            /\ MoreBy(Cardinality(Accesses(L1, "empty", "exclusive")),
                      Cardinality(Accesses(L, "empty", "exclusive")), L1.req[r]["exclusive"])
        BY <4>2, <4>3, <4>4, CountsMore
      <4>7. /\ L1.req[r]["shared"] = L.req[r].shared /\ L.req[r].shared \in Nat
            /\ L1.req[r]["exclusive"] = L.req[r].exclusive /\ L.req[r].exclusive \in Nat
        BY <3>7, <3>8
      <4>8. /\ L1.shared["empty"] = L.shared["empty"] - L.req[r].shared
            /\ L1.exclusive["empty"] = L.exclusive["empty"] - L.req[r].exclusive
        <5>1. L.shared["empty"] \in Int /\ L.exclusive["empty"] \in Int
          BY <1>1 DEF Shape
        <5> QED
          BY <3>7, <4>7, <5>1
      <4>9. /\ L1.shared["empty"] = Cardinality(Accesses(L1, "empty", "shared"))
            /\ L1.exclusive["empty"] = Cardinality(Accesses(L1, "empty", "exclusive"))
        BY <4>4, <4>5, <4>6, <4>7, <4>8 DEF MoreBy
      <4>10. ASSUME NEW k \in Lists
             PROVE  /\ IsFiniteSet(Accesses(L1, k, "shared"))
                    /\ L1.shared[k] = Cardinality(Accesses(L1, k, "shared"))
                    /\ IsFiniteSet(Accesses(L1, k, "exclusive"))
                    /\ L1.exclusive[k] = Cardinality(Accesses(L1, k, "exclusive"))
        <5>1. CASE k = "empty"
          BY <4>5, <4>6, <4>9, <5>1
        <5>2. CASE k # "empty"
          BY <1>1, <3>7, <4>1, <5>2 DEF Counts
        <5> QED
          BY <5>1, <5>2
      <4> QED
        BY <4>10 DEF Counts
    <3> QED
      BY <3>3, <3>4, <3>6, <3>7, <3>8, <3>9
  <2>2. CASE L.list["empty"] = <<>>
    <3>1. L1 = [L EXCEPT !.req = Append(L.req, FreshRequest(g))] /\ r = Len(L.req) + 1
      BY <2>2 DEF Allocate
    <3>2. FreshRequest(g) \in Requests /\ ~FreshRequest(g).signal
      BY DEF FreshRequest, Requests
    <3> HIDE DEF L1, r, new
    <3>3. /\ L1 = [f \in Fields |-> L1[f]] /\ L1.list = L.list /\ L1.shared = L.shared
          /\ L1.exclusive = L.exclusive /\ L1.req = Append(L.req, FreshRequest(g))
      BY <1>1, <3>1 DEF Fields
    <3>4. /\ L1.req \in Seq(Requests) /\ DOMAIN L1.req = DOMAIN L.req \cup {r}
          /\ r \notin DOMAIN L.req /\ L1.req[r] = FreshRequest(g)
          /\ \A x \in DOMAIN L.req : L1.req[x] = L.req[x]
      BY <1>1, <3>1, <3>2, <3>3
    <3>5. L1.list \in [Lists -> Seq(DOMAIN L1.req)]
      <4>1. ASSUME NEW n \in Lists
            PROVE  L.list[n] \in Seq(DOMAIN L1.req)
        <5>1. L.list[n] \in Seq(DOMAIN L.req)
          BY <1>1 DEF Shape
        <5> QED
          BY <3>4, <5>1
      <4>2. L.list \in [Lists -> Seq(DOMAIN L.req)]
        BY <1>1 DEF Shape
      <4> QED
        BY <3>3, <4>1, <4>2
    <3>6. Shape(L1)
      BY <1>1, <3>3, <3>4, <3>5 DEF Shape
    <3>7. \A n \in Lists : Range(L.list[n]) \subseteq DOMAIN L.req
      BY GoodTypes
    <3>8. ASSUME NEW n \in Lists
          PROVE  /\ Accesses(L1, n, "shared") = Accesses(L, n, "shared")
                 /\ Accesses(L1, n, "exclusive") = Accesses(L, n, "exclusive")
      <4>1. Range(L1.list[n]) = Range(L.list[n])
        BY <3>3
      <4>2. \A x \in Range(L.list[n]) : L1.req[x]["shared"] = L.req[x]["shared"]
        BY <3>4, <3>7
      <4>3. \A x \in Range(L.list[n]) : L1.req[x]["exclusive"] = L.req[x]["exclusive"]
        BY <3>4, <3>7
      <4> QED
        BY <4>1, <4>2, <4>3, AccessesSame
    <3>9. Counts(L1)
      BY <1>1, <3>3, <3>8 DEF Counts
    <3>10. r \notin Busy(L) /\ Range(L1.list["empty"]) = Range(L.list["empty"]) \ {r}
      BY <1>1, <3>3, <3>4, <3>7 DEF Busy
    <3> QED
      BY <3>2, <3>3, <3>4, <3>6, <3>9, <3>10
  <2> QED
    BY <2>1, <2>2
<1>3. K = [L1 EXCEPT !.req[r] = q]
  BY DEF Construct
<1>4. /\ Fits(q) /\ q.tid = t /\ q.signal = L1.req[r].signal
      /\ RequestCount(q) = 1 /\ StackOf(q) = <<kind>>
  <2> DEFINE p == L1.req[r]
  <2>1. p \in Requests
    BY <1>2
  <2> HIDE DEF p
  <2>2. LET o == Add([p EXCEPT !.tid = t, !.shared = 0, !.exclusive = 0], kind)
        IN  /\ Fits(o) /\ o.tid = t /\ o.signal = p.signal
            /\ RequestCount(o) = 1 /\ StackOf(o) = <<kind>>
    BY <2>1, ConstructFits
  <2> QED
    BY <2>2 DEF p
<1> HIDE DEF new, r, L1, q, K
<1>5. /\ L1.req \in Seq(Requests) /\ L1 = [f \in Fields |-> L1[f]] /\ r \in DOMAIN L1.req
      /\ q \in Requests
  BY <1>2, <1>4 DEF Shape, Fits
<1>6. /\ K = [f \in Fields |-> K[f]] /\ K.list = L1.list /\ K.shared = L1.shared
      /\ K.exclusive = L1.exclusive /\ K.req = [L1.req EXCEPT ![r] = q]
  BY <1>3, <1>5 DEF Fields
<1>7. /\ K.req \in Seq(Requests) /\ DOMAIN K.req = DOMAIN L1.req /\ K.req[r] = q
      /\ \A x \in DOMAIN L1.req : x # r => K.req[x] = L1.req[x]
  <2> DEFINE old == L1.req
             new1 == K.req
  <2>1. /\ old \in Seq(Requests) /\ r \in DOMAIN old /\ q \in Requests
        /\ new1 = [old EXCEPT ![r] = q]
    BY <1>5, <1>6
  <2> HIDE DEF old, new1
  <2>2. /\ new1 \in Seq(Requests) /\ DOMAIN new1 = DOMAIN old /\ new1[r] = q
        /\ \A x \in DOMAIN old : x # r => new1[x] = old[x]
    BY <2>1
  <2> QED
    BY <2>2 DEF old, new1
<1>8. Shape(K)
  BY <1>2, <1>6, <1>7 DEF Shape
<1>9. \A n \in Lists : r \notin Range(L1.list[n]) /\ Range(L1.list[n]) \subseteq DOMAIN L1.req
  <2> SUFFICES ASSUME NEW n \in Lists
               PROVE  r \notin Range(L1.list[n]) /\ Range(L1.list[n]) \subseteq DOMAIN L1.req
    OBVIOUS
  <2>1. L1.list[n] \in Seq(DOMAIN L1.req)
    BY <1>2 DEF Shape
  <2>2. Range(L1.list[n]) \subseteq DOMAIN L1.req
    BY <2>1 DEF Range
  <2>3. CASE n = "empty"
    BY <1>2, <2>2, <2>3
  <2>4. CASE n # "empty"
    BY <1>2, <2>2, <2>4, GoodTypes
  <2> QED
    BY <2>3, <2>4
<1>10. \A n \in Lists : /\ Accesses(K, n, "shared") = Accesses(L1, n, "shared")
                        /\ Accesses(K, n, "exclusive") = Accesses(L1, n, "exclusive")
  BY <1>6, <1>7, <1>9, AccessesSame
<1>11. Counts(K)
  BY <1>2, <1>6, <1>10 DEF Counts
<1>12. /\ DOMAIN K.req = DOMAIN L.req \cup {r}
       /\ \A x \in DOMAIN L.req : x # r => K.req[x] = L.req[x]
       /\ \A k \in Lists : k # "empty" => K.list[k] = L.list[k]
       /\ Range(K.list["empty"]) = Range(L.list["empty"]) \ {r}
  BY <1>2, <1>6, <1>7
<1>13. Good(K, {r}) /\ Busy(K) = Busy(L) \cup {r}
  <2>1. Joins(L, K, r)
    BY <1>2, <1>12 DEF Joins
  <2>2. Fits(K.req[r]) /\ K.req[r].tid = t
    BY <1>4, <1>7
  <2> QED
    BY <1>8, <1>11, <2>1, <2>2, NewGood
<1>14. \A x \in Busy(L) : K.req[x] = L.req[x]
  BY <1>2, <1>12 DEF Busy
<1> QED
  BY <1>2, <1>4, <1>7, <1>12, <1>13, <1>14 DEF K, L1, r, new

-----------------------------------------------------------------------------
(* What AccessManager sees of the lists                                    *)

\* The request of a thread, and a thread without one
LEMMA Views ==
    ASSUME NEW L, NEW X, Good(L, X), NEW t \in Threads
    PROVE  /\ \A r \in Busy(L) : L.req[r].tid = t =>
                 /\ RequestOf(L, t) = r /\ r # NULL
                 /\ NestingOf(L)[t] = StackOf(L.req[r])
                 /\ SignalOf(L)[t] = L.req[r].signal
           /\ (\A r \in Busy(L) : L.req[r].tid # t) =>
                 NestingOf(L)[t] = <<>> /\ SignalOf(L)[t] = FALSE
<1> DEFINE found == {r \in Busy(L) : L.req[r].tid = t}
<1>1. RequestOf(L, t) = IF found = {} THEN NULL ELSE CHOOSE r \in found : TRUE
  BY DEF RequestOf, Busy
<1>2. ASSUME NEW r \in Busy(L), L.req[r].tid = t
      PROVE  /\ RequestOf(L, t) = r /\ r # NULL
             /\ NestingOf(L)[t] = StackOf(L.req[r])
             /\ SignalOf(L)[t] = L.req[r].signal
  <2>1. r \in found /\ \A x \in found : x = r
    BY <1>2 DEF Good, Owned
  <2> HIDE DEF found
  <2>2. RequestOf(L, t) = r
    BY <1>1, <2>1
  <2>3. r # NULL
    BY DEF Busy, Good, Shape, NULL
  <2>4. L.req[r].signal \in BOOLEAN
    BY GoodTypes DEF Requests
  <2> QED
    BY <2>2, <2>3, <2>4 DEF NestingOf, SignalOf
<1>3. ASSUME \A r \in Busy(L) : L.req[r].tid # t
      PROVE  NestingOf(L)[t] = <<>> /\ SignalOf(L)[t] = FALSE
  <2>1. RequestOf(L, t) = NULL
    BY <1>1, <1>3
  <2> QED
    BY <2>1 DEF NestingOf, SignalOf
<1> QED
  BY <1>2, <1>3

LEMMA ViewOf ==
    ASSUME NEW L, NEW X, Good(L, X), NEW r \in Busy(L)
    PROVE  /\ RequestOf(L, L.req[r].tid) = r
           /\ NestingOf(L)[L.req[r].tid] = StackOf(L.req[r])
           /\ SignalOf(L)[L.req[r].tid] = L.req[r].signal
<1> DEFINE t == L.req[r].tid
<1>1. t \in Threads /\ L.req[r].tid = t
  BY GoodTypes
<1> HIDE DEF t
<1>2. /\ RequestOf(L, t) = r
      /\ NestingOf(L)[t] = StackOf(L.req[r]) /\ SignalOf(L)[t] = L.req[r].signal
  BY <1>1, Views
<1> QED
  BY <1>2 DEF t

LEMMA ViewTypes ==
    ASSUME NEW L, NEW X, Good(L, X)
    PROVE  /\ NestingOf(L) \in [Threads -> Seq(Kinds)]
           /\ SignalOf(L) \in [Threads -> BOOLEAN]
           /\ NestingOf(L) = [t \in Threads |-> NestingOf(L)[t]]
           /\ SignalOf(L) = [t \in Threads |-> SignalOf(L)[t]]
<1>1. ASSUME NEW t \in Threads
      PROVE  NestingOf(L)[t] \in Seq(Kinds) /\ SignalOf(L)[t] \in BOOLEAN
  <2>1. CASE \E r \in Busy(L) : L.req[r].tid = t
    <3>1. PICK r \in Busy(L) : L.req[r].tid = t
      BY <2>1
    <3>2. L.req[r] \in Requests
      BY GoodTypes
    <3>3. StackOf(L.req[r]) \in Seq(Kinds) /\ L.req[r].signal \in BOOLEAN
      BY <3>2, StackType DEF Requests
    <3> QED
      BY <3>1, <3>3, Views
  <2>2. CASE \A r \in Busy(L) : L.req[r].tid # t
    <3>1. <<>> \in Seq(Kinds) /\ FALSE \in BOOLEAN
      OBVIOUS
    <3> QED
      BY <2>2, <3>1, Views
  <2> QED
    BY <2>1, <2>2
<1>2. /\ NestingOf(L) = [t \in Threads |-> NestingOf(L)[t]]
      /\ SignalOf(L) = [t \in Threads |-> SignalOf(L)[t]]
  BY DEF NestingOf, SignalOf
<1> QED
  BY <1>1, <1>2

\* All but t's request are the same.
SameOthers(L, K, t) ==
    /\ \A x \in Busy(L) : L.req[x].tid # t =>
          /\ x \in Busy(K) /\ K.req[x].tid = L.req[x].tid
          /\ StackOf(K.req[x]) = StackOf(L.req[x]) /\ K.req[x].signal = L.req[x].signal
    /\ \A x \in Busy(K) : K.req[x].tid # t => x \in Busy(L) /\ L.req[x].tid # t

LEMMA ViewsChange ==
    ASSUME NEW L, NEW X, Good(L, X), NEW K, NEW Y, Good(K, Y),
           NEW t \in Threads, SameOthers(L, K, t)
    PROVE  /\ NestingOf(K) = [NestingOf(L) EXCEPT ![t] = NestingOf(K)[t]]
           /\ SignalOf(K) = [SignalOf(L) EXCEPT ![t] = SignalOf(K)[t]]
<1>1. ASSUME NEW u \in Threads, u # t
      PROVE  NestingOf(K)[u] = NestingOf(L)[u] /\ SignalOf(K)[u] = SignalOf(L)[u]
  <2>1. CASE \E x \in Busy(L) : L.req[x].tid = u
    <3>1. PICK x \in Busy(L) : L.req[x].tid = u
      BY <2>1
    <3>2. /\ x \in Busy(K) /\ K.req[x].tid = u
          /\ StackOf(K.req[x]) = StackOf(L.req[x]) /\ K.req[x].signal = L.req[x].signal
      BY <1>1, <3>1 DEF SameOthers
    <3>3. NestingOf(L)[u] = StackOf(L.req[x]) /\ SignalOf(L)[u] = L.req[x].signal
      BY <3>1, Views
    <3>4. NestingOf(K)[u] = StackOf(K.req[x]) /\ SignalOf(K)[u] = K.req[x].signal
      BY <3>2, Views
    <3> QED
      BY <3>2, <3>3, <3>4
  <2>2. CASE \A x \in Busy(L) : L.req[x].tid # u
    <3>1. ASSUME NEW x \in Busy(K), K.req[x].tid = u
          PROVE  FALSE
      <4>1. x \in Busy(L) /\ L.req[x].tid # t
        BY <1>1, <3>1 DEF SameOthers
      <4>2. K.req[x].tid = L.req[x].tid
        BY <4>1 DEF SameOthers
      <4> QED
        BY <2>2, <3>1, <4>1, <4>2
    <3>2. NestingOf(K)[u] = <<>> /\ SignalOf(K)[u] = FALSE
      BY <3>1, Views
    <3>3. NestingOf(L)[u] = <<>> /\ SignalOf(L)[u] = FALSE
      BY <2>2, Views
    <3> QED
      BY <3>2, <3>3
  <2> QED
    BY <2>1, <2>2
<1>2. /\ NestingOf(L) = [u \in Threads |-> NestingOf(L)[u]]
      /\ SignalOf(L) = [u \in Threads |-> SignalOf(L)[u]]
      /\ NestingOf(K) = [u \in Threads |-> NestingOf(K)[u]]
      /\ SignalOf(K) = [u \in Threads |-> SignalOf(K)[u]]
  BY ViewTypes
<1> QED
  BY <1>1, <1>2

\* A request only moves between lists: nobody's accesses change.
LEMMA ViewsSame ==
    ASSUME NEW L, NEW K, K.req = L.req, K.list["empty"] = L.list["empty"]
    PROVE  /\ Busy(K) = Busy(L) /\ NestingOf(K) = NestingOf(L) /\ SignalOf(K) = SignalOf(L)
           /\ \A t : RequestOf(K, t) = RequestOf(L, t)
<1>1. \A t : RequestOf(K, t) = RequestOf(L, t)
  BY DEF RequestOf
<1>2. Busy(K) = Busy(L)
  BY DEF Busy
<1> QED
  BY <1>1, <1>2 DEF NestingOf, SignalOf

\* The threads in a list
LEMMA ThreadsLess ==
    ASSUME NEW L, NEW X, Good(L, X), NEW n \in Lists, n # "empty", NEW K,
           NEW r \in Range(L.list[n]), Range(K.list[n]) = Range(L.list[n]) \ {r},
           K.req = L.req
    PROVE  ThreadsIn(K, n) = ThreadsIn(L, n) \ {L.req[r].tid}
<1>1. \A x, y \in Range(L.list[n]) : L.req[x].tid = L.req[y].tid => x = y
  BY GoodTypes DEF Good, Owned
<1> QED
  BY <1>1 DEF ThreadsIn

LEMMA ThreadsSame ==
    ASSUME NEW L, NEW K, NEW n, K.list[n] = L.list[n],
           \A x \in Range(L.list[n]) : K.req[x].tid = L.req[x].tid
    PROVE  ThreadsIn(K, n) = ThreadsIn(L, n)
  BY DEF ThreadsIn

\* A thread is in a list exactly if its request is.
LEMMA ThreadsOf ==
    ASSUME NEW L, NEW X, Good(L, X), NEW n \in Lists, n # "empty", NEW r \in Busy(L)
    PROVE  L.req[r].tid \in ThreadsIn(L, n) <=> r \in Range(L.list[n])
<1>1. Range(L.list[n]) \subseteq Busy(L)
  BY GoodTypes
<1> QED
  BY <1>1 DEF Good, Owned, ThreadsIn

\* Find finds it.
LEMMA FindRequest ==
    ASSUME NEW L, NEW X, Good(L, X), NEW n \in Lists, n # "empty", NEW t
    PROVE  /\ Find(L, n, t) # NULL <=> t \in ThreadsIn(L, n)
           /\ t \in ThreadsIn(L, n) =>
                 /\ Find(L, n, t) \in Range(L.list[n]) /\ Find(L, n, t) \in Busy(L)
                 /\ L.req[Find(L, n, t)].tid = t /\ t \in Threads
                 /\ RequestOf(L, t) = Find(L, n, t)
                 /\ NestingOf(L)[t] = StackOf(L.req[Find(L, n, t)])
                 /\ SignalOf(L)[t] = L.req[Find(L, n, t)].signal
<1> DEFINE found == {r \in Range(L.list[n]) : L.req[r].tid = t}
<1>1. Find(L, n, t) = IF found = {} THEN NULL ELSE CHOOSE r \in found : TRUE
  BY DEF Find
<1>2. Range(L.list[n]) \subseteq Busy(L) /\ Busy(L) \subseteq DOMAIN L.req
  BY GoodTypes
<1>3. \A r \in Busy(L) : r # NULL
  BY DEF Busy, Good, Shape, NULL
<1>4. t \in ThreadsIn(L, n) <=> found # {}
  BY DEF ThreadsIn
<1>5. ASSUME t \in ThreadsIn(L, n)
      PROVE  /\ Find(L, n, t) \in Range(L.list[n]) /\ Find(L, n, t) \in Busy(L)
             /\ L.req[Find(L, n, t)].tid = t /\ t \in Threads /\ Find(L, n, t) # NULL
  <2>1. Find(L, n, t) \in found
    BY <1>1, <1>4, <1>5
  <2>2. Find(L, n, t) \in Range(L.list[n]) /\ L.req[Find(L, n, t)].tid = t
    BY <2>1
  <2> QED
    BY <1>2, <1>3, <2>2, GoodTypes
<1>6. t \notin ThreadsIn(L, n) => Find(L, n, t) = NULL
  BY <1>1, <1>4
<1>7. t \in ThreadsIn(L, n) => /\ RequestOf(L, t) = Find(L, n, t)
                               /\ NestingOf(L)[t] = StackOf(L.req[Find(L, n, t)])
                               /\ SignalOf(L)[t] = L.req[Find(L, n, t)].signal
  BY <1>5, Views
<1> QED
  BY <1>5, <1>6, <1>7

\* The pending list
LEMMA PendingList ==
    ASSUME NEW L, NEW X, Good(L, X)
    PROVE  /\ PendingOf(L) \in Seq(Threads) /\ Len(PendingOf(L)) = Len(L.list["pending"])
           /\ PendingOf(L) = <<>> <=> L.list["pending"] = <<>>
           /\ L.list["pending"] # <<>> =>
                 Head(PendingOf(L)) = L.req[Head(L.list["pending"])].tid
<1> DEFINE s == L.list["pending"]
<1>1. s \in Seq(DOMAIN L.req) /\ "pending" \in Lists \ {"empty"}
  BY GoodTypes DEF Lists
<1>2. \A i \in DOMAIN s : s[i] \in Busy(L)
  BY <1>1, GoodTypes DEF Range
<1>3. \A i \in DOMAIN s : L.req[s[i]].tid \in Threads
  BY <1>2, GoodTypes
<1>4. PendingOf(L) = [i \in DOMAIN s |-> L.req[s[i]].tid]
  BY DEF PendingOf
<1> HIDE DEF s
<1>5. DOMAIN s = 1 .. Len(s) /\ Len(s) \in Nat /\ (s = <<>> <=> Len(s) = 0)
  BY <1>1, EmptySeq
<1>6. PendingOf(L) \in [1 .. Len(s) -> Threads]
  BY <1>3, <1>4, <1>5
<1>7. PendingOf(L) \in Seq(Threads) /\ Len(PendingOf(L)) = Len(s)
  BY <1>5, <1>6
<1>8. PendingOf(L) = <<>> <=> s = <<>>
  BY <1>5, <1>7, EmptySeq
<1>9. s # <<>> => Head(PendingOf(L)) = L.req[Head(s)].tid
  <2> SUFFICES ASSUME s # <<>> PROVE Head(PendingOf(L)) = L.req[Head(s)].tid
    OBVIOUS
  <2>1. 1 \in DOMAIN s /\ Head(s) = s[1] /\ Head(PendingOf(L)) = PendingOf(L)[1]
    BY <1>1, <1>5, <1>7, <1>8
  <2> QED
    BY <1>4, <2>1
<1> QED
  BY <1>7, <1>8, <1>9 DEF s

LEMMA PendingSame ==
    ASSUME NEW L, NEW K, K.list["pending"] = L.list["pending"],
           \A x \in Range(L.list["pending"]) : K.req[x].tid = L.req[x].tid
    PROVE  PendingOf(K) = PendingOf(L)
  BY DEF PendingOf, Range

\* A request is put into a list.
PutSeen(L, K, n, r) ==
    /\ Busy(K) = Busy(L) /\ NestingOf(K) = NestingOf(L) /\ SignalOf(K) = SignalOf(L)
    /\ ThreadsIn(K, n) = ThreadsIn(L, n) \cup {L.req[r].tid}
    /\ \A k \in Lists : k # n => ThreadsIn(K, k) = ThreadsIn(L, k)
    /\ n # "pending" => PendingOf(K) = PendingOf(L)

LEMMA PutViews ==
    ASSUME NEW L, NEW K, NEW n \in Lists \ {"empty"}, NEW r, PutIn(L, K, n, r)
    PROVE  PutSeen(L, K, n, r)
<1>1. /\ K.req = L.req
      /\ Range(K.list[n]) = Range(L.list[n]) \cup {r}
      /\ \A k \in Lists : k # n => K.list[k] = L.list[k]
      /\ "pending" \in Lists /\ "empty" \in Lists /\ n # "empty"
  BY DEF PutIn, Lists
<1>2. Busy(K) = Busy(L) /\ NestingOf(K) = NestingOf(L) /\ SignalOf(K) = SignalOf(L)
  BY <1>1, ViewsSame
<1>3. ThreadsIn(K, n) = ThreadsIn(L, n) \cup {L.req[r].tid}
  BY <1>1 DEF ThreadsIn
<1>4. ASSUME NEW k \in Lists, k # n
      PROVE  ThreadsIn(K, k) = ThreadsIn(L, k)
  BY <1>1, <1>4 DEF ThreadsIn
<1>5. n # "pending" => PendingOf(K) = PendingOf(L)
  BY <1>1 DEF PendingOf
<1> QED
  BY <1>2, <1>3, <1>4, <1>5 DEF PutSeen

LEMMA PendingTail ==
    ASSUME NEW L, NEW X, Good(L, X), NEW K, K.req = L.req, L.list["pending"] # <<>>,
           K.list["pending"] = Tail(L.list["pending"])
    PROVE  PendingOf(K) = Tail(PendingOf(L))
<1> DEFINE s == L.list["pending"]
           r == K.list["pending"]
<1>1. s \in Seq(DOMAIN L.req)
  BY GoodTypes DEF Lists
<1>2. /\ PendingOf(L) \in Seq(Threads) /\ Len(PendingOf(L)) = Len(s)
      /\ PendingOf(L) # <<>>
  BY PendingList
<1>3. PendingOf(L) = [i \in DOMAIN s |-> L.req[s[i]].tid]
      /\ PendingOf(K) = [i \in DOMAIN r |-> L.req[r[i]].tid]
  BY DEF PendingOf
<1>4. s # <<>> /\ r = Tail(s)
  OBVIOUS
<1> HIDE DEF s, r
<1>5. /\ r \in Seq(DOMAIN L.req) /\ Len(s) \in Nat \ {0} /\ Len(r) = Len(s) - 1
      /\ DOMAIN s = 1 .. Len(s) /\ DOMAIN r = 1 .. Len(s) - 1
      /\ \A i \in 1 .. Len(s) - 1 : r[i] = s[i + 1]
  BY <1>1, <1>4
<1>6. /\ Tail(PendingOf(L)) \in Seq(Threads)
      /\ DOMAIN Tail(PendingOf(L)) = 1 .. Len(s) - 1
      /\ \A i \in 1 .. Len(s) - 1 : Tail(PendingOf(L))[i] = PendingOf(L)[i + 1]
  BY <1>2
<1>7. \A i \in 1 .. Len(s) - 1 : i + 1 \in DOMAIN s /\ i \in DOMAIN r
  BY <1>5
<1>8. \A i \in 1 .. Len(s) - 1 : PendingOf(K)[i] = Tail(PendingOf(L))[i]
  BY <1>3, <1>5, <1>6, <1>7
<1>9. /\ Tail(PendingOf(L)) = [i \in 1 .. Len(s) - 1 |-> Tail(PendingOf(L))[i]]
      /\ PendingOf(K) = [i \in 1 .. Len(s) - 1 |-> PendingOf(K)[i]]
  BY <1>3, <1>5, <1>6
<1> QED
  BY <1>8, <1>9

\* K is L with x as the last pending request.
PutLast(L, K, x) == K.req = L.req /\ K.list["pending"] = Append(L.list["pending"], x)

LEMMA PendingAppend ==
    ASSUME NEW L, NEW X, Good(L, X), NEW x \in Busy(L), NEW K, PutLast(L, K, x)
    PROVE  PendingOf(K) = PendingOf(L) \o <<L.req[x].tid>>
<1> DEFINE s == L.list["pending"]
           r == K.list["pending"]
           p == PendingOf(L) \o <<L.req[x].tid>>
<1>1. s \in Seq(DOMAIN L.req) /\ x \in DOMAIN L.req /\ L.req[x].tid \in Threads
  BY GoodTypes DEF Lists
<1>2. PendingOf(L) \in Seq(Threads) /\ Len(PendingOf(L)) = Len(s)
  BY PendingList
<1>3. PendingOf(L) = [i \in DOMAIN s |-> L.req[s[i]].tid]
      /\ PendingOf(K) = [i \in DOMAIN r |-> L.req[r[i]].tid]
  BY DEF PendingOf, PutLast
<1>4. r = Append(s, x)
  BY DEF PutLast
<1> HIDE DEF s, r
<1>5. /\ Len(s) \in Nat /\ DOMAIN s = 1 .. Len(s) /\ DOMAIN r = 1 .. Len(s) + 1
      /\ \A i \in 1 .. Len(s) : r[i] = s[i]
      /\ r[Len(s) + 1] = x
  BY <1>1, <1>4
<1>6. /\ p \in Seq(Threads) /\ DOMAIN p = 1 .. Len(s) + 1
      /\ \A i \in 1 .. Len(s) : p[i] = PendingOf(L)[i]
      /\ p[Len(s) + 1] = L.req[x].tid
  BY <1>1, <1>2
<1>7. p = [i \in 1 .. Len(s) + 1 |-> p[i]]
  BY <1>6
<1> HIDE DEF p
<1>8. \A i \in 1 .. Len(s) + 1 : i \in 1 .. Len(s) \/ i = Len(s) + 1
  BY <1>5
<1>9. \A i \in 1 .. Len(s) + 1 : PendingOf(K)[i] = p[i]
  BY <1>3, <1>5, <1>6, <1>8
<1>10. PendingOf(K) = [i \in 1 .. Len(s) + 1 |-> PendingOf(K)[i]]
  BY <1>3, <1>5
<1> QED
  BY <1>7, <1>9, <1>10 DEF p

LEMMA HeadAndTail ==
    ASSUME NEW S, NEW s \in Seq(S), s # <<>>
    PROVE  <<Head(s)>> \o Tail(s) = s
  OBVIOUS

-----------------------------------------------------------------------------
(* SatisfyRequest                                                          *)

\* The counters of a list tell what is in it.
LEMMA CountersTell ==
    ASSUME NEW L, NEW X, Good(L, X), NEW n \in Lists, n # "empty"
    PROVE  /\ L.exclusive[n] = 0 <=> \A r \in Range(L.list[n]) : L.req[r].exclusive = 0
           /\ Count(L, n) \in Nat /\ L.exclusive[n] \in Nat
           /\ Count(L, n) = 0 <=> Range(L.list[n]) = {}
<1>1. /\ Counts(L) /\ Owned(L, X) /\ OnceListed(L, X)
  BY DEF Good
<1>2. /\ Range(L.list[n]) \subseteq Busy(L) /\ Range(L.list[n]) \cap X = {}
      /\ Busy(L) \subseteq DOMAIN L.req /\ Shape(L)
  BY GoodTypes
<1>3. \A r \in Range(L.list[n]) :
          /\ L.req[r].shared \in Nat /\ L.req[r].exclusive \in Nat
          /\ L.req[r]["shared"] = L.req[r].shared
          /\ L.req[r]["exclusive"] = L.req[r].exclusive
  BY <1>2, CountTypes
<1>4. /\ L.exclusive[n] \in Nat /\ (L.exclusive[n] = 0 <=> Accesses(L, n, "exclusive") = {})
      /\ L.shared[n] \in Nat /\ (L.shared[n] = 0 <=> Accesses(L, n, "shared") = {})
  BY <1>1, FS_CardinalityType, FS_EmptySet DEF Counts
<1>5. Accesses(L, n, "exclusive") = {} <=> \A r \in Range(L.list[n]) : L.req[r].exclusive = 0
  <2>1. ASSUME NEW r \in Range(L.list[n]), L.req[r].exclusive # 0
        PROVE  <<r, 1>> \in Accesses(L, n, "exclusive")
    <3>1. 1 \in 1 .. L.req[r]["exclusive"]
      BY <1>3, <2>1
    <3> QED
      BY <3>1 DEF Accesses
  <2>2. ASSUME \A r \in Range(L.list[n]) : L.req[r].exclusive = 0
        PROVE  Accesses(L, n, "exclusive") = {}
    <3>1. \A r \in Range(L.list[n]) : 1 .. L.req[r]["exclusive"] = {}
      BY <1>3, <2>2
    <3> QED
      BY <3>1 DEF Accesses
  <2> QED
    BY <2>1, <2>2
<1>6. Accesses(L, n, "shared") = {} <=> \A r \in Range(L.list[n]) : L.req[r].shared = 0
  <2>1. ASSUME NEW r \in Range(L.list[n]), L.req[r].shared # 0
        PROVE  <<r, 1>> \in Accesses(L, n, "shared")
    <3>1. 1 \in 1 .. L.req[r]["shared"]
      BY <1>3, <2>1
    <3> QED
      BY <3>1 DEF Accesses
  <2>2. ASSUME \A r \in Range(L.list[n]) : L.req[r].shared = 0
        PROVE  Accesses(L, n, "shared") = {}
    <3>1. \A r \in Range(L.list[n]) : 1 .. L.req[r]["shared"] = {}
      BY <1>3, <2>2
    <3> QED
      BY <3>1 DEF Accesses
  <2> QED
    BY <2>1, <2>2
<1>7. \A r \in Range(L.list[n]) : L.req[r].shared + L.req[r].exclusive > 0
  BY <1>1, <1>2 DEF Owned, RequestCount
<1>8. Count(L, n) = 0 <=> L.shared[n] = 0 /\ L.exclusive[n] = 0
  <2> DEFINE a == L.shared[n]
             b == L.exclusive[n]
  <2>1. a \in Nat /\ b \in Nat /\ Count(L, n) = a + b
    BY <1>4 DEF Count
  <2> HIDE DEF a, b
  <2>2. Count(L, n) = 0 <=> a = 0 /\ b = 0
    BY <2>1
  <2> QED
    BY <2>2 DEF a, b
<1>9. Count(L, n) = 0 <=> Range(L.list[n]) = {}
  BY <1>3, <1>4, <1>5, <1>6, <1>7, <1>8
<1> QED
  BY <1>4, <1>5, <1>9 DEF Count

LEMMA ExclusiveStack ==
    ASSUME NEW L, NEW X, Good(L, X), NEW r \in Busy(L)
    PROVE  AM!HasExclusive(NestingOf(L)[L.req[r].tid]) <=> L.req[r].exclusive > 0
<1>1. Fits(L.req[r]) /\ L.req[r].tid \in Threads
  BY GoodTypes
<1>2. NestingOf(L)[L.req[r].tid] = StackOf(L.req[r])
  BY <1>1, Views
<1> QED
  BY <1>1, <1>2, FitsCounts DEF AM!HasExclusive

\* The test with the counters is the one with the stacks.
LEMMA CompatibleTest ==
    ASSUME NEW L, NEW X, Good(L, X), NEW r \in Busy(L)
    PROVE  Compatible(L, r) <=>
              AM!Compatible(L.req[r].tid, ThreadsIn(L, "active"), NestingOf(L))
<1>1. "active" \in Lists /\ "active" # "empty"
  BY DEF Lists
<1>2. Range(L.list["active"]) \subseteq Busy(L)
  BY <1>1, GoodTypes
<1>3. \A x \in Busy(L) : L.req[x].exclusive \in Nat
  BY GoodTypes DEF Requests
<1>4. L.exclusive["active"] = 0 <=>
          \A u \in ThreadsIn(L, "active") : ~AM!HasExclusive(NestingOf(L)[u])
  <2>1. \A x \in Range(L.list["active"]) :
            L.req[x].exclusive = 0 <=> ~AM!HasExclusive(NestingOf(L)[L.req[x].tid])
    BY <1>2, <1>3, ExclusiveStack
  <2>2. L.exclusive["active"] = 0 <=>
            \A x \in Range(L.list["active"]) : L.req[x].exclusive = 0
    BY <1>1, CountersTell
  <2> QED
    BY <2>1, <2>2 DEF ThreadsIn
<1>5. Count(L, "active") > 0 <=> ThreadsIn(L, "active") # {}
  <2>1. Count(L, "active") \in Nat /\ (Count(L, "active") = 0 <=> Range(L.list["active"]) = {})
    BY <1>1, CountersTell
  <2> QED
    BY <2>1 DEF ThreadsIn
<1>6. L.req[r].exclusive > 0 <=> AM!HasExclusive(NestingOf(L)[L.req[r].tid])
  BY ExclusiveStack
<1> QED
  BY <1>4, <1>5, <1>6 DEF Compatible, AM!Compatible

LEMMA PendingTest ==
    ASSUME NEW L, NEW X, Good(L, X)
    PROVE  Count(L, "pending") = 0 <=> PendingOf(L) = <<>>
<1>1. "pending" \in Lists /\ "pending" # "empty" /\ L.list["pending"] \in Seq(DOMAIN L.req)
  BY GoodTypes DEF Lists
<1>2. Range(L.list["pending"]) = {} <=> L.list["pending"] = <<>>
  <2> DEFINE s == L.list["pending"]
  <2>1. s \in Seq(DOMAIN L.req)
    BY <1>1
  <2> HIDE DEF s
  <2>2. s # <<>> => 1 \in DOMAIN s
    BY <2>1
  <2>3. s = <<>> => DOMAIN s = {}
    OBVIOUS
  <2>4. Range(s) = {} <=> s = <<>>
    BY <2>2, <2>3 DEF Range
  <2> QED
    BY <2>4 DEF s
<1> QED
  BY <1>1, <1>2, CountersTell, PendingList

\* K is L with the event of request r set, or reset.
SignalSet(L, K, r, b) == K = [L EXCEPT !.req[r].signal = b]

LEMMA SetSignal ==
    ASSUME NEW L, NEW X, Good(L, X), NEW r \in Busy(L), NEW b \in BOOLEAN,
           NEW K, SignalSet(L, K, r, b)
    PROVE  /\ Good(K, X) /\ K.list = L.list /\ Busy(K) = Busy(L)
           /\ \A x \in DOMAIN L.req : x # r => K.req[x] = L.req[x]
           /\ \A x \in Busy(L) : K.req[x].tid = L.req[x].tid
           /\ NestingOf(K) = NestingOf(L)
           /\ SignalOf(K) = [SignalOf(L) EXCEPT ![L.req[r].tid] = b]
<1> DEFINE q == [L.req[r] EXCEPT !.signal = b]
           t == L.req[r].tid
<1>1. SetTo(L, K, r, q)
  BY DEF SignalSet, SetTo
<1>2. /\ Fits(q) /\ q.tid = L.req[r].tid /\ q.shared = L.req[r].shared
      /\ q.exclusive = L.req[r].exclusive /\ q.signal = b
      /\ StackOf(q) = StackOf(L.req[r])
  BY GoodTypes, SignalFits
<1> HIDE DEF q
<1>3. /\ Good(K, X) /\ K.list = L.list /\ Busy(K) = Busy(L)
      /\ K.req[r] = q /\ \A x \in DOMAIN L.req : x # r => K.req[x] = L.req[x]
  <2>1. Fits(q) /\ SameThread(q, L.req[r]) /\ SameCounts(q, L.req[r])
    BY <1>2 DEF SameThread, SameCounts
  <2> QED
    BY <1>1, <2>1, SetGood
<1>4. \A x \in Busy(L) : K.req[x].tid = L.req[x].tid
  BY <1>2, <1>3, GoodTypes
<1>5. t \in Threads /\ K.req[r].tid = t
  BY <1>2, <1>3, GoodTypes
<1>6. \A x \in Busy(L) : x # r => K.req[x] = L.req[x]
  BY <1>3, GoodTypes
<1>7. SameOthers(L, K, t)
  BY <1>3, <1>4, <1>5, <1>6 DEF SameOthers
<1>8. /\ NestingOf(K) = [NestingOf(L) EXCEPT ![t] = NestingOf(K)[t]]
      /\ SignalOf(K) = [SignalOf(L) EXCEPT ![t] = SignalOf(K)[t]]
  BY <1>3, <1>5, <1>7, ViewsChange
<1>9. NestingOf(L)[t] = StackOf(L.req[r])
  BY <1>5, Views
<1>10. NestingOf(K)[t] = StackOf(q) /\ SignalOf(K)[t] = b
  <2>1. Good(K, X) /\ r \in Busy(K)
    BY <1>3
  <2>2. /\ NestingOf(K)[K.req[r].tid] = StackOf(K.req[r])
        /\ SignalOf(K)[K.req[r].tid] = K.req[r].signal
    BY <2>1, ViewOf
  <2> QED
    BY <1>2, <1>3, <1>5, <2>2
<1>11. NestingOf(L) = [u \in Threads |-> NestingOf(L)[u]]
  BY ViewTypes
<1>12. NestingOf(K) = NestingOf(L)
  BY <1>2, <1>8, <1>9, <1>10, <1>11
<1> QED
  BY <1>3, <1>4, <1>8, <1>10, <1>12

\* SatisfyHead admits the oldest pending request if it is compatible, and signals it.
LEMMA SatisfyHeadEffect ==
    ASSUME NEW L, NEW X, Good(L, X)
    PROVE  LET K == SatisfyHead(L)
               p == PendingOf(L)
               a == ThreadsIn(L, "active")
               ok == p # <<>> /\ AM!Compatible(Head(p), a, NestingOf(L))
           IN  /\ Good(K, X) /\ Busy(K) = Busy(L)
               /\ \A x \in X : K.req[x] = L.req[x]
               /\ NestingOf(K) = NestingOf(L)
               /\ ThreadsIn(K, "suspended") = ThreadsIn(L, "suspended")
               /\ ThreadsIn(K, "active") = IF ok THEN a \cup {Head(p)} ELSE a
               /\ PendingOf(K) = IF ok THEN Tail(p) ELSE p
               /\ SignalOf(K) = IF ok THEN [SignalOf(L) EXCEPT ![Head(p)] = TRUE]
                                      ELSE SignalOf(L)
<1> DEFINE K == SatisfyHead(L)
           p == PendingOf(L)
           a == ThreadsIn(L, "active")
           ok == p # <<>> /\ AM!Compatible(Head(p), a, NestingOf(L))
           r == Head(L.list["pending"])
           L1 == RemoveHead(L, "pending")
<1>0. "pending" \in Lists /\ "active" \in Lists /\ "suspended" \in Lists /\ "empty" \in Lists
  BY DEF Lists
<1>1. CASE L.list["pending"] = <<>>
  <2>1. K = L
    BY <1>1 DEF SatisfyHead
  <2>2. ~ok
    BY <1>1, PendingList
  <2> HIDE DEF K, p, a, ok
  <2> QED
    BY <2>1, <2>2 DEF K, p, a, ok
<1>2. CASE L.list["pending"] # <<>>
  <2>1. /\ Good(L1, X \cup {r}) /\ L1.req = L.req
        /\ L1.list = [L.list EXCEPT !["pending"] = Tail(L.list["pending"])]
        /\ Range(Tail(L.list["pending"])) = Range(L.list["pending"]) \ {r}
        /\ r \in Range(L.list["pending"]) /\ r \in Busy(L) /\ r \notin X
        /\ RequestCount(L.req[r]) > 0
    BY <1>0, <1>2, FromHead
  <2>2. K = IF Compatible(L1, r) THEN Signal(AddAtHead(L1, "active", r), r)
            ELSE AddAtHead(L1, "pending", r)
    BY <1>2 DEF SatisfyHead
  <2>3. p # <<>> /\ Head(p) = L.req[r].tid /\ L.req[r].tid \in Threads
    BY <1>2, <2>1, PendingList, GoodTypes
  <2>4. L.list = [n \in Lists |-> L.list[n]] /\ L.list["pending"] \in Seq(DOMAIN L.req)
    <3>1. L.list \in [Lists -> Seq(DOMAIN L.req)]
      BY DEF Good, Shape
    <3> QED
      BY <1>0, <3>1
  <2> HIDE DEF K, L1, r
  <2>5. /\ L1.list["pending"] = Tail(L.list["pending"])
        /\ \A n \in Lists : n # "pending" => L1.list[n] = L.list[n]
    BY <1>0, <2>1, <2>4
  <2>6. /\ Busy(L1) = Busy(L) /\ NestingOf(L1) = NestingOf(L)
        /\ SignalOf(L1) = SignalOf(L)
    BY <1>0, <2>1, <2>5, ViewsSame
  <2>7. /\ ThreadsIn(L1, "active") = a
        /\ ThreadsIn(L1, "suspended") = ThreadsIn(L, "suspended")
    BY <1>0, <2>1, <2>5, ThreadsSame
  <2>8. PendingOf(L1) = Tail(p)
    BY <1>2, <2>1, <2>5, PendingTail
  <2>9. Compatible(L1, r) <=> ok
    <3>1. r \in Busy(L1) /\ L1.req[r].tid = Head(p)
      BY <2>1, <2>3, <2>6
    <3>2. Compatible(L1, r) <=>
              AM!Compatible(L1.req[r].tid, ThreadsIn(L1, "active"), NestingOf(L1))
      BY <2>1, <3>1, CompatibleTest
    <3> QED
      BY <2>3, <2>6, <2>7, <3>1, <3>2
  <2>10. (X \cup {r}) \ {r} = X
    BY <2>1
  <2>11. CASE ~ok
    <3>1. K = AddAtHead(L1, "pending", r)
      BY <2>2, <2>9, <2>11
    <3>2. Good(K, X) /\ PutIn(L1, K, "pending", r)
          /\ K.list["pending"] = <<r>> \o L1.list["pending"]
      <4> DEFINE Y == X \cup {r}
      <4>1. MayPut(L1, "pending", r) /\ r \in Y /\ Good(L1, Y) /\ Y \ {r} = X
        BY <2>1, <2>10 DEF MayPut
      <4> HIDE DEF Y
      <4>2. /\ Good(AddAtHead(L1, "pending", r), Y \ {r})
            /\ PutIn(L1, AddAtHead(L1, "pending", r), "pending", r)
            /\ AddAtHead(L1, "pending", r).list["pending"] = <<r>> \o L1.list["pending"]
        BY <1>0, <4>1, AtHead
      <4> QED
        BY <3>1, <4>1, <4>2
    <3>4. \A n \in Lists : n # "pending" => K.list[n] = L.list[n]
      BY <2>5, <3>2 DEF PutIn
    <3>5. K.list["pending"] = L.list["pending"]
      <4> DEFINE s == L.list["pending"]
      <4>1. s \in Seq(DOMAIN L.req) /\ s # <<>> /\ r = Head(s) /\ L1.list["pending"] = Tail(s)
        BY <1>2, <2>4, <2>5 DEF r
      <4> HIDE DEF s
      <4>2. <<Head(s)>> \o Tail(s) = s
        BY <4>1, HeadAndTail
      <4> QED
        BY <3>2, <4>1, <4>2 DEF s
    <3>6. K.req = L.req
      BY <2>1, <3>2 DEF PutIn
    <3>7. /\ Busy(K) = Busy(L) /\ NestingOf(K) = NestingOf(L)
          /\ SignalOf(K) = SignalOf(L)
      BY <1>0, <3>4, <3>6, ViewsSame
    <3>8. /\ ThreadsIn(K, "active") = a
          /\ ThreadsIn(K, "suspended") = ThreadsIn(L, "suspended")
      BY <1>0, <3>4, <3>6, ThreadsSame
    <3>9. PendingOf(K) = p
      BY <3>5, <3>6, PendingSame
    <3> HIDE DEF p, a, ok
    <3> QED
      BY <2>11, <3>2, <3>6, <3>7, <3>8, <3>9 DEF K, p, a, ok
  <2>12. CASE ok
    <3> DEFINE L2 == AddAtHead(L1, "active", r)
    <3>1. K = Signal(L2, r)
      BY <2>2, <2>9, <2>12
    <3>2. Good(L2, X) /\ PutIn(L1, L2, "active", r)
      <4> DEFINE Y == X \cup {r}
      <4>1. MayPut(L1, "active", r) /\ r \in Y /\ Good(L1, Y) /\ Y \ {r} = X
        BY <2>1, <2>10 DEF MayPut
      <4> HIDE DEF Y
      <4>2. /\ Good(AddAtHead(L1, "active", r), Y \ {r})
            /\ PutIn(L1, AddAtHead(L1, "active", r), "active", r)
        BY <1>0, <4>1, AtHead
      <4> QED
        BY <4>1, <4>2
    <3> HIDE DEF L2
    <3>5. /\ Busy(L2) = Busy(L1) /\ NestingOf(L2) = NestingOf(L1)
          /\ SignalOf(L2) = SignalOf(L1)
          /\ ThreadsIn(L2, "active") = ThreadsIn(L1, "active") \cup {L1.req[r].tid}
          /\ ThreadsIn(L2, "suspended") = ThreadsIn(L1, "suspended")
          /\ PendingOf(L2) = PendingOf(L1)
      <4>1. "active" \in Lists \ {"empty"}
        BY <1>0
      <4> QED
        BY <1>0, <3>2, <4>1, PutViews DEF PutSeen
    <3>9. r \in Busy(L2) /\ L2.req = L.req /\ L2.req[r].tid = Head(p)
      BY <2>1, <2>3, <2>6, <3>2, <3>5 DEF PutIn
    <3>11. /\ Good(K, X) /\ K.list = L2.list /\ Busy(K) = Busy(L2)
           /\ \A x \in DOMAIN L2.req : x # r => K.req[x] = L2.req[x]
           /\ \A x \in Busy(L2) : K.req[x].tid = L2.req[x].tid
           /\ NestingOf(K) = NestingOf(L2)
           /\ SignalOf(K) = [SignalOf(L2) EXCEPT ![L2.req[r].tid] = TRUE]
      <4>1. SignalSet(L2, K, r, TRUE)
        BY <3>1 DEF Signal, SignalSet
      <4> QED
        BY <3>2, <3>9, <4>1, SetSignal
    <3>12. \A n \in Lists \ {"empty"} : Range(L2.list[n]) \subseteq Busy(L2)
      BY <3>2, GoodTypes
    <3>13. /\ ThreadsIn(K, "active") = ThreadsIn(L2, "active")
           /\ ThreadsIn(K, "suspended") = ThreadsIn(L2, "suspended")
      BY <1>0, <3>11, <3>12, ThreadsSame
    <3>14. PendingOf(K) = PendingOf(L2)
      BY <1>0, <3>11, <3>12, PendingSame
    <3>15. \A x \in X : K.req[x] = L.req[x]
      <4>1. X \subseteq DOMAIN L2.req
        BY <3>2, GoodTypes
      <4> QED
        BY <2>1, <3>9, <3>11, <4>1
    <3>16. /\ ThreadsIn(K, "active") = a \cup {Head(p)}
           /\ PendingOf(K) = Tail(p)
           /\ ThreadsIn(K, "suspended") = ThreadsIn(L, "suspended")
           /\ SignalOf(K) = [SignalOf(L) EXCEPT ![Head(p)] = TRUE]
           /\ NestingOf(K) = NestingOf(L) /\ Busy(K) = Busy(L)
      BY <2>1, <2>3, <2>6, <2>7, <2>8, <3>5, <3>9, <3>11, <3>13, <3>14
    <3> HIDE DEF p, a, ok
    <3> QED
      BY <2>12, <3>11, <3>15, <3>16 DEF K, p, a, ok
  <2> QED
    BY <2>11, <2>12
<1> QED
  BY <1>1, <1>2

-----------------------------------------------------------------------------
(* Steps                                                                   *)

LEMMA Primes ==
    /\ \A n : ThreadsIn(m, n)' = ThreadsIn(m', n)
    /\ PendingOf(m)' = PendingOf(m')
    /\ NestingOf(m)' = NestingOf(m')
    /\ SignalOf(m)' = SignalOf(m')
    /\ Good(m, {})' <=> Good(m', {})
<1>1. \A n : ThreadsIn(m, n)' = ThreadsIn(m', n)
  BY DEF ThreadsIn
<1>2. PendingOf(m)' = PendingOf(m')
  BY DEF PendingOf
<1>3. NestingOf(m)' = NestingOf(m')
  BY DEF NestingOf, RequestOf, StackOf, RequestCount
<1>4. SignalOf(m)' = SignalOf(m')
  BY DEF SignalOf, RequestOf
<1>5. Good(m, {})' <=> Good(m', {})
  BY DEF Good, Shape, OnceListed, Counts, Owned, Busy, Accesses, Fits, StackOf, RequestCount,
     Positions
<1> QED
  BY <1>1, <1>2, <1>3, <1>4, <1>5

\* L is m but for what t does to its own request: nobody else is signalled or pending.
Midway(L) ==
    PendingOf(L) = PendingOf(m) /\ SignalOf(L) = SignalOf(m)

LEMMA SatisfyHeadStep ==
    ASSUME NEW L, Good(L, {}), Midway(L), m' = SatisfyHead(L)
    PROVE  /\ Good(m', {})
           /\ NestingOf(m)' = NestingOf(L)
           /\ ThreadsIn(m, "suspended")' = ThreadsIn(L, "suspended")
           /\ AM!SatisfyHead(ThreadsIn(L, "active"), NestingOf(L), <<>>)
<1> DEFINE p == PendingOf(m)
           a == ThreadsIn(L, "active")
           ok == p # <<>> /\ AM!Compatible(Head(p), a, NestingOf(L))
<1>1. /\ Good(m', {})
      /\ NestingOf(m') = NestingOf(L)
      /\ ThreadsIn(m', "suspended") = ThreadsIn(L, "suspended")
      /\ ThreadsIn(m', "active") = IF ok THEN a \cup {Head(p)} ELSE a
      /\ PendingOf(m') = IF ok THEN Tail(p) ELSE p
      /\ SignalOf(m') = IF ok THEN [SignalOf(m) EXCEPT ![Head(p)] = TRUE]
                              ELSE SignalOf(m)
  BY SatisfyHeadEffect DEF Midway
<1>2. p \in Seq(Threads)
  BY PendingList DEF Midway
<1>3. ok <=> AM!HeadIsCompatible(a, NestingOf(L))
  BY DEF AM!HeadIsCompatible
<1> HIDE DEF ok, a
<1>4. p \o <<>> = p /\ (p # <<>> => Tail(p) \o <<>> = Tail(p))
  <2> HIDE DEF p
  <2> QED
    BY <1>2, ConcatEmptySeq
<1>5. ok => p # <<>>
  BY DEF ok
<1>6. AM!SatisfyHead(a, NestingOf(L), <<>>)
  <2>1. CASE ok
    BY <1>1, <1>3, <1>4, <1>5, <2>1, Primes DEF AM!SatisfyHead, AM!Signal
  <2>2. CASE ~ok
    BY <1>1, <1>3, <1>4, <2>2, Primes DEF AM!SatisfyHead
  <2> QED
    BY <2>1, <2>2
<1> QED
  BY <1>1, <1>6, Primes DEF a

\* Request r has accesses of t.
Holds(L, r, t) == L.req[r].tid = t /\ RequestCount(L.req[r]) > 0

LEMMA SatisfyRequestStep ==
    ASSUME NEW L, NEW r, Good(L, {r}), Midway(L), NEW t, Holds(L, r, t),
           SatisfyRequest(t, L, r)
    PROVE  /\ Good(m', {})
           /\ NestingOf(m)' = NestingOf(L)
           /\ ThreadsIn(m, "suspended")' = ThreadsIn(L, "suspended")
           /\ AM!SatisfyRequest(t, ThreadsIn(L, "active"), NestingOf(L))
<1> DEFINE p == PendingOf(m)
           a == ThreadsIn(L, "active")
           ok == p # <<>> /\ AM!Compatible(Head(p), a, NestingOf(L))
           enter == p = <<>> /\ AM!Compatible(t, a, NestingOf(L))
           K == SatisfyHead(L)
<1>0. "pending" \in Lists /\ "active" \in Lists /\ "suspended" \in Lists /\ "empty" \in Lists
  BY DEF Lists
<1>1. /\ r \in Busy(L) /\ t \in Threads /\ {r} \ {r} = {} /\ r \in {r}
      /\ L.req[r].tid = t /\ RequestCount(L.req[r]) > 0
  BY GoodTypes DEF Holds
<1>2. Count(L, "pending") = 0 /\ Compatible(L, r) <=> enter
  BY <1>1, PendingTest, CompatibleTest DEF Midway
<1>3. enter <=> AM!MayEnter(t, a, NestingOf(L))
  BY DEF AM!MayEnter
<1>4. ok <=> AM!HeadIsCompatible(a, NestingOf(L))
  BY DEF AM!HeadIsCompatible
<1>5. CASE enter
  <2>1. m' = AddAtHead(L, "active", r) /\ pc' = [pc EXCEPT ![t] = "out"]
    BY <1>2, <1>5 DEF SatisfyRequest
  <2>2. Good(m', {}) /\ PutIn(L, m', "active", r)
    <3>1. MayPut(L, "active", r)
      BY <1>1 DEF MayPut
    <3>2. /\ Good(AddAtHead(L, "active", r), {r} \ {r})
          /\ PutIn(L, AddAtHead(L, "active", r), "active", r)
      BY <1>0, <1>1, <3>1, AtHead
    <3> QED
      BY <1>1, <2>1, <3>2
  <2>5. /\ NestingOf(m') = NestingOf(L) /\ SignalOf(m') = SignalOf(L)
        /\ ThreadsIn(m', "active") = a \cup {L.req[r].tid}
        /\ ThreadsIn(m', "suspended") = ThreadsIn(L, "suspended")
        /\ PendingOf(m') = PendingOf(L)
    <3> DEFINE M == m'
               n == "active"
    <3>1. n \in Lists \ {"empty"} /\ PutIn(L, M, n, r)
      BY <1>0, <2>2
    <3> HIDE DEF M, n
    <3>2. PutSeen(L, M, n, r)
      BY <3>1, PutViews
    <3> QED
      BY <1>0, <3>2 DEF M, n, PutSeen
  <2>6. ThreadsIn(m', "active") = a \cup {t}
    BY <1>1, <2>5
  <2>8. PendingOf(m') = p
    BY <2>5 DEF Midway
  <2> HIDE DEF p, a, enter, ok
  <2>9. AM!SatisfyRequest(t, a, NestingOf(L))
    BY <1>3, <1>5, <2>1, <2>5, <2>6, <2>8, Primes DEF AM!SatisfyRequest, Midway, p
  <2> QED
    BY <2>2, <2>5, <2>9, Primes DEF a
<1>6. CASE ~enter
  <2>1. m' = AddAtTail(K, "pending", r) /\ pc' = [pc EXCEPT ![t] = "waiting"]
    BY <1>2, <1>6 DEF SatisfyRequest
  <2>2. /\ Good(K, {r}) /\ K.req[r] = L.req[r]
        /\ NestingOf(K) = NestingOf(L)
        /\ ThreadsIn(K, "suspended") = ThreadsIn(L, "suspended")
        /\ ThreadsIn(K, "active") = IF ok THEN a \cup {Head(p)} ELSE a
        /\ PendingOf(K) = IF ok THEN Tail(p) ELSE p
        /\ SignalOf(K) = IF ok THEN [SignalOf(m) EXCEPT ![Head(p)] = TRUE]
                               ELSE SignalOf(m)
    BY SatisfyHeadEffect DEF Midway
  <2> HIDE DEF K
  <2>3. /\ Good(m', {}) /\ PutIn(K, m', "pending", r) /\ PutLast(K, m', r)
    <3>1. MayPut(K, "pending", r)
      BY <1>1, <2>2 DEF MayPut
    <3>2. /\ Good(AddAtTail(K, "pending", r), {r} \ {r})
          /\ PutIn(K, AddAtTail(K, "pending", r), "pending", r)
          /\ AddAtTail(K, "pending", r).list["pending"] = Append(K.list["pending"], r)
      BY <1>0, <1>1, <2>2, <3>1, AtTail
    <3> QED
      BY <1>1, <2>1, <3>2 DEF PutLast, PutIn
  <2>6. /\ NestingOf(m') = NestingOf(K) /\ SignalOf(m') = SignalOf(K)
        /\ ThreadsIn(m', "active") = ThreadsIn(K, "active")
        /\ ThreadsIn(m', "suspended") = ThreadsIn(K, "suspended")
    <3> DEFINE M == m'
               n == "pending"
    <3>1. n \in Lists \ {"empty"} /\ PutIn(K, M, n, r)
      BY <1>0, <2>3
    <3> HIDE DEF M, n
    <3>2. PutSeen(K, M, n, r)
      BY <3>1, PutViews
    <3> QED
      BY <1>0, <3>2 DEF M, n, PutSeen
  <2>8. PendingOf(m') = PendingOf(K) \o <<t>>
    <3>1. r \in Busy(K) /\ K.req[r].tid = t
      BY <1>1, <2>2, GoodTypes
    <3>2. PendingOf(m') = PendingOf(K) \o <<K.req[r].tid>>
      BY <2>2, <2>3, <3>1, PendingAppend
    <3> QED
      BY <3>1, <3>2
  <2>9. ok => p # <<>>
    OBVIOUS
  <2> HIDE DEF p, a, enter, ok
  <2>10. AM!SatisfyHead(a, NestingOf(L), <<t>>)
    <3>1. CASE ok
      BY <1>4, <2>2, <2>6, <2>8, <3>1, Primes DEF AM!SatisfyHead, AM!Signal, p
    <3>2. CASE ~ok
      BY <1>4, <2>2, <2>6, <2>8, <3>2, Primes DEF AM!SatisfyHead, p
    <3> QED
      BY <3>1, <3>2
  <2>11. AM!SatisfyRequest(t, a, NestingOf(L))
    BY <1>3, <1>6, <2>1, <2>10 DEF AM!SatisfyRequest
  <2> QED
    BY <2>2, <2>3, <2>6, <2>11, Primes DEF a
<1> QED
  BY <1>5, <1>6

-----------------------------------------------------------------------------
(* AccessManager on the lists                                              *)

AMP == INSTANCE AccessManagerProofs WITH
        active    <- ThreadsIn(m, "active"),
        pending   <- PendingOf(m),
        suspended <- ThreadsIn(m, "suspended"),
        nesting   <- NestingOf(m),
        signal    <- SignalOf(m)

\* The two instances of the module define the same.
LEMMA SameHelpers ==
    /\ \A s : AM!HasExclusive(s) <=> AMP!HasExclusive(s)
    /\ \A t, act, nst : AM!Compatible(t, act, nst) <=> AMP!Compatible(t, act, nst)
    /\ \A act, nst, more : AM!SatisfyHead(act, nst, more) <=> AMP!SatisfyHead(act, nst, more)
    /\ \A t, act, nst : AM!SatisfyRequest(t, act, nst) <=> AMP!SatisfyRequest(t, act, nst)
<1>1. \A s : AM!HasExclusive(s) <=> AMP!HasExclusive(s)
  BY DEF AM!HasExclusive, AMP!HasExclusive
<1>2. \A t, act, nst : AM!Compatible(t, act, nst) <=> AMP!Compatible(t, act, nst)
  BY <1>1 DEF AM!Compatible, AMP!Compatible
<1>3. \A act, nst, more : AM!SatisfyHead(act, nst, more) <=> AMP!SatisfyHead(act, nst, more)
  BY <1>2 DEF AM!SatisfyHead, AMP!SatisfyHead, AM!HeadIsCompatible, AMP!HeadIsCompatible,
     AM!Signal, AMP!Signal
<1>4. \A t, act, nst : AM!SatisfyRequest(t, act, nst) <=> AMP!SatisfyRequest(t, act, nst)
  BY <1>2, <1>3 DEF AM!SatisfyRequest, AMP!SatisfyRequest, AM!MayEnter, AMP!MayEnter
<1> QED
  BY <1>1, <1>2, <1>3, <1>4

\* So its steps keep its inductive invariant.
LEMMA AccessInvariant ==
    ASSUME AMP!IInv, [AM!Next]_(AM!vars)
    PROVE  AMP!IInv'
<1>1. CASE AM!Next
  <2>1. PICK t \in Threads : AM!Proceed(t) \/ AM!Call(t)
    BY <1>1 DEF AM!Next
  <2>2. ASSUME AM!Proceed(t) PROVE AMP!Next
    <3>1. AM!ResetAllRefsReleased(t) => AMP!ResetAllRefsReleased(t)
      BY DEF AM!ResetAllRefsReleased, AMP!ResetAllRefsReleased, AM!lists, AMP!lists
    <3>2. AM!GetSharedAccess(t) => AMP!GetSharedAccess(t)
      BY SameHelpers DEF AM!GetSharedAccess, AMP!GetSharedAccess, AM!refs, AMP!refs
    <3>3. AM!GetExclusiveAccess(t) => AMP!GetExclusiveAccess(t)
      BY SameHelpers DEF AM!GetExclusiveAccess, AMP!GetExclusiveAccess, AM!refs, AMP!refs
    <3>4. AM!WaitForSignal(t) => AMP!WaitForSignal(t)
      BY DEF AM!WaitForSignal, AMP!WaitForSignal, AM!refs, AMP!refs
    <3>5. AM!SatisfyNext(t) => AMP!SatisfyNext(t)
      BY SameHelpers DEF AM!SatisfyNext, AMP!SatisfyNext, AM!refs, AMP!refs
    <3>6. AM!DecRef(t) => AMP!DecRef(t)
      BY DEF AM!DecRef, AMP!DecRef, AM!lists, AMP!lists, AM!AfterRelease, AMP!AfterRelease
    <3>7. AM!ReleaseAllRefsReleased(t) => AMP!ReleaseAllRefsReleased(t)
      BY DEF AM!ReleaseAllRefsReleased, AMP!ReleaseAllRefsReleased, AM!lists, AMP!lists,
         AM!AfterRelease, AMP!AfterRelease
    <3>8. AM!WaitForAllReferences(t) => AMP!WaitForAllReferences(t)
      BY DEF AM!WaitForAllReferences, AMP!WaitForAllReferences, AM!lists, AMP!lists
    <3>9. AMP!Proceed(t)
      BY <2>2, <3>1, <3>2, <3>3, <3>4, <3>5, <3>6, <3>7, <3>8 DEF AM!Proceed, AMP!Proceed
    <3> QED
      BY <3>9 DEF AMP!Next
  <2>3. ASSUME AM!Call(t) PROVE AMP!Next
    <3>1. ASSUME NEW kind \in AM!Kinds, AM!IncRef(t, kind)
          PROVE  kind \in AMP!Kinds /\ AMP!IncRef(t, kind)
      BY <3>1 DEF AM!IncRef, AMP!IncRef, AM!Kinds, AMP!Kinds, AM!MayNest, AMP!MayNest,
         AM!lists, AMP!lists
    <3>2. AM!ReleaseAccess(t) => AMP!ReleaseAccess(t)
      BY SameHelpers DEF AM!ReleaseAccess, AMP!ReleaseAccess, AM!RemoveLast, AMP!RemoveLast
    <3>3. /\ AM!Release(t) => AMP!Release(t)
          /\ AM!ReleaseAndWait(t) => AMP!ReleaseAndWait(t)
      BY <3>2 DEF AM!Release, AMP!Release, AM!ReleaseAndWait, AMP!ReleaseAndWait
    <3>4. /\ AM!SuspendAccess(t) => AMP!SuspendAccess(t)
          /\ AM!ResumeAccess(t) => AMP!ResumeAccess(t)
      BY SameHelpers DEF AM!SuspendAccess, AMP!SuspendAccess, AM!ResumeAccess,
         AMP!ResumeAccess, AM!refs, AMP!refs
    <3>5. AMP!Call(t)
      BY <2>3, <3>1, <3>3, <3>4 DEF AM!Call, AMP!Call
    <3> QED
      BY <3>5 DEF AMP!Next
  <2>4. AMP!Next
    BY <2>1, <2>2, <2>3
  <2> QED
    BY <2>4, AMP!NextIInv, RequestListsAssumption
<1>2. CASE UNCHANGED AM!vars
  <2>1. UNCHANGED AMP!vars
    BY <1>2 DEF AM!vars, AMP!vars
  <2> QED
    BY <2>1, AMP!NextIInv, RequestListsAssumption
<1> QED
  BY <1>1, <1>2

-----------------------------------------------------------------------------
(* A call takes its request out of a list and changes it                   *)

\* Only the accesses of the thread may change, and the list it was in.
SameOwner(q, p) == q.tid = p.tid /\ q.signal = p.signal

\* L is m with request r, which was in list n, in hand, and q in it.
Changed(L, n, r, q) == L = [RemoveRequest(m, n, r) EXCEPT !.req[r] = q]

\* L is m with request r of t, which was in list n, in hand, and q in it.
InHand(L, n, r, t, q) ==
    /\ Good(L, {r}) /\ L.req[r] = q /\ L.req[r].tid = t /\ t \in Threads
    /\ Midway(L) /\ SignalOf(m)[t] = q.signal
    /\ NestingOf(L) = [NestingOf(m) EXCEPT ![t] = StackOf(q)]
    /\ ThreadsIn(L, n) = ThreadsIn(m, n) \ {t}
    /\ \A k \in {"active", "suspended"} \ {n} : ThreadsIn(L, k) = ThreadsIn(m, k)

LEMMA Taken ==
    ASSUME Good(m, {}), NEW n \in Lists, n # "empty", n # "pending",
           NEW r \in Range(m.list[n]), NEW q, Fits(q), SameOwner(q, m.req[r]),
           NEW L, Changed(L, n, r, q)
    PROVE  InHand(L, n, r, m.req[r].tid, q)
<1> DEFINE t == m.req[r].tid
           K == RemoveRequest(m, n, r)
<1>0. "pending" \in Lists /\ "empty" \in Lists
  BY DEF Lists
<1>1. /\ Good(K, {r}) /\ K.req = m.req
      /\ \A k \in Lists : k # n => K.list[k] = m.list[k]
      /\ Range(K.list[n]) = Range(m.list[n]) \ {r}
      /\ r \in Busy(m)
  <2> DEFINE Y == {}
  <2>1. Good(m, Y) /\ Y \cup {r} = {r}
    OBVIOUS
  <2> HIDE DEF Y
  <2>2. /\ Good(K, Y \cup {r}) /\ K.req = m.req
        /\ \A k \in Lists : k # n => K.list[k] = m.list[k]
        /\ Range(K.list[n]) = Range(m.list[n]) \ {r}
        /\ r \in Busy(m)
    BY <2>1, Removed
  <2> QED
    BY <2>1, <2>2
<1>2. SetTo(K, L, r, q)
  BY DEF SetTo, Changed
<1> HIDE DEF K
<1>3. Busy(K) = Busy(m)
  BY <1>0, <1>1 DEF Busy
<1>4. /\ Good(L, {r}) /\ L.list = K.list /\ Busy(L) = Busy(m) /\ L.req[r] = q
      /\ \A x \in DOMAIN m.req : x # r => L.req[x] = m.req[x]
  <2>1. r \in Busy(K) /\ SameThread(q, K.req[r]) /\ r \in {r}
    BY <1>1, <1>3 DEF SameThread, SameOwner
  <2>2. /\ Good(L, {r}) /\ L.list = K.list /\ Busy(L) = Busy(K) /\ L.req[r] = q
        /\ \A x \in DOMAIN K.req : x # r => L.req[x] = K.req[x]
    BY <1>1, <1>2, <2>1, SetGood
  <2> QED
    BY <1>1, <1>3, <2>2
<1>5. /\ Busy(m) \subseteq DOMAIN m.req /\ t \in Threads
      /\ \A k \in Lists : Range(m.list[k]) \subseteq DOMAIN m.req
      /\ \A x \in DOMAIN m.req : L.req[x].tid = m.req[x].tid
  BY <1>1, <1>4, GoodTypes DEF SameOwner
<1>6. SameOthers(m, L, t)
  BY <1>4, <1>5 DEF SameOthers
<1>7. /\ NestingOf(L)[t] = StackOf(q) /\ SignalOf(L)[t] = q.signal
      /\ SignalOf(m)[t] = q.signal
  <2>1. r \in Busy(L) /\ L.req[r].tid = t /\ q.signal = m.req[r].signal
    BY <1>1, <1>4 DEF SameOwner
  <2>2. /\ NestingOf(L)[L.req[r].tid] = StackOf(L.req[r])
        /\ SignalOf(L)[L.req[r].tid] = L.req[r].signal
    BY <1>4, <2>1, ViewOf
  <2>3. SignalOf(m)[t] = m.req[r].signal
    BY <1>1, ViewOf
  <2> QED
    BY <1>4, <2>1, <2>2, <2>3
<1>8. /\ NestingOf(L) = [NestingOf(m) EXCEPT ![t] = StackOf(q)]
      /\ SignalOf(L) = [SignalOf(m) EXCEPT ![t] = SignalOf(m)[t]]
  BY <1>4, <1>5, <1>6, <1>7, ViewsChange
<1>9. SignalOf(L) = SignalOf(m)
  <2>1. SignalOf(m) = [u \in Threads |-> SignalOf(m)[u]]
    BY ViewTypes
  <2> QED
    BY <1>8, <2>1
<1>10. ThreadsIn(L, n) = ThreadsIn(m, n) \ {t}
  <2>1. ThreadsIn(K, n) = ThreadsIn(m, n) \ {t}
    BY <1>1, ThreadsLess
  <2>2. ThreadsIn(L, n) = ThreadsIn(K, n)
    <3>1. \A x \in Range(K.list[n]) : L.req[x].tid = K.req[x].tid
      BY <1>1, <1>5
    <3> QED
      BY <1>4, <3>1 DEF ThreadsIn
  <2> QED
    BY <2>1, <2>2
<1>11. ASSUME NEW k \in Lists \ {n, "empty"} PROVE ThreadsIn(L, k) = ThreadsIn(m, k)
  <2>1. L.list[k] = m.list[k] /\ \A x \in Range(m.list[k]) : L.req[x].tid = m.req[x].tid
    BY <1>1, <1>4, <1>5
  <2> QED
    BY <2>1 DEF ThreadsIn
<1>12. PendingOf(L) = PendingOf(m)
  BY <1>0, <1>1, <1>4, <1>5, PendingSame
<1>13. \A k \in {"active", "suspended"} \ {n} : ThreadsIn(L, k) = ThreadsIn(m, k)
  BY <1>11 DEF Lists
<1>14. Midway(L) /\ L.req[r].tid = t
  BY <1>4, <1>9, <1>12 DEF Midway, SameOwner
<1> QED
  BY <1>4, <1>5, <1>7, <1>8, <1>10, <1>13, <1>14 DEF InHand

\* It puts the request back at the head of the same or another list.
LEMMA PutBack ==
    ASSUME NEW L, NEW r, Good(L, {r}), NEW n \in Lists \ {"empty", "pending"},
           RequestCount(L.req[r]) > 0
    PROVE  LET K == AddAtHead(L, n, r)
           IN  /\ Good(K, {})
               /\ NestingOf(K) = NestingOf(L) /\ SignalOf(K) = SignalOf(L)
               /\ PendingOf(K) = PendingOf(L)
               /\ ThreadsIn(K, n) = ThreadsIn(L, n) \cup {L.req[r].tid}
               /\ \A k \in Lists : k # n => ThreadsIn(K, k) = ThreadsIn(L, k)
<1> DEFINE K == AddAtHead(L, n, r)
<1>1. MayPut(L, n, r) /\ r \in {r} /\ n \in Lists /\ n \in Lists \ {"empty"} /\ n # "pending"
  BY DEF MayPut
<1>2. Good(K, {r} \ {r}) /\ PutIn(L, K, n, r)
  BY <1>1, AtHead
<1>3. {r} \ {r} = {}
  OBVIOUS
<1> HIDE DEF K
<1>4. PutSeen(L, K, n, r)
  BY <1>1, <1>2, PutViews
<1> QED
  BY <1>1, <1>2, <1>3, <1>4 DEF K, PutSeen

\* Or it gives the request back to the pool.
LEMMA PutInPool ==
    ASSUME NEW L, NEW r, Good(L, {r}), RequestCount(L.req[r]) = 0, ~L.req[r].signal
    PROVE  LET K == AddAtHead(L, "empty", r)
           IN  /\ Good(K, {})
               /\ NestingOf(K) = NestingOf(L) /\ SignalOf(K) = SignalOf(L)
               /\ PendingOf(K) = PendingOf(L)
               /\ \A k \in Lists \ {"empty"} : ThreadsIn(K, k) = ThreadsIn(L, k)
<1> DEFINE K == AddAtHead(L, "empty", r)
           t == L.req[r].tid
<1>1. /\ Good(K, {}) /\ K.req = L.req
      /\ Range(K.list["empty"]) = Range(L.list["empty"]) \cup {r}
      /\ \A k \in Lists : k # "empty" => K.list[k] = L.list[k]
  <2>1. MayPut(L, "empty", r) /\ r \in {r} /\ "empty" \in Lists
    BY DEF MayPut, Lists
  <2>2. Good(K, {r} \ {r}) /\ PutIn(L, K, "empty", r)
    BY <2>1, AtHead
  <2>3. {r} \ {r} = {}
    OBVIOUS
  <2> QED
    BY <2>2, <2>3 DEF PutIn
<1>2. /\ "pending" \in Lists /\ "empty" \in Lists
      /\ r \in Busy(L) /\ t \in Threads /\ L.req[r] \in Requests
  BY GoodTypes DEF Lists
<1> HIDE DEF K
<1>4. Busy(K) = Busy(L) \ {r}
  BY <1>1 DEF Busy
<1>5. \A x \in Busy(L) : L.req[x].tid = t => x = r
  BY <1>2 DEF Good, Owned
<1>6. SameOthers(L, K, t)
  BY <1>1, <1>4, <1>5 DEF SameOthers
<1>7. /\ NestingOf(L)[t] = StackOf(L.req[r]) /\ SignalOf(L)[t] = L.req[r].signal
      /\ NestingOf(K)[t] = <<>> /\ SignalOf(K)[t] = FALSE
  <2>1. \A x \in Busy(K) : K.req[x].tid # t
    BY <1>1, <1>4, <1>5
  <2>2. NestingOf(L)[t] = StackOf(L.req[r]) /\ SignalOf(L)[t] = L.req[r].signal
    BY <1>2, ViewOf
  <2>3. NestingOf(K)[t] = <<>> /\ SignalOf(K)[t] = FALSE
    BY <1>1, <1>2, <2>1, Views
  <2> QED
    BY <2>2, <2>3
<1>8. StackOf(L.req[r]) = <<>> /\ L.req[r].signal = FALSE
  <2>1. Len(StackOf(L.req[r])) = 0 /\ StackOf(L.req[r]) \in Seq(Kinds)
    BY <1>2, StackType
  <2>2. L.req[r].signal \in BOOLEAN
    BY <1>2 DEF Requests
  <2> QED
    BY <2>1, <2>2
<1>9. /\ NestingOf(K) = [NestingOf(L) EXCEPT ![t] = NestingOf(K)[t]]
      /\ SignalOf(K) = [SignalOf(L) EXCEPT ![t] = SignalOf(K)[t]]
  BY <1>1, <1>2, <1>6, ViewsChange
<1>10. /\ NestingOf(L) = [u \in Threads |-> NestingOf(L)[u]]
       /\ SignalOf(L) = [u \in Threads |-> SignalOf(L)[u]]
  BY ViewTypes
<1> HIDE DEF t
<1>11. NestingOf(K) = NestingOf(L)
  BY <1>7, <1>8, <1>9, <1>10
<1>12. SignalOf(K) = SignalOf(L)
  BY <1>7, <1>8, <1>9, <1>10
<1>13. PendingOf(K) = PendingOf(L)
  BY <1>1, <1>2 DEF PendingOf
<1>14. ASSUME NEW k \in Lists \ {"empty"} PROVE ThreadsIn(K, k) = ThreadsIn(L, k)
  BY <1>1 DEF ThreadsIn
<1> QED
  BY <1>1, <1>11, <1>12, <1>13, <1>14 DEF K

-----------------------------------------------------------------------------
(* What the invariant of AccessManager says of the lists                   *)

LEMMA AccessTypes ==
    ASSUME AMP!IInv
    PROVE  /\ pc \in [Threads -> AM!Places] /\ want \in [Threads -> Kinds]
           /\ closing \subseteq Threads
  BY DEF AMP!IInv, AMP!TypeOK, AMP!Places, AM!Places, AMP!Kinds, Kinds

LEMMA AccessDepth ==
    ASSUME AMP!IInv, NEW t \in Threads
    PROVE  Len(NestingOf(m)[t]) + (IF pc[t] \in {"reset", "lock"} THEN 1 ELSE 0) <= MaxNest
<1>1. AMP!NestingDepth(t) <= MaxNest
  BY DEF AMP!IInv, AMP!TypeOK
<1>2. Len(NestingOf(m)[t]) \in Nat
  BY DEF AMP!IInv, AMP!TypeOK
<1>3. CASE pc[t] \in {"reset", "lock"}
  BY <1>1, <1>2, <1>3 DEF AMP!NestingDepth
<1>4. CASE pc[t] \notin {"reset", "lock"}
  BY <1>1, <1>2, <1>4 DEF AMP!NestingDepth
<1> QED
  BY <1>3, <1>4

LEMMA AccessPlaces ==
    ASSUME AMP!IInv, Good(m, {}), NEW t \in Threads
    PROVE  /\ t \in ThreadsIn(m, "suspended") => pc[t] = "out"
           /\ t \in ThreadsIn(m, "pending") => pc[t] = "waiting"
           /\ t \in ThreadsIn(m, "active") => t \notin ThreadsIn(m, "suspended")
           /\ pc[t] = "woken" => t \in ThreadsIn(m, "active")
           /\ SignalOf(m)[t] => pc[t] = "waiting" /\ t \in ThreadsIn(m, "active")
           /\ pc[t] = "out" /\ NestingOf(m)[t] # <<>> =>
                 t \in ThreadsIn(m, "active") \cup ThreadsIn(m, "suspended")
           /\ NestingOf(m)[t] # <<>> <=>
                 t \in UNION {ThreadsIn(m, n) : n \in {"active", "suspended", "pending"}}
<1>1. ThreadsIn(m, "pending") = AMP!PendingThreads
  <2> DEFINE s == m.list["pending"]
  <2>1. DOMAIN PendingOf(m) = DOMAIN s /\ \A i \in DOMAIN s : PendingOf(m)[i] = m.req[s[i]].tid
    BY DEF PendingOf
  <2>2. Range(s) = {s[i] : i \in DOMAIN s}
    BY DEF Range
  <2> QED
    BY <2>1, <2>2 DEF ThreadsIn, AMP!PendingThreads
<1>2. AMP!PlacesMatchLists /\ AMP!OneListPerRequest /\ AMP!NoLostWakeup /\ AMP!ReturnsWithAccess
  BY DEF AMP!IInv
<1>3. /\ t \in ThreadsIn(m, "suspended") => pc[t] = "out"
      /\ t \in ThreadsIn(m, "pending") => pc[t] = "waiting"
      /\ pc[t] = "woken" => t \in ThreadsIn(m, "active")
  BY <1>1, <1>2 DEF AMP!PlacesMatchLists
<1>4. /\ t \in ThreadsIn(m, "active") => t \notin ThreadsIn(m, "suspended")
      /\ NestingOf(m)[t] # <<>> <=>
             \/ t \in ThreadsIn(m, "active") \/ t \in ThreadsIn(m, "suspended")
             \/ t \in ThreadsIn(m, "pending")
  BY <1>1, <1>2 DEF AMP!OneListPerRequest
<1>5. SignalOf(m)[t] => pc[t] = "waiting" /\ t \in ThreadsIn(m, "active")
  BY <1>2 DEF AMP!NoLostWakeup
<1>6. pc[t] = "out" /\ NestingOf(m)[t] # <<>> =>
          t \in ThreadsIn(m, "active") \cup ThreadsIn(m, "suspended")
  BY <1>2 DEF AMP!ReturnsWithAccess
<1> QED
  BY <1>3, <1>4, <1>5, <1>6

\* A thread that asks for its first access has no request yet.
LEMMA NoRequest ==
    ASSUME AMP!IInv, Good(m, {}), NEW t \in Threads, pc[t] = "lock",
           t \notin ThreadsIn(m, "active")
    PROVE  NestingOf(m)[t] = <<>> /\ \A x \in Busy(m) : m.req[x].tid # t
<1>1. t \notin UNION {ThreadsIn(m, n) : n \in {"active", "suspended", "pending"}}
  BY AccessPlaces
<1>2. SUFFICES ASSUME NEW x \in Busy(m) PROVE m.req[x].tid # t
  BY <1>1, AccessPlaces
<1>3. PICK n \in Lists : x \in Range(m.list[n])
  BY DEF Good, OnceListed, Busy
<1>4. n \in {"active", "suspended", "pending"}
  BY <1>3 DEF Lists, Busy
<1>5. m.req[x].tid \in ThreadsIn(m, n)
  BY <1>3 DEF ThreadsIn
<1> QED
  BY <1>1, <1>4, <1>5

-----------------------------------------------------------------------------
(* The steps are steps of AccessManager                                    *)

\* The request of the thread, when it has access.
LEMMA ActiveRequest ==
    ASSUME Good(m, {}), NEW n \in Lists, n # "empty", NEW t, Find(m, n, t) # NULL
    PROVE  LET r == Find(m, n, t)
           IN  /\ r \in Range(m.list[n]) /\ r \in Busy(m) /\ m.req[r].tid = t
               /\ t \in Threads /\ t \in ThreadsIn(m, n)
               /\ RequestOf(m, t) = r
               /\ NestingOf(m)[t] = StackOf(m.req[r]) /\ SignalOf(m)[t] = m.req[r].signal
               /\ Fits(m.req[r]) /\ RequestCount(m.req[r]) > 0
               /\ m.req[r] \in Requests
               /\ RequestCount(m.req[r]) = Len(NestingOf(m)[t])
               /\ RequestCount(m.req[r]) \in Nat
<1> DEFINE r == Find(m, n, t)
<1>1. t \in ThreadsIn(m, n)
  BY FindRequest
<1>2. /\ r \in Range(m.list[n]) /\ r \in Busy(m) /\ m.req[r].tid = t
      /\ t \in Threads /\ RequestOf(m, t) = r
      /\ NestingOf(m)[t] = StackOf(m.req[r]) /\ SignalOf(m)[t] = m.req[r].signal
  BY <1>1, FindRequest
<1> HIDE DEF r
<1>3. Fits(m.req[r]) /\ m.req[r] \in Requests
  BY <1>2, GoodTypes
<1>4. RequestCount(m.req[r]) > 0
  BY <1>2 DEF Good, Owned
<1>5. RequestCount(m.req[r]) = Len(NestingOf(m)[t]) /\ RequestCount(m.req[r]) \in Nat
  BY <1>2, <1>3, StackType
<1> QED
  BY <1>1, <1>2, <1>3, <1>4, <1>5 DEF r

\* A thread without a request gets one, and asks for access with it.
LEMMA NewRequestStep ==
    ASSUME AMP!IInv, Good(m, {}), NEW t \in Threads, pc[t] = "lock",
           Find(m, "active", t) = NULL, NEW kind \in Kinds, NEW g \in Garbage,
           LET new == Allocate(m, g)
           IN  SatisfyRequest(t, Construct(new.state, new.request, t, kind), new.request)
    PROVE  /\ Good(m', {})
           /\ NestingOf(m)' = [NestingOf(m) EXCEPT ![t] = Append(@, kind)]
           /\ ThreadsIn(m, "suspended")' = ThreadsIn(m, "suspended")
           /\ t \notin ThreadsIn(m, "active")
           /\ AM!SatisfyRequest(t, ThreadsIn(m, "active"), NestingOf(m)')
<1> DEFINE new == Allocate(m, g)
           r == new.request
           L == Construct(new.state, r, t, kind)
<1>0. /\ "pending" \in Lists /\ "active" \in Lists /\ "suspended" \in Lists /\ "empty" \in Lists
      /\ g \in Nat
  BY RequestListsAssumption DEF Lists
<1>1. t \notin ThreadsIn(m, "active")
  BY <1>0, FindRequest
<1>2. NestingOf(m)[t] = <<>> /\ \A x \in Busy(m) : m.req[x].tid # t
  BY <1>1, NoRequest
<1>3. /\ Good(L, {r}) /\ Busy(L) = Busy(m) \cup {r} /\ r \notin Busy(m)
      /\ \A x \in Busy(m) : L.req[x] = m.req[x]
      /\ \A k \in Lists : k # "empty" => L.list[k] = m.list[k]
      /\ L.req[r].tid = t /\ ~L.req[r].signal /\ StackOf(L.req[r]) = <<kind>>
      /\ RequestCount(L.req[r]) = 1
  <2>1. /\ g \in Nat /\ kind \in Kinds /\ t \in Threads /\ Good(m, {})
        /\ \A x \in Busy(m) : m.req[x].tid # t
    BY <1>0, <1>2
  <2> QED
    BY <2>1, NewRequest
<1>4. SatisfyRequest(t, L, r)
  OBVIOUS
<1> HIDE DEF L, r
<1>5. SameOthers(m, L, t)
  BY <1>2, <1>3 DEF SameOthers
<1>6. r \in Busy(L)
  BY <1>3
<1>7. NestingOf(L)[t] = <<kind>> /\ SignalOf(L)[t] = L.req[r].signal
  <2>1. /\ NestingOf(L)[L.req[r].tid] = StackOf(L.req[r])
        /\ SignalOf(L)[L.req[r].tid] = L.req[r].signal
    BY <1>3, <1>6, ViewOf
  <2> QED
    BY <1>3, <2>1
<1>8. /\ NestingOf(L) = [NestingOf(m) EXCEPT ![t] = NestingOf(L)[t]]
      /\ SignalOf(L) = [SignalOf(m) EXCEPT ![t] = SignalOf(L)[t]]
  BY <1>3, <1>5, ViewsChange
<1>9. SignalOf(L) = SignalOf(m)
  <2>1. SignalOf(m) = [u \in Threads |-> SignalOf(m)[u]] /\ SignalOf(m)[t] = FALSE
    BY <1>2, ViewTypes, Views
  <2>2. L.req[r].signal = FALSE
    <3>1. L.req[r] \in Requests
      BY <1>3, <1>6, GoodTypes
    <3> QED
      BY <1>3, <3>1 DEF Requests
  <2> QED
    BY <1>7, <1>8, <2>1, <2>2
<1>10. NestingOf(L) = [NestingOf(m) EXCEPT ![t] = Append(@, kind)]
  <2>1. Append(NestingOf(m)[t], kind) = <<kind>>
    BY <1>2
  <2> QED
    BY <1>7, <1>8, <2>1
<1>11. \A k \in Lists \ {"empty"} : \A x \in Range(m.list[k]) : L.req[x] = m.req[x]
  BY <1>3, GoodTypes
<1>12. /\ ThreadsIn(L, "active") = ThreadsIn(m, "active")
       /\ ThreadsIn(L, "suspended") = ThreadsIn(m, "suspended")
  BY <1>0, <1>3, <1>11 DEF ThreadsIn
<1>13. PendingOf(L) = PendingOf(m)
  BY <1>0, <1>3, <1>11, PendingSame
<1>14. Midway(L) /\ Holds(L, r, t)
  BY <1>3, <1>9, <1>13 DEF Midway, Holds
<1>15. /\ Good(m', {})
       /\ NestingOf(m)' = NestingOf(L)
       /\ ThreadsIn(m, "suspended")' = ThreadsIn(L, "suspended")
       /\ AM!SatisfyRequest(t, ThreadsIn(L, "active"), NestingOf(L))
  BY <1>3, <1>4, <1>14, SatisfyRequestStep
<1> QED
  BY <1>1, <1>10, <1>12, <1>15

LEMMA TakenActive ==
    ASSUME Good(m, {}), NEW n \in {"active", "suspended"}, NEW t, Find(m, n, t) # NULL,
           NEW q, Fits(q), SameOwner(q, m.req[Find(m, n, t)]),
           NEW L, Changed(L, n, Find(m, n, t), q)
    PROVE  InHand(L, n, Find(m, n, t), t, q)
<1> DEFINE r == Find(m, n, t)
<1>1. n \in Lists /\ n # "empty" /\ n # "pending"
  BY DEF Lists
<1>2. r \in Range(m.list[n]) /\ m.req[r].tid = t /\ SignalOf(m)[t] = m.req[r].signal
  BY <1>1, ActiveRequest
<1>3. SameOwner(q, m.req[r]) /\ Changed(L, n, r, q)
  OBVIOUS
<1> HIDE DEF r
<1>4. InHand(L, n, r, m.req[r].tid, q)
  BY <1>1, <1>2, <1>3, Taken
<1> QED
  BY <1>2, <1>4 DEF r

\* RemoveRequest leaves the requests alone: what changes one changes it as it is in m.
LEMMA ChangedAfter ==
    ASSUME Good(m, {}), NEW n \in Lists, n # "empty", NEW r \in Range(m.list[n])
    PROVE  /\ RemoveRequest(m, n, r).req[r] = m.req[r]
           /\ RemoveRequest(m, n, r) = [RemoveRequest(m, n, r) EXCEPT !.req[r] = m.req[r]]
<1> DEFINE K == RemoveRequest(m, n, r)
<1>1. Good(K, {r}) /\ K.req = m.req /\ r \in DOMAIN m.req
  <2> DEFINE Y == {}
  <2>1. Good(m, Y) /\ Y \cup {r} = {r} /\ r \in DOMAIN m.req
    BY GoodTypes
  <2> HIDE DEF Y
  <2>2. Good(K, Y \cup {r}) /\ K.req = m.req
    BY <2>1, Removed
  <2> QED
    BY <2>1, <2>2
<1> HIDE DEF K
<1>2. K = [f \in Fields |-> K[f]]
  BY <1>1, GoodTypes
<1>3. K.req \in Seq(Requests)
  BY <1>1 DEF Good, Shape
<1>4. [K.req EXCEPT ![r] = m.req[r]] = K.req
  <2> DEFINE s == K.req
  <2>1. s = [i \in DOMAIN s |-> s[i]] /\ s[r] = m.req[r] /\ r \in DOMAIN s
    BY <1>1, <1>3
  <2> HIDE DEF s
  <2> QED
    BY <2>1 DEF s
<1>5. [K EXCEPT !.req = K.req] = K
  BY <1>2 DEF Fields
<1>6. [K EXCEPT !.req[r] = m.req[r]] = K
  <2>1. [K EXCEPT !.req[r] = m.req[r]] = [K EXCEPT !.req = [K.req EXCEPT ![r] = m.req[r]]]
    OBVIOUS
  <2> QED
    BY <1>4, <1>5, <2>1
<1> QED
  BY <1>1, <1>6 DEF K

\* The request goes back to the head of a list.
LEMMA PutBackStep ==
    ASSUME NEW L, NEW r, Good(L, {r}), Midway(L), NEW t, Holds(L, r, t),
           m' = AddAtHead(L, "active", r)
    PROVE  /\ Good(m', {})
           /\ NestingOf(m)' = NestingOf(L)
           /\ ThreadsIn(m, "suspended")' = ThreadsIn(L, "suspended")
           /\ ThreadsIn(m, "active")' = ThreadsIn(L, "active") \cup {t}
           /\ PendingOf(m)' = PendingOf(m) /\ SignalOf(m)' = SignalOf(m)
<1> DEFINE K == AddAtHead(L, "active", r)
<1>1. "active" \in Lists \ {"empty", "pending"} /\ "suspended" \in Lists
  BY DEF Lists
<1>2. RequestCount(L.req[r]) > 0 /\ L.req[r].tid = t
  BY DEF Holds
<1>3. /\ Good(K, {})
      /\ NestingOf(K) = NestingOf(L) /\ SignalOf(K) = SignalOf(L)
      /\ PendingOf(K) = PendingOf(L)
      /\ ThreadsIn(K, "active") = ThreadsIn(L, "active") \cup {L.req[r].tid}
      /\ ThreadsIn(K, "suspended") = ThreadsIn(L, "suspended")
  BY <1>1, <1>2, PutBack
<1>4. m' = K
  OBVIOUS
<1> HIDE DEF K
<1> QED
  BY <1>2, <1>3, <1>4, Primes DEF Midway

\* L is m with the request of t in hand and one access more in it.
MoreAccess(L, t, kind) ==
    L = [RemoveRequest(m, "active", Find(m, "active", t)) EXCEPT
            !.req[Find(m, "active", t)] = Add(@, kind)]

LEMMA OneAccessMore ==
    ASSUME AMP!IInv, Good(m, {}), NEW t \in Threads, Find(m, "active", t) # NULL,
           pc[t] = "lock", NEW kind \in Kinds, NEW L, MoreAccess(L, t, kind)
    PROVE  LET r == Find(m, "active", t)
           IN  /\ Good(L, {r}) /\ Midway(L) /\ Holds(L, r, t)
               /\ NestingOf(L) = [NestingOf(m) EXCEPT ![t] = Append(@, kind)]
               /\ ThreadsIn(L, "active") = ThreadsIn(m, "active") \ {t}
               /\ ThreadsIn(L, "suspended") = ThreadsIn(m, "suspended")
<1> DEFINE r == Find(m, "active", t)
           q == Add(m.req[r], kind)
<1>1. "active" \in Lists /\ "active" # "empty" /\ "active" \in {"active", "suspended"}
      /\ "suspended" \in {"active", "suspended"} \ {"active"}
  BY DEF Lists
<1>2. /\ r \in Range(m.list["active"]) /\ m.req[r].tid = t
      /\ NestingOf(m)[t] = StackOf(m.req[r]) /\ Fits(m.req[r]) /\ m.req[r] \in Requests
      /\ RequestCount(m.req[r]) = Len(NestingOf(m)[t]) /\ RequestCount(m.req[r]) \in Nat
  BY <1>1, ActiveRequest
<1> HIDE DEF r
<1>3. RequestCount(m.req[r]) < MaxNest
  <2>1. Len(NestingOf(m)[t]) + 1 <= MaxNest
    BY AccessDepth
  <2> QED
    BY <1>2, <2>1, RequestListsAssumption
<1>4. /\ Fits(q) /\ StackOf(q) = Append(NestingOf(m)[t], kind)
      /\ q.tid = m.req[r].tid /\ q.signal = m.req[r].signal
      /\ RequestCount(q) = RequestCount(m.req[r]) + 1
  <2> DEFINE p == m.req[r]
  <2>1. Fits(p) /\ RequestCount(p) < MaxNest /\ p \in Requests
    BY <1>2, <1>3
  <2> HIDE DEF p
  <2>2. Fits(Add(p, kind))
    BY <2>1, AddFits
  <2>3. StackOf(Add(p, kind)) = Append(StackOf(p), kind)
    BY <2>1, AddPushes
  <2>4. /\ Add(p, kind).tid = p.tid /\ Add(p, kind).signal = p.signal
        /\ RequestCount(Add(p, kind)) = RequestCount(p) + 1
    BY <2>1, AddFields
  <2> QED
    BY <1>2, <2>2, <2>3, <2>4 DEF p
<1>5. Changed(L, "active", r, q)
  <2>1. RemoveRequest(m, "active", r).req[r] = m.req[r]
    BY <1>1, <1>2, ChangedAfter
  <2> QED
    BY <2>1 DEF Changed, MoreAccess, r
<1> HIDE DEF q
<1>6. SameOwner(q, m.req[r])
  BY <1>4 DEF SameOwner
<1>7. /\ Good(L, {r}) /\ L.req[r] = q /\ L.req[r].tid = t
      /\ Midway(L)
      /\ NestingOf(L) = [NestingOf(m) EXCEPT ![t] = StackOf(q)]
      /\ ThreadsIn(L, "active") = ThreadsIn(m, "active") \ {t}
      /\ ThreadsIn(L, "suspended") = ThreadsIn(m, "suspended")
  <2> DEFINE n == "active"
  <2>1. /\ n \in {"active", "suspended"} /\ Find(m, n, t) # NULL /\ Fits(q)
        /\ SameOwner(q, m.req[Find(m, n, t)]) /\ Changed(L, n, Find(m, n, t), q)
    BY <1>4, <1>5, <1>6 DEF r
  <2> HIDE DEF n
  <2>2. InHand(L, n, Find(m, n, t), t, q)
    BY <2>1, TakenActive
  <2> QED
    BY <1>1, <2>2 DEF n, r, InHand
<1>8. Holds(L, r, t)
  BY <1>2, <1>4, <1>7 DEF Holds
<1>9. NestingOf(L) = [NestingOf(m) EXCEPT ![t] = Append(@, kind)]
  BY <1>4, <1>7
<1> QED
  BY <1>7, <1>8, <1>9 DEF r

LEMMA GetSharedStep ==
    ASSUME AMP!IInv, Good(m, {}), NEW t \in Threads, GetSharedAccess(t)
    PROVE  Good(m', {}) /\ AM!GetSharedAccess(t)
<1> DEFINE r == Find(m, "active", t)
           L == [RemoveRequest(m, "active", r) EXCEPT !.req[r] = Add(@, "shared")]
<1>0. "active" \in Lists /\ "active" # "empty" /\ "shared" \in Kinds
  BY DEF Lists, Kinds
<1>1. pc[t] = "lock" /\ want[t] = "shared" /\ UNCHANGED Unlisted
  BY DEF GetSharedAccess
<1>2. UNCHANGED <<AM!refs, want>>
  BY <1>1 DEF Unlisted, AM!refs
<1>3. CASE r # NULL
  <2>1. m' = AddAtHead(L, "active", r) /\ pc' = [pc EXCEPT ![t] = "out"]
    BY <1>3 DEF GetSharedAccess
  <2>2. MoreAccess(L, t, "shared")
    BY DEF MoreAccess
  <2> HIDE DEF L
  <2>3. /\ Good(L, {r}) /\ Midway(L) /\ Holds(L, r, t)
        /\ NestingOf(L) = [NestingOf(m) EXCEPT ![t] = Append(@, "shared")]
        /\ ThreadsIn(L, "active") = ThreadsIn(m, "active") \ {t}
        /\ ThreadsIn(L, "suspended") = ThreadsIn(m, "suspended")
    BY <1>0, <1>1, <1>3, <2>2, OneAccessMore
  <2>4. t \in ThreadsIn(m, "active")
    BY <1>0, <1>3, ActiveRequest
  <2> HIDE DEF r
  <2>5. /\ Good(m', {})
        /\ NestingOf(m)' = NestingOf(L)
        /\ ThreadsIn(m, "suspended")' = ThreadsIn(L, "suspended")
        /\ ThreadsIn(m, "active")' = ThreadsIn(L, "active") \cup {t}
        /\ PendingOf(m)' = PendingOf(m) /\ SignalOf(m)' = SignalOf(m)
    BY <2>1, <2>3, PutBackStep
  <2>6. ThreadsIn(m, "active")' = ThreadsIn(m, "active")
    BY <2>3, <2>4, <2>5
  <2> QED
    BY <1>1, <1>2, <2>1, <2>3, <2>4, <2>5, <2>6 DEF AM!GetSharedAccess
<1>4. CASE r = NULL
  <2>1. PICK g \in Garbage :
            LET new == Allocate(m, g)
            IN  SatisfyRequest(t, Construct(new.state, new.request, t, "shared"), new.request)
    BY <1>4 DEF GetSharedAccess
  <2>2. /\ Good(m', {})
        /\ NestingOf(m)' = [NestingOf(m) EXCEPT ![t] = Append(@, "shared")]
        /\ ThreadsIn(m, "suspended")' = ThreadsIn(m, "suspended")
        /\ t \notin ThreadsIn(m, "active")
        /\ AM!SatisfyRequest(t, ThreadsIn(m, "active"), NestingOf(m)')
    BY <1>0, <1>1, <1>4, <2>1, NewRequestStep
  <2> QED
    BY <1>1, <1>2, <2>2 DEF AM!GetSharedAccess
<1> QED
  BY <1>3, <1>4

LEMMA GetExclusiveStep ==
    ASSUME AMP!IInv, Good(m, {}), NEW t \in Threads, GetExclusiveAccess(t)
    PROVE  Good(m', {}) /\ AM!GetExclusiveAccess(t)
<1> DEFINE r == Find(m, "active", t)
           L == [RemoveRequest(m, "active", r) EXCEPT !.req[r] = Add(@, "exclusive")]
<1>0. "active" \in Lists /\ "active" # "empty" /\ "exclusive" \in Kinds
  BY DEF Lists, Kinds
<1>1. pc[t] = "lock" /\ want[t] = "exclusive" /\ UNCHANGED Unlisted
  BY DEF GetExclusiveAccess
<1>2. UNCHANGED <<AM!refs, want>>
  BY <1>1 DEF Unlisted, AM!refs
<1>3. CASE r # NULL
  <2>1. \/ /\ m.req[r].exclusive > 0 /\ m' = AddAtHead(L, "active", r)
           /\ pc' = [pc EXCEPT ![t] = "out"]
        \/ m.req[r].exclusive = 0 /\ SatisfyRequest(t, L, r)
    BY <1>3 DEF GetExclusiveAccess
  <2>2. MoreAccess(L, t, "exclusive")
    BY DEF MoreAccess
  <2> HIDE DEF L
  <2>3. /\ Good(L, {r}) /\ Midway(L) /\ Holds(L, r, t)
        /\ NestingOf(L) = [NestingOf(m) EXCEPT ![t] = Append(@, "exclusive")]
        /\ ThreadsIn(L, "active") = ThreadsIn(m, "active") \ {t}
        /\ ThreadsIn(L, "suspended") = ThreadsIn(m, "suspended")
    BY <1>0, <1>1, <1>3, <2>2, OneAccessMore
  <2>4. t \in ThreadsIn(m, "active") /\ r \in Busy(m) /\ m.req[r].tid = t
    BY <1>0, <1>3, ActiveRequest
  <2> HIDE DEF r
  <2>5. AM!HasExclusive(NestingOf(m)[t]) <=> m.req[r].exclusive > 0
    BY <2>4, ExclusiveStack
  <2>6. CASE m.req[r].exclusive > 0
    <3>1. m' = AddAtHead(L, "active", r) /\ pc' = [pc EXCEPT ![t] = "out"]
      BY <2>1, <2>6
    <3>2. /\ Good(m', {})
          /\ NestingOf(m)' = NestingOf(L)
          /\ ThreadsIn(m, "suspended")' = ThreadsIn(L, "suspended")
          /\ ThreadsIn(m, "active")' = ThreadsIn(L, "active") \cup {t}
          /\ PendingOf(m)' = PendingOf(m) /\ SignalOf(m)' = SignalOf(m)
      BY <2>3, <3>1, PutBackStep
    <3>3. ThreadsIn(m, "active")' = ThreadsIn(m, "active")
      BY <2>3, <2>4, <3>2
    <3> QED
      BY <1>1, <1>2, <2>3, <2>4, <2>5, <2>6, <3>1, <3>2, <3>3 DEF AM!GetExclusiveAccess
  <2>7. CASE ~(m.req[r].exclusive > 0)
    <3>1. SatisfyRequest(t, L, r)
      BY <2>1, <2>7
    <3>2. /\ Good(m', {})
          /\ NestingOf(m)' = NestingOf(L)
          /\ ThreadsIn(m, "suspended")' = ThreadsIn(L, "suspended")
          /\ AM!SatisfyRequest(t, ThreadsIn(L, "active"), NestingOf(L))
      BY <2>3, <3>1, SatisfyRequestStep
    <3>3. AM!SatisfyRequest(t, ThreadsIn(m, "active") \ {t}, NestingOf(m)')
      BY <2>3, <3>2
    <3> QED
      BY <1>1, <1>2, <2>3, <2>4, <2>5, <2>7, <3>2, <3>3 DEF AM!GetExclusiveAccess
  <2> QED
    BY <2>6, <2>7
<1>4. CASE r = NULL
  <2>1. PICK g \in Garbage :
            LET new == Allocate(m, g)
            IN  SatisfyRequest(t, Construct(new.state, new.request, t, "exclusive"),
                               new.request)
    BY <1>4 DEF GetExclusiveAccess
  <2>2. /\ Good(m', {})
        /\ NestingOf(m)' = [NestingOf(m) EXCEPT ![t] = Append(@, "exclusive")]
        /\ ThreadsIn(m, "suspended")' = ThreadsIn(m, "suspended")
        /\ t \notin ThreadsIn(m, "active")
        /\ AM!SatisfyRequest(t, ThreadsIn(m, "active"), NestingOf(m)')
    BY <1>0, <1>1, <1>4, <2>1, NewRequestStep
  <2>3. ThreadsIn(m, "active") \ {t} = ThreadsIn(m, "active")
    BY <2>2
  <2>4. AM!SatisfyRequest(t, ThreadsIn(m, "active") \ {t}, NestingOf(m)')
    BY <2>2, <2>3
  <2> QED
    BY <1>1, <1>2, <2>2, <2>4 DEF AM!GetExclusiveAccess
<1> QED
  BY <1>3, <1>4

\* Only a busy request is signalled: the thread has one.
LEMMA WaitForSignalStep ==
    ASSUME AMP!IInv, Good(m, {}), NEW t \in Threads, WaitForSignal(t)
    PROVE  Good(m', {}) /\ AM!WaitForSignal(t)
<1> DEFINE r == RequestOf(m, t)
<1>1. /\ pc[t] = "waiting" /\ m.req[r].signal
      /\ m' = [m EXCEPT !.req[r].signal = FALSE]
      /\ pc' = [pc EXCEPT ![t] = "woken"] /\ UNCHANGED Unlisted
  BY DEF WaitForSignal
<1>2. UNCHANGED <<AM!refs, want>>
  BY <1>1 DEF Unlisted, AM!refs
<1>3. r \in Busy(m) /\ m.req[r].tid = t
  <2>1. NestingOf(m)[t] # <<>>
    <3>1. AMP!NoLostWakeup /\ AMP!OneListPerRequest
      BY DEF AMP!IInv
    <3>2. SignalOf(m)[t] <=> t \notin AMP!PendingThreads
      BY <1>1, <3>1 DEF AMP!NoLostWakeup
    <3>3. t \in ThreadsIn(m, "active") \/ t \in AMP!PendingThreads
      BY <3>1, <3>2, AccessPlaces
    <3> QED
      BY <3>1, <3>3 DEF AMP!OneListPerRequest
  <2>2. PICK x \in Busy(m) : m.req[x].tid = t
    BY <2>1, Views
  <2>3. RequestOf(m, t) = x
    BY <2>2, Views
  <2> QED
    BY <2>2, <2>3
<1> HIDE DEF r
<1>4. SignalOf(m)[t] = m.req[r].signal
  BY <1>3, Views
<1>5. SignalSet(m, m', r, FALSE)
  BY <1>1 DEF SignalSet
<1>6. /\ Good(m', {}) /\ m'.list = m.list
      /\ \A x \in Busy(m) : m'.req[x].tid = m.req[x].tid
      /\ NestingOf(m') = NestingOf(m)
      /\ SignalOf(m') = [SignalOf(m) EXCEPT ![t] = FALSE]
  <2> DEFINE M == m'
             X == {}
             b == FALSE
  <2>1. SignalSet(m, M, r, b) /\ b \in BOOLEAN /\ Good(m, X) /\ r \in Busy(m)
    BY <1>3, <1>5
  <2> HIDE DEF M, X, b
  <2>2. /\ Good(M, X) /\ M.list = m.list /\ Busy(M) = Busy(m)
        /\ \A x \in DOMAIN m.req : x # r => M.req[x] = m.req[x]
        /\ \A x \in Busy(m) : M.req[x].tid = m.req[x].tid
        /\ NestingOf(M) = NestingOf(m)
        /\ SignalOf(M) = [SignalOf(m) EXCEPT ![m.req[r].tid] = b]
    BY <2>1, SetSignal
  <2> QED
    BY <1>3, <2>2 DEF M, X, b
<1>7. \A n \in Lists \ {"empty"} : \A x \in Range(m.list[n]) : m'.req[x].tid = m.req[x].tid
  BY <1>6, GoodTypes
<1>8. "active" \in Lists \ {"empty"} /\ "suspended" \in Lists \ {"empty"}
      /\ "pending" \in Lists \ {"empty"}
  BY DEF Lists
<1>9. /\ ThreadsIn(m', "active") = ThreadsIn(m, "active")
      /\ ThreadsIn(m', "suspended") = ThreadsIn(m, "suspended")
  BY <1>6, <1>7, <1>8 DEF ThreadsIn
<1>10. PendingOf(m') = PendingOf(m)
  <2> DEFINE M == m'
  <2>1. /\ Good(M, {}) /\ M.list["pending"] = m.list["pending"]
        /\ \A x \in Range(m.list["pending"]) : M.req[x].tid = m.req[x].tid
    BY <1>6, <1>7, <1>8
  <2> HIDE DEF M
  <2>2. PendingOf(M) = PendingOf(m)
    BY <2>1, PendingSame
  <2> QED
    BY <2>2 DEF M
<1> QED
  BY <1>1, <1>2, <1>4, <1>6, <1>9, <1>10, Primes DEF AM!WaitForSignal

LEMMA SatisfyNextStep ==
    ASSUME AMP!IInv, Good(m, {}), NEW t \in Threads, SatisfyNext(t)
    PROVE  Good(m', {}) /\ AM!SatisfyNext(t)
<1>1. /\ pc[t] = "woken" /\ m' = SatisfyHead(m)
      /\ pc' = [pc EXCEPT ![t] = "out"] /\ UNCHANGED Unlisted
  BY DEF SatisfyNext
<1>2. UNCHANGED <<AM!refs, want>>
  BY <1>1 DEF Unlisted, AM!refs
<1>3. Midway(m)
  BY DEF Midway
<1>4. /\ Good(m', {})
      /\ NestingOf(m)' = NestingOf(m)
      /\ ThreadsIn(m, "suspended")' = ThreadsIn(m, "suspended")
      /\ AM!SatisfyHead(ThreadsIn(m, "active"), NestingOf(m), <<>>)
  BY <1>1, <1>3, SatisfyHeadStep
<1> QED
  BY <1>1, <1>2, <1>4 DEF AM!SatisfyNext

LEMMA ReleaseStep ==
    ASSUME AMP!IInv, Good(m, {}), NEW t \in Threads, ReleaseAccess(t)
    PROVE  Good(m', {}) /\ AM!ReleaseAccess(t)
<1> DEFINE r == Find(m, "active", t)
           L == [RemoveRequest(m, "active", r) EXCEPT !.req[r] = RemoveLast(@)]
           n == IF RequestCount(L.req[r]) > 0 THEN "active" ELSE "empty"
           K == AddAtHead(L, n, r)
           q == RemoveLast(m.req[r])
<1>0. "active" \in Lists /\ "active" # "empty" /\ "active" \in {"active", "suspended"}
      /\ "suspended" \in {"active", "suspended"} \ {"active"}
      /\ "active" \in Lists \ {"empty", "pending"} /\ "suspended" \in Lists \ {"empty"}
      /\ "active" \in Lists \ {"empty"}
  BY DEF Lists
<1>1. /\ pc[t] = "out" /\ r # NULL /\ m' = SatisfyHead(K)
      /\ pc' = [pc EXCEPT ![t] = "decref"]
      /\ UNCHANGED <<refcount, allRefsReleased, want, zeroSeen>>
  BY DEF ReleaseAccess
<1>2. /\ r \in Range(m.list["active"]) /\ m.req[r].tid = t /\ t \in ThreadsIn(m, "active")
      /\ NestingOf(m)[t] = StackOf(m.req[r]) /\ Fits(m.req[r]) /\ m.req[r] \in Requests
      /\ RequestCount(m.req[r]) = Len(NestingOf(m)[t]) /\ RequestCount(m.req[r]) \in Nat
      /\ RequestCount(m.req[r]) > 0
  BY <1>0, <1>1, ActiveRequest
<1> HIDE DEF r
<1>3. /\ Fits(q) /\ StackOf(q) = AM!RemoveLast(NestingOf(m)[t])
      /\ q.tid = m.req[r].tid /\ q.signal = m.req[r].signal
      /\ RequestCount(q) = Len(NestingOf(m)[t]) - 1
  <2> DEFINE p == m.req[r]
  <2>1. Fits(p) /\ RequestCount(p) > 0
    BY <1>2
  <2> HIDE DEF p
  <2>2. /\ Fits(RemoveLast(p))
        /\ RequestCount(RemoveLast(p)) = RequestCount(p) - 1
        /\ StackOf(RemoveLast(p)) = SubSeq(StackOf(p), 1, Len(StackOf(p)) - 1)
        /\ RemoveLast(p).tid = p.tid /\ RemoveLast(p).signal = p.signal
    BY <2>1, RemoveLastFits
  <2> QED
    BY <1>2, <2>2 DEF p, AM!RemoveLast
<1>4. Changed(L, "active", r, q)
  <2>1. RemoveRequest(m, "active", r).req[r] = m.req[r]
    BY <1>0, <1>2, ChangedAfter
  <2> QED
    BY <2>1 DEF Changed
<1> HIDE DEF q, L
<1>5. SameOwner(q, m.req[r])
  BY <1>3 DEF SameOwner
<1>6. InHand(L, "active", r, t, q)
  <2> DEFINE a == "active"
  <2>1. /\ a \in {"active", "suspended"} /\ Find(m, a, t) # NULL /\ Fits(q)
        /\ SameOwner(q, m.req[Find(m, a, t)]) /\ Changed(L, a, Find(m, a, t), q)
    BY <1>1, <1>3, <1>4, <1>5 DEF r
  <2> HIDE DEF a
  <2>2. InHand(L, a, Find(m, a, t), t, q)
    BY <2>1, TakenActive
  <2> QED
    BY <2>2 DEF a, r
<1>7. /\ Good(L, {r}) /\ L.req[r] = q /\ L.req[r].tid = t /\ Midway(L)
      /\ SignalOf(m)[t] = q.signal
      /\ NestingOf(L) = [NestingOf(m) EXCEPT ![t] = AM!RemoveLast(@)]
      /\ ThreadsIn(L, "active") = ThreadsIn(m, "active") \ {t}
      /\ ThreadsIn(L, "suspended") = ThreadsIn(m, "suspended")
  BY <1>0, <1>3, <1>6 DEF InHand
<1> DEFINE len == Len(NestingOf(m)[t])
<1>10. len \in Nat /\ RequestCount(q) = len - 1 /\ len > 0
  BY <1>2, <1>3
<1> HIDE DEF len
<1>11. RequestCount(q) > 0 <=> len > 1
  BY <1>10
<1>12. ~(RequestCount(q) > 0) => RequestCount(q) = 0
  BY <1>10
<1>8. CASE RequestCount(q) > 0
  <2>1. K = AddAtHead(L, "active", r) /\ RequestCount(L.req[r]) > 0
    BY <1>7, <1>8
  <2> HIDE DEF n, K
  <2>2. /\ Good(K, {})
        /\ NestingOf(K) = NestingOf(L) /\ SignalOf(K) = SignalOf(L)
        /\ PendingOf(K) = PendingOf(L)
        /\ ThreadsIn(K, "active") = ThreadsIn(L, "active") \cup {L.req[r].tid}
        /\ ThreadsIn(K, "suspended") = ThreadsIn(L, "suspended")
    <3>1. /\ "active" \in Lists \ {"empty", "pending"} /\ Good(L, {r})
          /\ RequestCount(L.req[r]) > 0
          /\ \A k \in {"suspended"} : k \in Lists /\ k # "active"
      BY <1>0, <1>7, <2>1
    <3> DEFINE M == AddAtHead(L, "active", r)
    <3>2. /\ Good(M, {})
          /\ NestingOf(M) = NestingOf(L) /\ SignalOf(M) = SignalOf(L)
          /\ PendingOf(M) = PendingOf(L)
          /\ ThreadsIn(M, "active") = ThreadsIn(L, "active") \cup {L.req[r].tid}
          /\ \A k \in Lists : k # "active" => ThreadsIn(M, k) = ThreadsIn(L, k)
      BY <3>1, PutBack
    <3> HIDE DEF M
    <3>3. K = M
      BY <2>1 DEF M
    <3> QED
      BY <3>1, <3>2, <3>3
  <2>3. Midway(K)
    BY <1>7, <2>2 DEF Midway
  <2>4. /\ Good(m', {})
        /\ NestingOf(m)' = NestingOf(K)
        /\ ThreadsIn(m, "suspended")' = ThreadsIn(K, "suspended")
        /\ AM!SatisfyHead(ThreadsIn(K, "active"), NestingOf(K), <<>>)
    BY <1>1, <2>2, <2>3, SatisfyHeadStep
  <2>5. ThreadsIn(K, "active") = ThreadsIn(m, "active") /\ Len(NestingOf(m)[t]) > 1
    BY <1>2, <1>7, <1>8, <1>11, <2>2 DEF len
  <2>6. AM!SatisfyHead(IF Len(NestingOf(m)[t]) > 1 THEN ThreadsIn(m, "active")
                       ELSE ThreadsIn(m, "active") \ {t}, NestingOf(m)', <<>>)
    BY <2>4, <2>5
  <2> QED
    BY <1>1, <1>2, <1>7, <2>2, <2>4, <2>6 DEF AM!ReleaseAccess
<1>9. CASE ~(RequestCount(q) > 0)
  <2>1. K = AddAtHead(L, "empty", r)
    BY <1>7, <1>9
  <2>2. RequestCount(L.req[r]) = 0 /\ ~L.req[r].signal /\ ~(Len(NestingOf(m)[t]) > 1)
    <3>1. ~SignalOf(m)[t]
      BY <1>1, AccessPlaces
    <3>2. RequestCount(q) = 0 /\ ~(Len(NestingOf(m)[t]) > 1)
      BY <1>9, <1>11, <1>12 DEF len
    <3> QED
      BY <1>7, <3>1, <3>2
  <2>3. /\ Good(K, {})
        /\ NestingOf(K) = NestingOf(L) /\ SignalOf(K) = SignalOf(L)
        /\ PendingOf(K) = PendingOf(L)
        /\ ThreadsIn(K, "active") = ThreadsIn(L, "active")
        /\ ThreadsIn(K, "suspended") = ThreadsIn(L, "suspended")
    BY <1>0, <1>7, <2>1, <2>2, PutInPool
  <2> HIDE DEF K
  <2>4. Midway(K)
    BY <1>7, <2>3 DEF Midway
  <2>5. /\ Good(m', {})
        /\ NestingOf(m)' = NestingOf(K)
        /\ ThreadsIn(m, "suspended")' = ThreadsIn(K, "suspended")
        /\ AM!SatisfyHead(ThreadsIn(K, "active"), NestingOf(K), <<>>)
    BY <1>1, <2>3, <2>4, SatisfyHeadStep
  <2>6. AM!SatisfyHead(IF Len(NestingOf(m)[t]) > 1 THEN ThreadsIn(m, "active")
                       ELSE ThreadsIn(m, "active") \ {t}, NestingOf(m)', <<>>)
    BY <1>7, <2>2, <2>3, <2>5
  <2> QED
    BY <1>1, <1>2, <1>7, <2>3, <2>5, <2>6 DEF AM!ReleaseAccess
<1> QED
  BY <1>8, <1>9

\* SuspendAccess undoes what it does to a request with exclusive access.
LEMMA AddThenRemove ==
    ASSUME NEW q, Fits(q), NEW kind \in Kinds, RequestCount(q) < MaxNest, q \in Requests
    PROVE  /\ Fits(RemoveLast(Add(q, kind)))
           /\ StackOf(RemoveLast(Add(q, kind))) = StackOf(q)
           /\ RemoveLast(Add(q, kind)).tid = q.tid
           /\ RemoveLast(Add(q, kind)).signal = q.signal
<1> DEFINE p == Add(q, kind)
           s == StackOf(q)
<1>1. Fits(p)
  BY AddFits
<1>2. StackOf(p) = Append(s, kind)
  BY AddPushes
<1>3. p.tid = q.tid /\ p.signal = q.signal /\ RequestCount(p) = RequestCount(q) + 1
  BY AddFields
<1>4. s \in Seq(Kinds) /\ RequestCount(q) \in Nat
  BY StackType
<1> HIDE DEF p, s
<1>5. RequestCount(p) > 0
  BY <1>3, <1>4
<1>6. /\ Fits(RemoveLast(p))
      /\ StackOf(RemoveLast(p)) = SubSeq(StackOf(p), 1, Len(StackOf(p)) - 1)
      /\ RemoveLast(p).tid = p.tid /\ RemoveLast(p).signal = p.signal
  BY <1>1, <1>5, RemoveLastFits
<1>7. SubSeq(Append(s, kind), 1, Len(Append(s, kind)) - 1) = s
  BY <1>4
<1> QED
  BY <1>2, <1>3, <1>6, <1>7 DEF p, s

LEMMA SuspendStep ==
    ASSUME AMP!IInv, Good(m, {}), NEW t \in Threads, SuspendAccess(t)
    PROVE  Good(m', {}) /\ (AM!SuspendAccess(t) \/ UNCHANGED AM!vars)
<1> DEFINE r == Find(m, "active", t)
           p == m.req[r]
           q == IF p.exclusive > 0 THEN RemoveLast(Add(p, "exclusive")) ELSE p
           L == [RemoveRequest(m, "active", r) EXCEPT
                    !.req[r] = IF p.exclusive > 0 THEN RemoveLast(Add(@, "exclusive")) ELSE @]
           K == AddAtHead(L, "suspended", r)
<1>0. "active" \in Lists /\ "active" # "empty" /\ "active" \in {"active", "suspended"}
      /\ "suspended" \in {"active", "suspended"} \ {"active"}
      /\ "suspended" \in Lists \ {"empty", "pending"} /\ "active" # "suspended"
  BY DEF Lists
<1>1. /\ pc[t] = "out" /\ r # NULL /\ UNCHANGED refs
      /\ IF p.exclusive > 0 /\ RequestCount(p) = MaxNest THEN UNCHANGED m
         ELSE m' = SatisfyHead(K)
  BY DEF SuspendAccess
<1>2. UNCHANGED <<AM!refs, pc, want>>
  BY <1>1 DEF refs, AM!refs
<1>3. CASE p.exclusive > 0 /\ RequestCount(p) = MaxNest
  <2>1. m' = m
    BY <1>1, <1>3
  <2>2. Good(m', {})
    BY <2>1
  <2>3. UNCHANGED AM!vars
    BY <1>2, <2>1, Primes DEF AM!vars, AM!refs
  <2> QED
    BY <2>2, <2>3
<1>4. CASE ~(p.exclusive > 0 /\ RequestCount(p) = MaxNest)
  <2>1. m' = SatisfyHead(K)
    BY <1>1, <1>4
  <2>2. /\ r \in Range(m.list["active"]) /\ m.req[r].tid = t /\ t \in ThreadsIn(m, "active")
        /\ NestingOf(m)[t] = StackOf(p) /\ Fits(p) /\ p \in Requests
        /\ RequestCount(p) \in Nat /\ RequestCount(p) > 0
    BY <1>0, <1>1, ActiveRequest
  <2> HIDE DEF r
  <2>3. Fits(q) /\ StackOf(q) = StackOf(p) /\ q.tid = p.tid /\ q.signal = p.signal
    <3>1. CASE p.exclusive > 0
      <4>1. RequestCount(p) < MaxNest
        BY <1>4, <2>2, <3>1, RequestListsAssumption DEF Fits
      <4>2. "exclusive" \in Kinds
        BY DEF Kinds
      <4> HIDE DEF p
      <4> QED
        BY <2>2, <3>1, <4>1, <4>2, AddThenRemove
    <3>2. CASE ~(p.exclusive > 0)
      BY <2>2, <3>2
    <3> QED
      BY <3>1, <3>2
  <2>4. Changed(L, "active", r, q)
    <3>1. RemoveRequest(m, "active", r).req[r] = m.req[r]
      BY <1>0, <2>2, ChangedAfter
    <3> QED
      BY <3>1 DEF Changed
  <2> HIDE DEF q, L
  <2>5. SameOwner(q, m.req[r]) /\ RequestCount(q) > 0
    <3>1. q \in Requests /\ RequestCount(q) = Len(StackOf(q)) /\ RequestCount(p) = Len(StackOf(p))
      <4>1. q \in Requests
        BY <2>3 DEF Fits
      <4> QED
        BY <2>2, <4>1, StackType
    <3> QED
      BY <2>2, <2>3, <3>1 DEF SameOwner
  <2>6. InHand(L, "active", r, t, q)
    <3> DEFINE a == "active"
    <3>1. /\ a \in {"active", "suspended"} /\ Find(m, a, t) # NULL /\ Fits(q)
          /\ SameOwner(q, m.req[Find(m, a, t)]) /\ Changed(L, a, Find(m, a, t), q)
      BY <1>1, <2>3, <2>4, <2>5 DEF r
    <3> HIDE DEF a
    <3>2. InHand(L, a, Find(m, a, t), t, q)
      BY <3>1, TakenActive
    <3> QED
      BY <3>2 DEF a, r
  <2>7. /\ Good(L, {r}) /\ L.req[r] = q /\ L.req[r].tid = t /\ Midway(L)
        /\ NestingOf(L) = [NestingOf(m) EXCEPT ![t] = NestingOf(m)[t]]
        /\ ThreadsIn(L, "active") = ThreadsIn(m, "active") \ {t}
        /\ ThreadsIn(L, "suspended") = ThreadsIn(m, "suspended")
    BY <1>0, <2>2, <2>3, <2>6 DEF InHand
  <2>8. NestingOf(L) = NestingOf(m)
    <3>1. NestingOf(m) = [u \in Threads |-> NestingOf(m)[u]]
      BY ViewTypes
    <3> QED
      BY <2>7, <3>1
  <2>9. /\ Good(K, {})
        /\ NestingOf(K) = NestingOf(L) /\ SignalOf(K) = SignalOf(L)
        /\ PendingOf(K) = PendingOf(L)
        /\ ThreadsIn(K, "suspended") = ThreadsIn(L, "suspended") \cup {L.req[r].tid}
        /\ ThreadsIn(K, "active") = ThreadsIn(L, "active")
    BY <1>0, <2>5, <2>7, PutBack
  <2> HIDE DEF K
  <2>10. Midway(K)
    BY <2>7, <2>9 DEF Midway
  <2>11. /\ Good(m', {})
         /\ NestingOf(m)' = NestingOf(K)
         /\ ThreadsIn(m, "suspended")' = ThreadsIn(K, "suspended")
         /\ AM!SatisfyHead(ThreadsIn(K, "active"), NestingOf(K), <<>>)
    BY <2>1, <2>9, <2>10, SatisfyHeadStep
  <2>12. /\ ThreadsIn(m, "suspended")' = ThreadsIn(m, "suspended") \cup {t}
         /\ AM!SatisfyHead(ThreadsIn(m, "active") \ {t}, NestingOf(m), <<>>)
         /\ NestingOf(m)' = NestingOf(m)
    BY <2>7, <2>8, <2>9, <2>11
  <2> QED
    BY <1>1, <1>2, <2>2, <2>11, <2>12 DEF AM!SuspendAccess
<1> QED
  BY <1>3, <1>4

LEMMA ResumeStep ==
    ASSUME AMP!IInv, Good(m, {}), NEW t \in Threads, ResumeAccess(t)
    PROVE  Good(m', {}) /\ AM!ResumeAccess(t)
<1> DEFINE r == Find(m, "suspended", t)
           L == RemoveRequest(m, "suspended", r)
           q == m.req[r]
<1>0. "suspended" \in Lists /\ "suspended" # "empty" /\ "suspended" \in {"active", "suspended"}
      /\ "active" \in {"active", "suspended"} \ {"suspended"}
  BY DEF Lists
<1>1. pc[t] = "out" /\ r # NULL /\ SatisfyRequest(t, L, r) /\ UNCHANGED Unlisted
  BY DEF ResumeAccess
<1>2. UNCHANGED <<AM!refs, want>>
  BY <1>1 DEF Unlisted, AM!refs
<1>3. /\ r \in Range(m.list["suspended"]) /\ t \in ThreadsIn(m, "suspended")
      /\ NestingOf(m)[t] = StackOf(q) /\ Fits(q) /\ RequestCount(q) > 0
  BY <1>0, <1>1, ActiveRequest
<1> HIDE DEF r
<1>4. Changed(L, "suspended", r, q)
  BY <1>0, <1>3, ChangedAfter DEF Changed
<1> HIDE DEF L
<1>5. SameOwner(q, m.req[r])
  BY DEF SameOwner
<1> HIDE DEF q
<1>6. InHand(L, "suspended", r, t, q)
  <2> DEFINE a == "suspended"
  <2>1. /\ a \in {"active", "suspended"} /\ Find(m, a, t) # NULL /\ Fits(q)
        /\ SameOwner(q, m.req[Find(m, a, t)]) /\ Changed(L, a, Find(m, a, t), q)
    BY <1>1, <1>3, <1>4, <1>5 DEF r
  <2> HIDE DEF a
  <2>2. InHand(L, a, Find(m, a, t), t, q)
    BY <2>1, TakenActive
  <2> QED
    BY <2>2 DEF a, r
<1>7. /\ Good(L, {r}) /\ Midway(L) /\ Holds(L, r, t)
      /\ NestingOf(L) = [NestingOf(m) EXCEPT ![t] = NestingOf(m)[t]]
      /\ ThreadsIn(L, "suspended") = ThreadsIn(m, "suspended") \ {t}
      /\ ThreadsIn(L, "active") = ThreadsIn(m, "active")
  BY <1>0, <1>3, <1>6 DEF InHand, Holds
<1>8. NestingOf(L) = NestingOf(m)
  <2>1. NestingOf(m) = [u \in Threads |-> NestingOf(m)[u]]
    BY ViewTypes
  <2> QED
    BY <1>7, <2>1
<1>9. /\ Good(m', {})
      /\ NestingOf(m)' = NestingOf(L)
      /\ ThreadsIn(m, "suspended")' = ThreadsIn(L, "suspended")
      /\ AM!SatisfyRequest(t, ThreadsIn(L, "active"), NestingOf(L))
  BY <1>1, <1>7, SatisfyRequestStep
<1>10. /\ ThreadsIn(m, "suspended")' = ThreadsIn(m, "suspended") \ {t}
       /\ AM!SatisfyRequest(t, ThreadsIn(m, "active"), NestingOf(m))
       /\ NestingOf(m)' = NestingOf(m)
  BY <1>7, <1>8, <1>9
<1> QED
  BY <1>1, <1>2, <1>3, <1>9, <1>10 DEF AM!ResumeAccess

\* ReleaseAll and AcquireAll: where a thread is in them, and what is on its stack.
AllTypes ==
    /\ all \in [Threads -> [at : {"no", "release", "acquire"}, stack : Seq(Kinds)]]
    /\ was \in [Threads -> Seq(Kinds)]

LEMMA Stutters ==
    ASSUME UNCHANGED <<m, refs>>
    PROVE  UNCHANGED AM!vars
  BY Primes DEF refs, AM!vars

\* What a thread does in one step
Step(t) ==
    \/ (\E kind \in AM!Kinds : Acquire(t, kind)) \/ Outside(t)
    \/ GetSharedAccess(t) \/ GetExclusiveAccess(t) \/ WaitForSignal(t) \/ SatisfyNext(t)
    \/ Release(t) \/ ReleaseAndWait(t) \/ SuspendAccess(t) \/ ResumeAccess(t)
    \/ ReleaseAll(t) \/ ReleaseNext(t) \/ AcquireAll(t) \/ AcquireNext(t)

\* Every step is a step of AccessManager or changes nothing in it.
LEMMA ThreadStep ==
    ASSUME AMP!IInv, Good(m, {}), AllTypes, NEW t \in Threads, Step(t)
    PROVE  Good(m', {}) /\ (AM!Proceed(t) \/ AM!Call(t) \/ UNCHANGED AM!vars)
<1>1. CASE \E kind \in AM!Kinds : Acquire(t, kind)
  <2>1. PICK kind \in AM!Kinds : Acquire(t, kind)
    BY <1>1
  <2>2. m' = m /\ AM!IncRef(t, kind)
    BY <2>1 DEF Acquire
  <2> QED
    BY <2>2 DEF AM!Call
<1>2. CASE Outside(t)
  <2>1. /\ m' = m
        /\ \/ AM!ResetAllRefsReleased(t) \/ AM!DecRef(t) \/ AM!ReleaseAllRefsReleased(t)
           \/ AM!WaitForAllReferences(t)
    BY <1>2 DEF Outside
  <2> QED
    BY <2>1 DEF AM!Proceed
<1>3. CASE GetSharedAccess(t)
  BY <1>3, GetSharedStep DEF AM!Proceed
<1>4. CASE GetExclusiveAccess(t)
  BY <1>4, GetExclusiveStep DEF AM!Proceed
<1>5. CASE WaitForSignal(t)
  BY <1>5, WaitForSignalStep DEF AM!Proceed
<1>6. CASE SatisfyNext(t)
  BY <1>6, SatisfyNextStep DEF AM!Proceed
<1>7. CASE Release(t)
  <2>1. ReleaseAccess(t) /\ UNCHANGED closing
    BY <1>7 DEF Release
  <2> QED
    BY <2>1, ReleaseStep DEF AM!Release, AM!Call
<1>8. CASE ReleaseAndWait(t)
  <2>1. /\ ReleaseAccess(t) /\ closing' = closing \cup {t}
        /\ Find(m, "active", t) # NULL
        /\ RequestCount(m.req[Find(m, "active", t)]) = 1
    BY <1>8 DEF ReleaseAndWait
  <2>2. Len(NestingOf(m)[t]) = 1
    <3>1. "active" \in Lists /\ "active" # "empty"
      BY DEF Lists
    <3> QED
      BY <2>1, <3>1, ActiveRequest
  <2> QED
    BY <2>1, <2>2, ReleaseStep DEF AM!ReleaseAndWait, AM!Call
<1>9. CASE SuspendAccess(t)
  BY <1>9, SuspendStep DEF AM!Call
<1>10. CASE ResumeAccess(t)
  BY <1>10, ResumeStep DEF AM!Call
<1>11. CASE ReleaseAll(t)
  BY <1>11, Stutters DEF ReleaseAll
<1>12. CASE ReleaseNext(t)
  <2>1. ReleaseAccess(t) /\ UNCHANGED closing
    BY <1>12 DEF ReleaseNext
  <2> QED
    BY <2>1, ReleaseStep DEF AM!Release, AM!Call
<1>13. CASE AcquireAll(t)
  BY <1>13, Stutters DEF AcquireAll
<1>14. CASE AcquireNext(t)
  <2>1. CASE all[t].stack # <<>>
    <3>1. m' = m /\ AM!IncRef(t, Last(all[t].stack))
      BY <1>14, <2>1 DEF AcquireNext
    <3>2. Last(all[t].stack) \in AM!Kinds
      <4> DEFINE s == all[t].stack
      <4>1. s \in Seq(Kinds)
        BY DEF AllTypes
      <4> HIDE DEF s
      <4>2. Len(s) \in 1 .. Len(s) /\ Last(s) = s[Len(s)]
        BY <2>1, <4>1 DEF Last, s
      <4> QED
        BY <4>1, <4>2 DEF s, Kinds, AM!Kinds
    <3> QED
      BY <3>1, <3>2 DEF AM!Call
  <2>2. CASE all[t].stack = <<>>
    <3>1. UNCHANGED <<m, refs>>
      BY <1>14, <2>2 DEF AcquireNext
    <3> QED
      BY <3>1, Stutters
  <2> QED
    BY <2>1, <2>2
<1> QED
  BY <1>1, <1>2, <1>3, <1>4, <1>5, <1>6, <1>7, <1>8, <1>9, <1>10, <1>11, <1>12,
     <1>13, <1>14 DEF Step

LEMMA StepImplements ==
    ASSUME AMP!IInv, Good(m, {}), AllTypes, [Next]_vars
    PROVE  Good(m', {}) /\ [AM!Next]_(AM!vars)
<1>1. CASE UNCHANGED vars
  BY <1>1, Stutters DEF vars
<1>2. CASE Next
  <2>1. PICK t \in Threads : Step(t)
    BY <1>2 DEF Next, Step
  <2> QED
    BY <2>1, ThreadStep DEF AM!Next
<1> QED
  BY <1>1, <1>2

-----------------------------------------------------------------------------
(* What ReleaseAll and AcquireAll have left of a thread's accesses         *)

\* w is n and then, from its top, the stack s.
Continues(w, n, s) ==
    /\ Len(w) = Len(n) + Len(s)
    /\ \A i \in 1 .. Len(n) : w[i] = n[i]
    /\ \A i \in 1 .. Len(s) : w[(Len(w) + 1) - i] = s[i]

LEMMA ContinuesNone ==
    ASSUME NEW w \in Seq(Kinds), NEW n \in Seq(Kinds), NEW s \in Seq(Kinds)
    PROVE  /\ Continues(n, n, <<>>)
           /\ s = <<>> /\ Continues(w, n, s) => n = w
<1>1. Continues(n, n, <<>>)
  BY DEF Continues
<1>2. ASSUME s = <<>>, Continues(w, n, s) PROVE n = w
  <2>1. Len(w) = Len(n) /\ \A i \in 1 .. Len(n) : w[i] = n[i]
    BY <1>2 DEF Continues
  <2>2. /\ n = [i \in 1 .. Len(n) |-> n[i]] /\ w = [i \in 1 .. Len(w) |-> w[i]]
    OBVIOUS
  <2> QED
    BY <2>1, <2>2
<1> QED
  BY <1>1, <1>2

\* One access goes from the thread to the stack,
LEMMA ContinuesDown ==
    ASSUME NEW w \in Seq(Kinds), NEW n \in Seq(Kinds), NEW s \in Seq(Kinds), n # <<>>,
           NEW x \in Kinds, x = n[Len(n)], Continues(w, n, s)
    PROVE  Continues(w, SubSeq(n, 1, Len(n) - 1), Append(s, x))
<1> DEFINE k == Len(n)
           j == Len(s)
           f == SubSeq(n, 1, k - 1)
           a == Append(s, x)
<1>1. k \in Nat /\ j \in Nat /\ k > 0 /\ Len(w) = k + j
  BY DEF Continues
<1>2. Len(f) = k - 1 /\ \A i \in 1 .. k - 1 : f[i] = n[i]
  BY <1>1, Shortened
<1>3. Len(a) = j + 1 /\ a[j + 1] = x /\ \A i \in 1 .. j : a[i] = s[i]
  OBVIOUS
<1>4. w[k] = x
  <2>1. k \in 1 .. Len(n)
    BY <1>1
  <2> QED
    BY <2>1 DEF Continues
<1>5. \A i \in 1 .. k - 1 : w[i] = f[i]
  BY <1>1, <1>2 DEF Continues
<1>6. ASSUME NEW i \in 1 .. j + 1 PROVE w[(Len(w) + 1) - i] = a[i]
  <2>1. CASE i = j + 1
    <3>1. (Len(w) + 1) - i = k
      BY <1>1, <2>1
    <3> QED
      BY <1>3, <1>4, <2>1, <3>1
  <2>2. CASE i # j + 1
    <3>1. i \in 1 .. j
      BY <1>1, <2>2
    <3>2. w[(Len(w) + 1) - i] = s[i]
      BY <3>1 DEF Continues
    <3> QED
      BY <1>3, <3>1, <3>2
  <2> QED
    BY <2>1, <2>2
<1> HIDE DEF k, j, f, a
<1>7. Len(w) = Len(f) + Len(a)
  BY <1>1, <1>2, <1>3
<1>8. \A i \in 1 .. Len(f) : w[i] = f[i]
  BY <1>2, <1>5
<1>9. \A i \in 1 .. Len(a) : w[(Len(w) + 1) - i] = a[i]
  BY <1>3, <1>6
<1>10. Continues(w, f, a)
  BY <1>7, <1>8, <1>9 DEF Continues
<1> QED
  BY <1>10 DEF f, a, k

\* and back.
LEMMA ContinuesUp ==
    ASSUME NEW w \in Seq(Kinds), NEW n \in Seq(Kinds), NEW s \in Seq(Kinds), s # <<>>,
           Continues(w, n, s)
    PROVE  Continues(w, Append(n, Last(s)), Front(s))
<1> DEFINE k == Len(n)
           j == Len(s)
           f == Front(s)
           a == Append(n, Last(s))
<1>1. k \in Nat /\ j \in Nat /\ j > 0 /\ Len(w) = k + j
  BY DEF Continues
<1>2. Len(f) = j - 1 /\ \A i \in 1 .. j - 1 : f[i] = s[i]
  <2> DEFINE l == Len(s)
  <2>1. l \in Nat /\ l = Len(s) /\ l > 0 /\ f = SubSeq(s, 1, l - 1) /\ j = l
    BY <1>1 DEF Front
  <2> HIDE DEF l, f
  <2>2. /\ Len(SubSeq(s, 1, l - 1)) = l - 1
        /\ \A i \in 1 .. l - 1 : SubSeq(s, 1, l - 1)[i] = s[i]
    BY <2>1, Shortened
  <2> QED
    BY <2>1, <2>2
<1>3. Len(a) = k + 1 /\ a[k + 1] = s[j] /\ \A i \in 1 .. k : a[i] = n[i]
  BY DEF Last
<1>4. w[k + 1] = s[j]
  <2>1. j \in 1 .. Len(s) /\ (Len(w) + 1) - j = k + 1
    BY <1>1
  <2>2. w[(Len(w) + 1) - j] = s[j]
    BY <2>1 DEF Continues
  <2> QED
    BY <2>1, <2>2
<1>5. ASSUME NEW i \in 1 .. k + 1 PROVE w[i] = a[i]
  <2>1. CASE i = k + 1
    BY <1>3, <1>4, <2>1
  <2>2. CASE i # k + 1
    <3>1. i \in 1 .. k
      BY <1>1, <2>2
    <3> QED
      BY <1>3, <3>1 DEF Continues
  <2> QED
    BY <2>1, <2>2
<1>6. ASSUME NEW i \in 1 .. j - 1 PROVE w[(Len(w) + 1) - i] = f[i]
  <2>1. i \in 1 .. j
    BY <1>1
  <2> QED
    BY <1>2, <2>1 DEF Continues
<1> HIDE DEF k, j, f, a
<1>7. Len(w) = Len(a) + Len(f)
  BY <1>1, <1>2, <1>3
<1>8. \A i \in 1 .. Len(a) : w[i] = a[i]
  BY <1>3, <1>5
<1>9. \A i \in 1 .. Len(f) : w[(Len(w) + 1) - i] = f[i]
  BY <1>2, <1>6
<1>10. Continues(w, a, f)
  BY <1>7, <1>8, <1>9 DEF Continues
<1> QED
  BY <1>10 DEF f, a

\* The accesses of t, with the one that it is about to get
Wanted(t) ==
    IF pc[t] \in {"reset", "lock"} THEN Append(NestingOf(m)[t], want[t]) ELSE NestingOf(m)[t]

AllOf(t) ==
    /\ all[t].at = "no" => all[t].stack = <<>>
    /\ all[t].at # "no" => Continues(was[t], Wanted(t), all[t].stack)
    /\ all[t].at = "release" => pc[t] \notin {"reset", "lock"}

\* The step is nothing to t.
Keeps(t) ==
    /\ Wanted(t)' = Wanted(t)
    /\ pc[t] \notin {"reset", "lock"} => pc'[t] \notin {"reset", "lock"}

LEMMA KeepsWanted ==
    ASSUME NEW t, NestingOf(m)'[t] = NestingOf(m)[t], want'[t] = want[t],
           pc'[t] \in {"reset", "lock"} <=> pc[t] \in {"reset", "lock"}
    PROVE  Keeps(t)
  BY DEF Keeps, Wanted

LEMMA GrantsWanted ==
    ASSUME NEW t, NestingOf(m)'[t] = Append(NestingOf(m)[t], want[t]),
           pc[t] = "lock", pc'[t] \notin {"reset", "lock"}
    PROVE  Keeps(t)
  BY DEF Keeps, Wanted

\* What another thread does
LEMMA OthersKeep ==
    ASSUME AMP!IInv, Good(m, {}), NEW t \in Threads, NEW u \in Threads, u # t,
           AM!Proceed(t) \/ AM!Call(t) \/ UNCHANGED AM!vars
    PROVE  Keeps(u)
<1>1. /\ pc = [v \in Threads |-> pc[v]] /\ want = [v \in Threads |-> want[v]]
      /\ NestingOf(m) = [v \in Threads |-> NestingOf(m)[v]]
  BY AccessTypes, ViewTypes
<1> DEFINE n == NestingOf(m)
           o == NestingOf(m)'
<1>2. /\ o = n \/ \E x : o = [n EXCEPT ![t] = x]
      /\ pc' = pc \/ \E x : pc' = [pc EXCEPT ![t] = x]
      /\ want' = want \/ \E x : want' = [want EXCEPT ![t] = x]
  <2>1. CASE UNCHANGED AM!vars
    BY <2>1 DEF AM!vars
  <2>2. CASE AM!Proceed(t)
    BY <2>2 DEF AM!Proceed, AM!ResetAllRefsReleased, AM!GetSharedAccess, AM!GetExclusiveAccess,
       AM!WaitForSignal, AM!SatisfyNext, AM!DecRef, AM!ReleaseAllRefsReleased,
       AM!WaitForAllReferences, AM!SatisfyRequest, AM!lists, AM!refs
  <2>3. CASE AM!Call(t)
    BY <2>3 DEF AM!Call, AM!IncRef, AM!Release, AM!ReleaseAndWait, AM!ReleaseAccess,
       AM!SuspendAccess, AM!ResumeAccess, AM!SatisfyRequest, AM!lists, AM!refs
  <2> QED
    BY <2>1, <2>2, <2>3
<1> HIDE DEF n, o
<1>3. o[u] = n[u] /\ pc'[u] = pc[u] /\ want'[u] = want[u]
  BY <1>1, <1>2 DEF n
<1> QED
  BY <1>3, KeepsWanted DEF n, o

\* What the thread does inside a call, and when it resumes
LEMMA OwnKeeps ==
    ASSUME AMP!IInv, Good(m, {}), NEW t \in Threads,
           AM!Proceed(t) \/ AM!ResumeAccess(t) \/ UNCHANGED AM!vars
    PROVE  Keeps(t)
<1>1. /\ pc = [v \in Threads |-> pc[v]] /\ want = [v \in Threads |-> want[v]]
      /\ NestingOf(m) = [v \in Threads |-> NestingOf(m)[v]]
  BY AccessTypes, ViewTypes
<1>2. CASE AM!GetSharedAccess(t) \/ AM!GetExclusiveAccess(t)
  <2>1. /\ pc[t] = "lock" /\ NestingOf(m)' = [NestingOf(m) EXCEPT ![t] = Append(@, want[t])]
        /\ pc' = [pc EXCEPT ![t] = "out"] \/ pc' = [pc EXCEPT ![t] = "waiting"]
    BY <1>2 DEF AM!GetSharedAccess, AM!GetExclusiveAccess, AM!SatisfyRequest
  <2>2. NestingOf(m)'[t] = Append(NestingOf(m)[t], want[t])
    BY <1>1, <2>1
  <2>3. pc'[t] \notin {"reset", "lock"}
    BY <1>1, <2>1
  <2> QED
    BY <2>1, <2>2, <2>3, GrantsWanted
<1>3. CASE AM!ResetAllRefsReleased(t)
  <2>1. /\ NestingOf(m)'[t] = NestingOf(m)[t] /\ want'[t] = want[t]
        /\ pc[t] = "reset" /\ pc'[t] = "lock"
    BY <1>1, <1>3 DEF AM!ResetAllRefsReleased, AM!lists
  <2> QED
    BY <2>1, KeepsWanted
<1>4. CASE \/ AM!WaitForSignal(t) \/ AM!SatisfyNext(t) \/ AM!DecRef(t)
           \/ AM!ReleaseAllRefsReleased(t) \/ AM!WaitForAllReferences(t) \/ AM!ResumeAccess(t)
  <2>1. /\ NestingOf(m)' = NestingOf(m) /\ want' = want
        /\ pc[t] \notin {"reset", "lock"}
        /\ \E x \in {"out", "waiting", "woken", "waitrefs", "release"} :
              pc' = [pc EXCEPT ![t] = x]
    BY <1>4 DEF AM!WaitForSignal, AM!SatisfyNext, AM!DecRef, AM!ReleaseAllRefsReleased,
       AM!WaitForAllReferences, AM!ResumeAccess, AM!SatisfyRequest, AM!AfterRelease,
       AM!lists, AM!refs
  <2>2. pc'[t] \notin {"reset", "lock"}
    BY <1>1, <2>1
  <2> QED
    BY <2>1, <2>2, KeepsWanted
<1>5. CASE UNCHANGED AM!vars
  BY <1>5, KeepsWanted DEF AM!vars
<1> QED
  BY <1>2, <1>3, <1>4, <1>5 DEF AM!Proceed

LEMMA KeptAll ==
    ASSUME NEW t, AllOf(t), Keeps(t), all'[t] = all[t], was'[t] = was[t]
    PROVE  AllOf(t)'
  BY DEF AllOf, Keeps

\* What Release returns is the thread's last access.
LEMMA ReleasedKind ==
    ASSUME AMP!IInv, Good(m, {}), NEW t \in Threads, Find(m, "active", t) # NULL
    PROVE  LET n == NestingOf(m)[t]
           IN  /\ n \in Seq(Kinds) /\ n # <<>>
               /\ n[Len(n)] = IF LastIsExclusive(m.req[RequestOf(m, t)]) THEN "exclusive"
                              ELSE "shared"
<1> DEFINE n == NestingOf(m)[t]
           q == m.req[Find(m, "active", t)]
<1>1. "active" \in Lists /\ "active" # "empty"
  BY DEF Lists
<1>2. /\ RequestOf(m, t) = Find(m, "active", t) /\ n = StackOf(q)
      /\ Fits(q) /\ RequestCount(q) > 0 /\ q \in Requests
      /\ RequestCount(q) = Len(n) /\ RequestCount(q) \in Nat
  BY <1>1, ActiveRequest
<1>3. n \in Seq(Kinds)
  BY ViewTypes
<1> HIDE DEF q, n
<1>4. n # <<>>
  BY <1>2, <1>3
<1>5. StackOf(q)[RequestCount(q)] = IF LastIsExclusive(q) THEN "exclusive" ELSE "shared"
  BY <1>2, LowestBit DEF Fits
<1>6. n[Len(n)] = IF LastIsExclusive(q) THEN "exclusive" ELSE "shared"
  BY <1>2, <1>5
<1>7. m.req[RequestOf(m, t)] = q
  BY <1>2 DEF q
<1> QED
  BY <1>3, <1>4, <1>6, <1>7 DEF n

\* The round of the loop in ReleaseAll
LEMMA ReleaseNextAll ==
    ASSUME AMP!IInv, Good(m, {}), AllTypes, NEW t \in Threads, AllOf(t), ReleaseNext(t)
    PROVE  /\ AllOf(t)' /\ AllTypes' /\ was' = was
           /\ \A u \in Threads : u # t => all'[u] = all[u]
<1> DEFINE x == IF LastIsExclusive(m.req[RequestOf(m, t)]) THEN "exclusive" ELSE "shared"
           n == NestingOf(m)[t]
           s == all[t].stack
           w == was[t]
<1>1. /\ pc[t] = "out" /\ all[t].at = "release" /\ was' = was
      /\ Find(m, "active", t) # NULL
      /\ all' = [all EXCEPT ![t].stack = Append(@, x)]
      /\ ReleaseAccess(t)
  BY DEF ReleaseNext, HasExclusiveAccess, HasSharedAccess
<1>2. n \in Seq(Kinds) /\ n # <<>> /\ n[Len(n)] = x
  BY <1>1, ReleasedKind
<1>3. x \in Kinds
  BY DEF Kinds
<1>4. s \in Seq(Kinds) /\ w \in Seq(Kinds)
  BY DEF AllTypes
<1>5. Wanted(t) = n
  BY <1>1 DEF Wanted
<1>6. Continues(w, n, s)
  BY <1>1, <1>5 DEF AllOf
<1>7. AM!ReleaseAccess(t)
  BY <1>1, ReleaseStep
<1>8. NestingOf(m)'[t] = SubSeq(n, 1, Len(n) - 1) /\ pc'[t] = "decref"
  <2>1. /\ NestingOf(m) = [v \in Threads |-> NestingOf(m)[v]]
        /\ pc = [v \in Threads |-> pc[v]]
    BY AccessTypes, ViewTypes
  <2> QED
    BY <1>7, <2>1 DEF AM!ReleaseAccess, AM!RemoveLast
<1> HIDE DEF x
<1>9. /\ all'[t].at = "release" /\ all'[t].stack = Append(s, x)
      /\ \A u \in Threads : u # t => all'[u] = all[u]
  BY <1>1 DEF AllTypes
<1>10. AllTypes'
  <2>1. Append(s, x) \in Seq(Kinds)
    BY <1>3, <1>4
  <2> QED
    BY <1>1, <2>1 DEF AllTypes
<1> HIDE DEF n, s, w
<1>11. Continues(w, SubSeq(n, 1, Len(n) - 1), Append(s, x))
  BY <1>2, <1>3, <1>4, <1>6, ContinuesDown
<1>12. Wanted(t)' = SubSeq(n, 1, Len(n) - 1)
  BY <1>8 DEF Wanted
<1>13. Continues(was[t], Wanted(t), all[t].stack)'
  BY <1>1, <1>9, <1>11, <1>12 DEF w
<1>14. AllOf(t)'
  BY <1>8, <1>9, <1>13 DEF AllOf
<1> QED
  BY <1>1, <1>9, <1>10, <1>14

\* The round of the loop in AcquireAll, and its end
LEMMA AcquireNextAll ==
    ASSUME AMP!IInv, Good(m, {}), AllTypes, NEW t \in Threads, AllOf(t), AcquireNext(t)
    PROVE  /\ AllOf(t)' /\ AllTypes'
           /\ \A u \in Threads : u # t => all'[u] = all[u] /\ was'[u] = was[u]
<1> DEFINE n == NestingOf(m)[t]
           s == all[t].stack
           w == was[t]
<1>1. pc[t] = "out" /\ all[t].at = "acquire"
  BY DEF AcquireNext
<1>2. n \in Seq(Kinds) /\ s \in Seq(Kinds) /\ w \in Seq(Kinds)
  BY ViewTypes DEF AllTypes
<1>3. Wanted(t) = n
  BY <1>1 DEF Wanted
<1>4. Continues(w, n, s)
  BY <1>1, <1>3 DEF AllOf
<1>5. CASE s # <<>>
  <2>1. /\ m' = m /\ was' = was /\ AM!IncRef(t, Last(s))
        /\ all' = [all EXCEPT ![t].stack = Front(@)]
    BY <1>5 DEF AcquireNext
  <2>2. /\ all'[t].at = "acquire" /\ all'[t].stack = Front(s)
        /\ \A u \in Threads : u # t => all'[u] = all[u]
    BY <1>1, <2>1 DEF AllTypes
  <2>3. AllTypes'
    <3>1. Front(s) \in Seq(Kinds)
      <4> DEFINE l == Len(s)
      <4>1. l \in Nat /\ l = Len(s) /\ l > 0 /\ Front(s) = SubSeq(s, 1, l - 1)
        BY <1>2, <1>5 DEF Front
      <4> HIDE DEF l, s
      <4>2. SubSeq(s, 1, l - 1) \in Seq(Kinds)
        BY <1>2, <4>1, Shortened
      <4> QED
        BY <4>1, <4>2
    <3> QED
      BY <2>1, <3>1 DEF AllTypes
  <2>4. /\ NestingOf(m)'[t] = n /\ pc'[t] \in {"reset", "lock"} /\ want'[t] = Last(s)
    <3>1. want = [v \in Threads |-> want[v]] /\ pc = [v \in Threads |-> pc[v]]
      BY AccessTypes
    <3> HIDE DEF s
    <3> QED
      BY <2>1, <3>1 DEF AM!IncRef, AM!lists
  <2> HIDE DEF n, s, w
  <2>5. Continues(w, Append(n, Last(s)), Front(s))
    BY <1>2, <1>4, <1>5, ContinuesUp
  <2>6. Wanted(t)' = Append(n, Last(s))
    BY <2>4 DEF Wanted
  <2>7. Continues(was[t], Wanted(t), all[t].stack)'
    BY <2>1, <2>2, <2>5, <2>6 DEF w
  <2>8. AllOf(t)'
    BY <2>2, <2>7 DEF AllOf
  <2> QED
    BY <2>1, <2>2, <2>3, <2>8
<1>6. CASE s = <<>>
  <2>1. all' = [all EXCEPT ![t].at = "no"] /\ was' = [was EXCEPT ![t] = <<>>]
    BY <1>6 DEF AcquireNext
  <2>2. /\ all'[t].at = "no" /\ all'[t].stack = <<>>
        /\ \A u \in Threads : u # t => all'[u] = all[u] /\ was'[u] = was[u]
    BY <1>6, <2>1 DEF AllTypes
  <2>3. AllTypes'
    <3> DEFINE e == <<>>
    <3>1. e \in Seq(Kinds) /\ was' = [was EXCEPT ![t] = e]
      BY <2>1
    <3> HIDE DEF e
    <3>2. was' \in [Threads -> Seq(Kinds)]
      BY <3>1 DEF AllTypes
    <3>3. all' \in [Threads -> [at : {"no", "release", "acquire"}, stack : Seq(Kinds)]]
      BY <2>1 DEF AllTypes
    <3> QED
      BY <3>2, <3>3 DEF AllTypes
  <2>4. AllOf(t)'
    BY <2>2 DEF AllOf
  <2> QED
    BY <2>2, <2>3, <2>4
<1> QED
  BY <1>5, <1>6

LEMMA ReleaseAllAll ==
    ASSUME AMP!IInv, Good(m, {}), AllTypes, NEW t \in Threads, AllOf(t), ReleaseAll(t)
    PROVE  /\ AllOf(t)' /\ AllTypes'
           /\ \A u \in Threads : u # t => all'[u] = all[u] /\ was'[u] = was[u]
<1> DEFINE n == NestingOf(m)[t]
<1>1. /\ pc[t] = "out" /\ all[t].at = "no" /\ UNCHANGED <<m, refs>>
      /\ all' = [all EXCEPT ![t].at = "release"] /\ was' = [was EXCEPT ![t] = n]
  BY DEF ReleaseAll
<1>2. n \in Seq(Kinds)
  BY ViewTypes
<1>3. all[t].stack = <<>>
  BY <1>1 DEF AllOf
<1>4. NestingOf(m)'[t] = n /\ pc'[t] = "out"
  BY <1>1, Primes DEF refs
<1> HIDE DEF n
<1>5. /\ all'[t].at = "release" /\ all'[t].stack = <<>> /\ was'[t] = n
      /\ \A u \in Threads : u # t => all'[u] = all[u] /\ was'[u] = was[u]
  BY <1>1, <1>3 DEF AllTypes
<1>6. AllTypes'
  BY <1>1, <1>2 DEF AllTypes
<1>7. Wanted(t)' = n
  BY <1>4 DEF Wanted
<1>8. Continues(n, n, <<>>)
  BY <1>2, ContinuesNone
<1>9. Continues(was[t], Wanted(t), all[t].stack)'
  BY <1>5, <1>7, <1>8
<1>10. AllOf(t)'
  BY <1>4, <1>5, <1>9 DEF AllOf
<1> QED
  BY <1>5, <1>6, <1>10

LEMMA AcquireAllAll ==
    ASSUME AMP!IInv, Good(m, {}), AllTypes, NEW t \in Threads, AllOf(t), AcquireAll(t)
    PROVE  /\ AllOf(t)' /\ AllTypes'
           /\ \A u \in Threads : u # t => all'[u] = all[u] /\ was'[u] = was[u]
<1>1. /\ all[t].at = "release" /\ UNCHANGED <<m, refs, was>>
      /\ all' = [all EXCEPT ![t].at = "acquire"]
  BY DEF AcquireAll
<1>2. /\ all'[t].at = "acquire" /\ all'[t].stack = all[t].stack
      /\ \A u \in Threads : u # t => all'[u] = all[u]
  BY <1>1 DEF AllTypes
<1>3. AllTypes'
  BY <1>1 DEF AllTypes
<1>4. Wanted(t)' = Wanted(t)
  BY <1>1, Primes DEF Wanted, refs
<1>5. Continues(was[t], Wanted(t), all[t].stack)
  BY <1>1 DEF AllOf
<1>6. Continues(was[t], Wanted(t), all[t].stack)'
  BY <1>1, <1>2, <1>4, <1>5
<1>7. AllOf(t)'
  BY <1>2, <1>6 DEF AllOf
<1> QED
  BY <1>1, <1>2, <1>3, <1>7

\* Whatever one thread does
LEMMA ThreadAll ==
    ASSUME AMP!IInv, Good(m, {}), AllTypes, \A u \in Threads : AllOf(u),
           NEW t \in Threads, Step(t)
    PROVE  AllTypes' /\ \A u \in Threads : AllOf(u)'
<1>1. AM!Proceed(t) \/ AM!Call(t) \/ UNCHANGED AM!vars
  BY ThreadStep
<1>2. ASSUME NEW u \in Threads, u # t PROVE Keeps(u)
  BY <1>1, <1>2, OthersKeep
<1>3. ASSUME AllOf(t)', NEW u \in Threads,
             \A v \in Threads : v # t => all'[v] = all[v] /\ was'[v] = was[v]
      PROVE  AllOf(u)'
  <2>1. CASE u = t
    BY <1>3, <2>1
  <2>2. CASE u # t
    <3>1. Keeps(u) /\ AllOf(u) /\ all'[u] = all[u] /\ was'[u] = was[u]
      BY <1>2, <1>3, <2>2
    <3> QED
      BY <3>1, KeptAll
  <2> QED
    BY <2>1, <2>2
<1>4. ASSUME UNCHANGED <<all, was>> PROVE AllTypes'
  BY <1>4 DEF AllTypes
<1>5. CASE Outside(t) \/ GetSharedAccess(t) \/ GetExclusiveAccess(t) \/ WaitForSignal(t)
           \/ SatisfyNext(t) \/ ResumeAccess(t)
  <2>1. UNCHANGED <<all, was>>
    BY <1>5 DEF Outside, GetSharedAccess, GetExclusiveAccess, WaitForSignal, SatisfyNext,
       ResumeAccess, Unlisted
  <2>2. AM!Proceed(t) \/ AM!ResumeAccess(t)
    <3>1. CASE Outside(t)
      BY <3>1 DEF Outside, AM!Proceed
    <3>2. CASE ~Outside(t)
      BY <1>5, <3>2, GetSharedStep, GetExclusiveStep, WaitForSignalStep, SatisfyNextStep,
         ResumeStep DEF AM!Proceed
    <3> QED
      BY <3>1, <3>2
  <2>3. Keeps(t)
    BY <2>2, OwnKeeps
  <2>4. AllOf(t)'
    <3>1. AllOf(t) /\ all'[t] = all[t] /\ was'[t] = was[t]
      BY <2>1
    <3> QED
      BY <2>3, <3>1, KeptAll
  <2> QED
    BY <1>3, <1>4, <2>1, <2>4
<1>6. CASE (\E kind \in AM!Kinds : Acquire(t, kind)) \/ Release(t) \/ ReleaseAndWait(t)
           \/ SuspendAccess(t)
  <2>1. UNCHANGED <<all, was>> /\ all[t].at = "no"
    BY <1>6 DEF Acquire, Release, ReleaseAndWait, SuspendAccess
  <2>2. AllOf(t)'
    <3>1. AllOf(t)
      OBVIOUS
    <3> QED
      BY <2>1, <3>1 DEF AllOf
  <2> QED
    BY <1>3, <1>4, <2>1, <2>2
<1>7. CASE ReleaseAll(t)
  BY <1>3, <1>7, ReleaseAllAll
<1>8. CASE ReleaseNext(t)
  <2>1. /\ AllOf(t)' /\ AllTypes' /\ was' = was
        /\ \A u \in Threads : u # t => all'[u] = all[u]
    BY <1>8, ReleaseNextAll
  <2> QED
    BY <1>3, <2>1
<1>9. CASE AcquireAll(t)
  BY <1>3, <1>9, AcquireAllAll
<1>10. CASE AcquireNext(t)
  BY <1>3, <1>10, AcquireNextAll
<1> QED
  BY <1>5, <1>6, <1>7, <1>8, <1>9, <1>10 DEF Step

-----------------------------------------------------------------------------
(* The inductive invariant                                                 *)

AllInv == AllTypes /\ \A t \in Threads : AllOf(t)

\* The calls see the invariant of AccessManager in the lists; the objects are each in one
\* list, with the counts and the mask that it stands for; and what ReleaseAll has taken
\* from a thread is on its stack.
IInv == AMP!IInv /\ Good(m, {}) /\ AllInv

LEMMA NextIInv == IInv /\ [Next]_vars => IInv' /\ [AM!Next]_(AM!vars)
<1> SUFFICES ASSUME IInv, [Next]_vars
             PROVE  IInv' /\ [AM!Next]_(AM!vars)
  OBVIOUS
<1>1. AMP!IInv /\ Good(m, {}) /\ AllTypes /\ \A t \in Threads : AllOf(t)
  BY DEF IInv, AllInv
<1>2. Good(m', {}) /\ [AM!Next]_(AM!vars)
  BY <1>1, StepImplements
<1>3. AMP!IInv'
  BY <1>1, <1>2, AccessInvariant
<1>4. AllInv'
  <2>1. CASE Next
    <3>1. PICK t \in Threads : Step(t)
      BY <2>1 DEF Next, Step
    <3> QED
      BY <1>1, <3>1, ThreadAll DEF AllInv
  <2>2. CASE UNCHANGED vars
    <3>1. UNCHANGED <<m, pc, want, all, was>>
      BY <2>2 DEF vars, refs
    <3>2. ASSUME NEW t \in Threads PROVE Wanted(t)' = Wanted(t)
      BY <3>1, Primes DEF Wanted
    <3>3. ASSUME NEW t \in Threads PROVE AllOf(t)'
      <4>1. AllOf(t)
        BY <1>1
      <4> QED
        BY <3>1, <3>2, <4>1 DEF AllOf
    <3>4. AllTypes'
      BY <1>1, <3>1 DEF AllTypes
    <3> QED
      BY <3>3, <3>4 DEF AllInv
  <2> QED
    BY <2>1, <2>2
<1> QED
  BY <1>2, <1>3, <1>4, Primes DEF IInv

-----------------------------------------------------------------------------
(* The first state                                                         *)

\* All objects are in the pool.
Pooled(L, g) ==
    L = [req       |-> [i \in 1 .. InitialRequests |-> FreshRequest(g)],
         list      |-> [n \in Lists |-> IF n = "empty"
                          THEN [i \in 1 .. InitialRequests |-> InitialRequests + 1 - i]
                          ELSE <<>>],
         shared    |-> [n \in Lists |-> IF n = "empty" THEN g * InitialRequests ELSE 0],
         exclusive |-> [n \in Lists |-> IF n = "empty" THEN g * InitialRequests ELSE 0]]

LEMMA PoolCount ==
    ASSUME NEW g \in Nat, NEW k \in Nat, NEW kind, NEW q,
           \A r \in 1 .. k : q[r][kind] = g
    PROVE  LET A == AccessesOf(q, 1 .. k, kind)
           IN  IsFiniteSet(A) /\ Cardinality(A) = g * k
<1>1. AccessesOf(q, 1 .. k, kind) = (1 .. k) \X (1 .. g)
  <2>1. AccessesOf(q, 1 .. k, kind) = UNION {{r} \X (1 .. g) : r \in 1 .. k}
    BY DEF AccessesOf
  <2> QED
    BY <2>1
<1>2. /\ IsFiniteSet(1 .. k) /\ Cardinality(1 .. k) = k
      /\ IsFiniteSet(1 .. g) /\ Cardinality(1 .. g) = g
  <2>1. ASSUME NEW j \in Nat PROVE IsFiniteSet(1 .. j) /\ Cardinality(1 .. j) = j
    <3>1. 1 \in Int /\ j \in Int
      OBVIOUS
    <3>2. IsFiniteSet(1 .. j) /\ Cardinality(1 .. j) = IF 1 > j THEN 0 ELSE j - 1 + 1
      BY <3>1, FS_Interval
    <3> QED
      BY <3>2
  <2> QED
    BY <2>1
<1>3. /\ IsFiniteSet((1 .. k) \X (1 .. g))
      /\ Cardinality((1 .. k) \X (1 .. g)) = Cardinality(1 .. k) * Cardinality(1 .. g)
  BY <1>2, FS_Product
<1>4. k * g = g * k
  OBVIOUS
<1> QED
  BY <1>1, <1>2, <1>3, <1>4

LEMMA PoolGood ==
    ASSUME NEW L, NEW g \in Nat, Pooled(L, g)
    PROVE  /\ Good(L, {}) /\ Busy(L) = {}
           /\ \A n \in Lists : n # "empty" => L.list[n] = <<>>
<1> DEFINE I == InitialRequests
           e == [i \in 1 .. I |-> I + 1 - i]
<1>0. I \in Nat /\ "empty" \in Lists
  BY RequestListsAssumption DEF Lists
<1>1. /\ L = [f \in Fields |-> L[f]]
      /\ L.req = [i \in 1 .. I |-> FreshRequest(g)]
      /\ L.list = [n \in Lists |-> IF n = "empty" THEN e ELSE <<>>]
      /\ L.shared = [n \in Lists |-> IF n = "empty" THEN g * I ELSE 0]
      /\ L.exclusive = [n \in Lists |-> IF n = "empty" THEN g * I ELSE 0]
  BY DEF Pooled, Fields
<1>2. e \in Seq(1 .. I) /\ IsInjective(e) /\ Range(e) = 1 .. I
  <2>1. \A i \in 1 .. I : I + 1 - i \in 1 .. I /\ I + 1 - (I + 1 - i) = i
    BY <1>0
  <2>2. e \in Seq(1 .. I)
    BY <1>0, <2>1
  <2>3. IsInjective(e)
    <3>1. \A i, j \in 1 .. I : I + 1 - i = I + 1 - j => i = j
      BY <1>0
    <3> QED
      BY <3>1 DEF IsInjective
  <2>4. Range(e) = 1 .. I
    <3>1. Range(e) = {e[i] : i \in 1 .. I}
      BY DEF Range
    <3>2. \A i \in 1 .. I : e[i] \in 1 .. I /\ e[I + 1 - i] = i
      BY <2>1
    <3> HIDE DEF e
    <3> QED
      BY <2>1, <3>1, <3>2
  <2> QED
    BY <2>2, <2>3, <2>4
<1> HIDE DEF e, I
<1>3. FreshRequest(g) \in Requests /\ ~FreshRequest(g).signal
      /\ FreshRequest(g).shared = g /\ FreshRequest(g).exclusive = g
  BY DEF FreshRequest, Requests
<1>4. L.req \in Seq(Requests) /\ DOMAIN L.req = 1 .. I
  <2> DEFINE x == FreshRequest(g)
  <2>1. x \in Requests /\ L.req = [i \in 1 .. I |-> x]
    BY <1>1, <1>3
  <2> HIDE DEF x
  <2> QED
    BY <1>0, <2>1
<1>5. /\ L.list["empty"] = e
      /\ \A n \in Lists : n # "empty" => L.list[n] = <<>>
  BY <1>0, <1>1
<1>6. \A n \in Lists : n # "empty" => Range(L.list[n]) = {}
  <2>1. \A s : s = <<>> => Range(s) = {}
    BY DEF Range
  <2> QED
    BY <1>5, <2>1
<1>7. Shape(L)
  <2>1. IsInjective(<<>>)
    BY DEF IsInjective
  <2>2. \A n \in Lists : L.list[n] \in Seq(DOMAIN L.req) /\ IsInjective(L.list[n])
    <3> DEFINE z == <<>>
    <3>1. z \in Seq(DOMAIN L.req) /\ IsInjective(z)
      BY <2>1
    <3>2. e \in Seq(DOMAIN L.req) /\ IsInjective(e)
      BY <1>2, <1>4
    <3>3. \A n \in Lists : L.list[n] = e \/ L.list[n] = z
      BY <1>5
    <3> HIDE DEF z
    <3> QED
      BY <3>1, <3>2, <3>3
  <2>3. L.list \in [Lists -> Seq(DOMAIN L.req)]
    BY <1>1, <2>2
  <2>4. L.shared \in [Lists -> Int] /\ L.exclusive \in [Lists -> Int]
    <3>1. g * I \in Int
      BY <1>0
    <3> QED
      BY <1>1, <3>1
  <2> QED
    BY <1>1, <1>4, <2>2, <2>3, <2>4 DEF Shape
<1>8. OnceListed(L, {})
  BY <1>0, <1>2, <1>4, <1>5, <1>6 DEF OnceListed
<1>9. Busy(L) = {}
  BY <1>2, <1>4, <1>5 DEF Busy
<1>10. Owned(L, {})
  <2>1. \A r \in Range(L.list["empty"]) : ~L.req[r].signal
    BY <1>1, <1>2, <1>3, <1>5
  <2> QED
    BY <1>9, <2>1 DEF Owned
<1>11. ASSUME NEW kind \in {"shared", "exclusive"}, NEW n \in Lists
       PROVE  /\ IsFiniteSet(Accesses(L, n, kind))
              /\ L[kind][n] = Cardinality(Accesses(L, n, kind))
  <2>1. Accesses(L, n, kind) = AccessesOf(L.req, Range(L.list[n]), kind)
    BY AccessesList
  <2>2. CASE n = "empty"
    <3>1. Range(L.list[n]) = 1 .. I
      BY <1>2, <1>5, <2>2
    <3>2. \A r \in 1 .. I : L.req[r][kind] = g
      BY <1>1, <1>3
    <3>3. L[kind][n] = g * I
      BY <1>1, <2>2
    <3> DEFINE q == L.req
    <3>4. \A r \in 1 .. I : q[r][kind] = g
      BY <3>2
    <3> HIDE DEF q
    <3>5. /\ IsFiniteSet(AccessesOf(q, 1 .. I, kind))
          /\ Cardinality(AccessesOf(q, 1 .. I, kind)) = g * I
      BY <1>0, <3>4, PoolCount
    <3> QED
      BY <2>1, <3>1, <3>3, <3>5 DEF q
  <2>3. CASE n # "empty"
    <3>1. Accesses(L, n, kind) = {}
      BY <1>6, <2>1, <2>3 DEF AccessesOf
    <3>2. L[kind][n] = 0
      BY <1>1, <2>3
    <3> QED
      BY <3>1, <3>2, FS_EmptySet
  <2> QED
    BY <2>2, <2>3
<1>12. Counts(L)
  BY <1>11 DEF Counts
<1> QED
  BY <1>5, <1>7, <1>8, <1>9, <1>10, <1>12 DEF Good

LEMMA InitIInv == Init => IInv /\ AM!Init
<1> SUFFICES ASSUME Init PROVE IInv /\ AM!Init
  OBVIOUS
<1>1. PICK g \in Garbage : Pooled(m, g)
  BY DEF Init, Pooled
<1>2. /\ Good(m, {}) /\ Busy(m) = {}
      /\ \A n \in Lists : n # "empty" => m.list[n] = <<>>
  <2>1. g \in Nat
    BY RequestListsAssumption
  <2> QED
    BY <1>1, <2>1, PoolGood
<1>3. NestingOf(m) = [t \in Threads |-> <<>>] /\ SignalOf(m) = [t \in Threads |-> FALSE]
  <2>1. ASSUME NEW t \in Threads PROVE NestingOf(m)[t] = <<>> /\ SignalOf(m)[t] = FALSE
    BY <1>2, Views
  <2>2. /\ NestingOf(m) = [t \in Threads |-> NestingOf(m)[t]]
        /\ SignalOf(m) = [t \in Threads |-> SignalOf(m)[t]]
    BY <1>2, ViewTypes
  <2> QED
    BY <2>1, <2>2
<1>4. ThreadsIn(m, "active") = {} /\ ThreadsIn(m, "suspended") = {} /\ PendingOf(m) = <<>>
  <2>1. m.list["active"] = <<>> /\ m.list["suspended"] = <<>> /\ m.list["pending"] = <<>>
    BY <1>2 DEF Lists
  <2> QED
    BY <2>1 DEF ThreadsIn, PendingOf, Range
<1>5. AM!Init
  BY <1>3, <1>4 DEF Init, AM!Init
<1>6. AMP!IInv
  <2>1. AMP!Init
    BY <1>5 DEF AM!Init, AMP!Init
  <2> QED
    BY <2>1, AMP!InitIInv, RequestListsAssumption
<1>7. AllInv
  <2>1. /\ all = [t \in Threads |-> [at |-> "no", stack |-> <<>>]]
        /\ was = [t \in Threads |-> <<>>]
    BY DEF Init
  <2>2. AllTypes
    BY <2>1 DEF AllTypes
  <2>3. ASSUME NEW t \in Threads PROVE AllOf(t)
    BY <2>1 DEF AllOf
  <2> QED
    BY <2>2, <2>3 DEF AllInv
<1> QED
  BY <1>2, <1>5, <1>6, <1>7 DEF IInv

-----------------------------------------------------------------------------
(* Theorems                                                                *)

\* The lists and the objects in every reachable state.
\* tRequestList, tRequest, ReleaseAll and AcquireAll, tAccessManager.h.
THEOREM Invariance == Spec => []IInv
<1>1. Init => IInv
  BY InitIInv
<1>2. IInv /\ [Next]_vars => IInv'
  BY NextIInv
<1> QED
  BY <1>1, <1>2, PTL DEF Spec

\* The counters of every list are exact and every object is in exactly one list, whatever
\* a fresh object holds, for any number of threads and any nesting.
\* tRequestList::AddAtHead, Remove, tAccessManager.h:1450-1516.
THEOREM Counters == Spec => []CountersExact
<1>1. IInv => CountersExact
  <2> SUFFICES ASSUME Good(m, {}) PROVE CountersExact
    BY DEF IInv
  <2>1. \A n \in Lists :
            /\ m.shared[n] = Cardinality(Accesses(m, n, "shared"))
            /\ m.exclusive[n] = Cardinality(Accesses(m, n, "exclusive"))
            /\ IsInjective(m.list[n])
    BY DEF Good, Counts, Shape
  <2>2. ASSUME NEW r \in DOMAIN m.req
        PROVE  \E n \in Lists : \A k \in Lists : r \in Range(m.list[k]) <=> k = n
    <3>1. PICK n \in Lists : r \in Range(m.list[n])
      BY DEF Good, OnceListed
    <3>2. \A k \in Lists : k # n => r \notin Range(m.list[k])
      BY <3>1 DEF Good, OnceListed
    <3> QED
      BY <3>1, <3>2
  <2> QED
    BY <2>1, <2>2 DEF CountersExact
<1> QED
  BY <1>1, Invariance, PTL

\* When AcquireAll has gone through its stack the thread has its accesses again, in their
\* order, whatever the others have done.  ReleaseAll, AcquireAll, tAccessManager.h:359-405.
THEOREM RestoresAccess == Spec => []AcquireAllRestores
<1>1. IInv => AcquireAllRestores
  <2> SUFFICES ASSUME IInv, NEW t \in Threads,
                      all[t].at = "acquire", all[t].stack = <<>>, pc[t] = "out"
               PROVE  NestingOf(m)[t] = was[t]
    BY DEF AcquireAllRestores
  <2>1. AllOf(t) /\ AllTypes /\ Good(m, {})
    BY DEF IInv, AllInv
  <2>2. Wanted(t) = NestingOf(m)[t]
    BY DEF Wanted
  <2>3. Continues(was[t], NestingOf(m)[t], all[t].stack)
    BY <2>1, <2>2 DEF AllOf
  <2> DEFINE n == NestingOf(m)[t]
             w == was[t]
             s == all[t].stack
  <2>4. w \in Seq(Kinds) /\ n \in Seq(Kinds) /\ s \in Seq(Kinds)
    BY <2>1, ViewTypes DEF AllTypes
  <2>5. s = <<>> /\ Continues(w, n, s)
    BY <2>3
  <2> HIDE DEF n, w, s
  <2>6. n = w
    BY <2>4, <2>5, ContinuesNone
  <2> QED
    BY <2>6 DEF n, w
<1> QED
  BY <1>1, Invariance, PTL

\* The objects and their lists implement AccessManager: what is proved of its sets and
\* stacks holds of the code that has neither.  core/api/tAccessManager.h.
THEOREM ListsImplementLock == Spec => ImplementsAccessManager
<1>1. Init => AM!Init
  BY InitIInv
<1>2. IInv /\ [Next]_vars => [AM!Next]_(AM!vars)
  BY NextIInv
<1> QED
  BY <1>1, <1>2, Invariance, PTL DEF Spec, AM!Spec, ImplementsAccessManager

=============================================================================
