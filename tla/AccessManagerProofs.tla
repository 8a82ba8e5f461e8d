------------------------ MODULE AccessManagerProofs ------------------------
(***************************************************************************)
(* Proofs about AccessManager, for every set of threads and every nesting  *)
(* limit: its safety invariants hold in every reachable state.             *)
(***************************************************************************)
EXTENDS AccessManager, SequenceTheorems, TLAPS

\* Where a thread is in the code tells which list its request can be in.
PlacesMatchLists ==
    \A t \in Threads :
        /\ t \in suspended => pc[t] = "out"
        /\ t \in PendingThreads => pc[t] = "waiting"
        /\ pc[t] = "woken" => t \in active

\* The inductive invariant
IInv ==
    /\ TypeOK
    /\ PlacesMatchLists
    /\ OneListPerRequest
    /\ ExclusiveIsAlone
    /\ NoLostWakeup
    /\ NoLostAdmission
    /\ ReturnsWithAccess

Distinct(s) == \A i, j \in DOMAIN s : s[i] = s[j] => i = j

Elements(s) == {s[i] : i \in DOMAIN s}

-----------------------------------------------------------------------------
(* Sequences                                                               *)

\* Removing the head of a sequence without repetitions removes that element.
LEMMA TailElements ==
    ASSUME NEW S, NEW s \in Seq(S), s # <<>>, Distinct(s)
    PROVE  /\ Tail(s) \in Seq(S)
           /\ Head(s) \in Elements(s)
           /\ Elements(s) \subseteq S
           /\ Elements(Tail(s)) = Elements(s) \ {Head(s)}
           /\ Distinct(Tail(s))
<1>1. /\ Len(s) \in Nat \ {0}
      /\ DOMAIN s = 1 .. Len(s)
      /\ Head(s) = s[1]
      /\ Tail(s) \in Seq(S)
      /\ Len(Tail(s)) = Len(s) - 1
      /\ \A i \in 1 .. Len(s) - 1 : Tail(s)[i] = s[i + 1]
      /\ DOMAIN Tail(s) = 1 .. Len(s) - 1
  OBVIOUS
<1>2. Head(s) \in Elements(s) /\ Elements(s) \subseteq S
  BY <1>1 DEF Elements
<1>3. Distinct(Tail(s))
  BY <1>1 DEF Distinct
<1>4. Elements(Tail(s)) \subseteq Elements(s) \ {Head(s)}
  BY <1>1 DEF Elements, Distinct
<1>5. ASSUME NEW x \in Elements(s), x # Head(s)
      PROVE  x \in Elements(Tail(s))
  <2>1. PICK i \in 1 .. Len(s) : x = s[i]
    BY <1>1 DEF Elements
  <2>2. i # 1 /\ i - 1 \in 1 .. Len(s) - 1 /\ Tail(s)[i - 1] = s[i]
    BY <1>1, <1>5, <2>1
  <2> QED
    BY <1>1, <2>1, <2>2 DEF Elements
<1> QED
  BY <1>1, <1>2, <1>3, <1>4, <1>5

\* Adding a new element at the tail adds that element.
LEMMA AppendElements ==
    ASSUME NEW S, NEW s \in Seq(S), NEW x \in S, x \notin Elements(s), Distinct(s)
    PROVE  /\ s \o <<x>> \in Seq(S)
           /\ s \o <<x>> # <<>>
           /\ Elements(s \o <<x>>) = Elements(s) \cup {x}
           /\ Distinct(s \o <<x>>)
           /\ Head(s \o <<x>>) = IF s = <<>> THEN x ELSE Head(s)
<1> DEFINE r == s \o <<x>>
<1>1. /\ Len(s) \in Nat
      /\ DOMAIN s = 1 .. Len(s)
      /\ r \in Seq(S)
      /\ Len(r) = Len(s) + 1
      /\ DOMAIN r = 1 .. Len(s) + 1
      /\ \A i \in 1 .. Len(s) : r[i] = s[i]
      /\ r[Len(s) + 1] = x
      /\ s = <<>> <=> Len(s) = 0
  OBVIOUS
<1>2. r # <<>> /\ Head(r) = r[1]
  BY <1>1
<1> HIDE DEF r
<1>3. Elements(r) = Elements(s) \cup {x}
  <2>1. Elements(r) \subseteq Elements(s) \cup {x}
    <3>1. ASSUME NEW y \in Elements(r) PROVE y \in Elements(s) \cup {x}
      <4>1. PICK i \in 1 .. Len(s) + 1 : y = r[i]
        BY <1>1 DEF Elements
      <4>2. CASE i = Len(s) + 1
        BY <1>1, <4>1, <4>2
      <4>3. CASE i \in 1 .. Len(s)
        BY <1>1, <4>1, <4>3 DEF Elements
      <4> QED
        BY <1>1, <4>2, <4>3
    <3> QED
      BY <3>1
  <2>2. Elements(s) \subseteq Elements(r)
    BY <1>1 DEF Elements
  <2>3. x \in Elements(r)
    BY <1>1 DEF Elements
  <2> QED
    BY <2>1, <2>2, <2>3
<1>4. Distinct(r)
  <2> SUFFICES ASSUME NEW i \in 1 .. Len(s) + 1, NEW j \in 1 .. Len(s) + 1,
                      r[i] = r[j]
               PROVE  i = j
    BY <1>1 DEF Distinct
  <2> QED
    BY <1>1 DEF Distinct, Elements
<1>5. Head(r) = IF s = <<>> THEN x ELSE Head(s)
  BY <1>1, <1>2
<1> QED
  BY <1>1, <1>2, <1>3, <1>4, <1>5 DEF r

\* What pushing an access does to a request: shared changes nothing that
\* SatisfyRequest tests, exclusive makes the request exclusive.
LEMMA PushAccess ==
    ASSUME NEW s \in Seq(Kinds), NEW k \in Kinds
    PROVE  /\ Append(s, k) \in Seq(Kinds)
           /\ Append(s, k) # <<>>
           /\ Len(Append(s, k)) = Len(s) + 1
           /\ k = "shared" => (HasExclusive(Append(s, k)) <=> HasExclusive(s))
           /\ k = "exclusive" => HasExclusive(Append(s, k))
<1>1. /\ Len(s) \in Nat
      /\ DOMAIN s = 1 .. Len(s)
      /\ Append(s, k) \in Seq(Kinds)
      /\ Len(Append(s, k)) = Len(s) + 1
      /\ DOMAIN Append(s, k) = 1 .. Len(s) + 1
      /\ \A i \in 1 .. Len(s) : Append(s, k)[i] = s[i]
      /\ Append(s, k)[Len(s) + 1] = k
  OBVIOUS
<1>2. Append(s, k) # <<>>
  BY <1>1
<1>3. ASSUME k = "exclusive" PROVE HasExclusive(Append(s, k))
  BY <1>1, <1>3 DEF HasExclusive
<1>4. ASSUME k = "shared"
      PROVE  HasExclusive(Append(s, k)) <=> HasExclusive(s)
  BY <1>1, <1>4 DEF HasExclusive
<1> QED
  BY <1>1, <1>2, <1>3, <1>4

\* Popping an access shortens the stack and never makes a request exclusive.
LEMMA PopAccess ==
    ASSUME NEW s \in Seq(Kinds), s # <<>>
    PROVE  /\ RemoveLast(s) \in Seq(Kinds)
           /\ Len(s) \in Nat \ {0}
           /\ Len(RemoveLast(s)) = Len(s) - 1
           /\ RemoveLast(s) # <<>> <=> Len(s) > 1
           /\ HasExclusive(RemoveLast(s)) => HasExclusive(s)
<1>1. Len(s) \in Nat \ {0} /\ DOMAIN s = 1 .. Len(s)
  OBVIOUS
<1>2. /\ RemoveLast(s) \in Seq(Kinds)
      /\ Len(RemoveLast(s)) = Len(s) - 1
      /\ DOMAIN RemoveLast(s) = 1 .. Len(s) - 1
      /\ \A i \in 1 .. Len(s) - 1 : RemoveLast(s)[i] = s[i]
  BY <1>1 DEF RemoveLast
<1>3. RemoveLast(s) # <<>> <=> Len(s) > 1
  BY <1>1, <1>2
<1>4. HasExclusive(RemoveLast(s)) => HasExclusive(s)
  BY <1>1, <1>2 DEF HasExclusive
<1> QED
  BY <1>1, <1>2, <1>3, <1>4

-----------------------------------------------------------------------------
(* SatisfyHead                                                             *)

\* What SatisfyHead(act, nesting', more) does to the lists, in terms of the set A
\* of the requests it admits: A is empty or the head of the pending list.  T is
\* the set of the requests in more.
Admits(A, act, T, more) ==
    /\ active' = act \cup A
    /\ pending' \in Seq(Threads)
    /\ PendingThreads' = (PendingThreads \ A) \cup T
    /\ \A i, j \in DOMAIN pending' : pending'[i] = pending'[j] => i = j
    /\ signal' \in [Threads -> BOOLEAN]
    /\ \A u \in Threads : signal'[u] <=> (u \in A \/ signal[u])
    /\ \/ A = {} /\ pending' = pending \o more /\ ~HeadIsCompatible(act, nesting')
       \/ \E h \in PendingThreads : A = {h} /\ Compatible(h, act, nesting')

\* Every outcome of SatisfyHead is of that form.
LEMMA SatisfyHeadStep ==
    ASSUME TypeOK, OneListPerRequest,
           NEW act \in SUBSET Threads,
           NEW T \in SUBSET Threads,
           NEW more,
           \/ T = {} /\ more = <<>>
           \/ \E t \in Threads \ PendingThreads : T = {t} /\ more = <<t>>,
           SatisfyHead(act, nesting', more)
    PROVE  \E A \in SUBSET PendingThreads : Admits(A, act, T, more)
<1> DEFINE h == Head(pending)
<1>1. pending \in Seq(Threads) /\ Distinct(pending)
  BY DEF TypeOK, OneListPerRequest, Distinct
<1>2. PendingThreads = Elements(pending) /\ PendingThreads' = Elements(pending')
  BY DEF PendingThreads, Elements
<1>3. signal \in [Threads -> BOOLEAN]
  BY DEF TypeOK
<1>4. ASSUME NEW s \in Seq(Threads), Distinct(s), Elements(s) \subseteq PendingThreads
      PROVE  /\ s \o more \in Seq(Threads)
             /\ Elements(s \o more) = Elements(s) \cup T
             /\ Distinct(s \o more)
  <2>1. CASE T = {} /\ more = <<>>
    <3>1. s \o <<>> = s
      BY ConcatEmptySeq, <1>4
    <3> QED
      BY <2>1, <3>1, <1>4
  <2>2. CASE \E t \in Threads \ PendingThreads : T = {t} /\ more = <<t>>
    <3>1. PICK t \in Threads \ PendingThreads : T = {t} /\ more = <<t>>
      BY <2>2
    <3>2. t \in Threads /\ t \notin Elements(s)
      BY <3>1, <1>4
    <3> QED
      BY <3>1, <3>2, <1>4, AppendElements
  <2> QED
    BY <2>1, <2>2
<1>5. CASE /\ HeadIsCompatible(act, nesting')
           /\ active' = act \cup {h}
           /\ pending' = Tail(pending) \o more
           /\ signal' = [signal EXCEPT ![h] = TRUE]
  <2>1. pending # <<>> /\ Compatible(h, act, nesting')
    BY <1>5 DEF HeadIsCompatible
  <2>2. /\ Tail(pending) \in Seq(Threads)
        /\ h \in PendingThreads
        /\ PendingThreads \subseteq Threads
        /\ Elements(Tail(pending)) = PendingThreads \ {h}
        /\ Distinct(Tail(pending))
    BY <1>1, <1>2, <2>1, TailElements
  <2>3. /\ pending' \in Seq(Threads)
        /\ PendingThreads' = (PendingThreads \ {h}) \cup T
        /\ Distinct(pending')
    BY <1>2, <1>4, <1>5, <2>2
  <2>4. /\ signal' \in [Threads -> BOOLEAN]
        /\ \A u \in Threads : signal'[u] <=> (u \in {h} \/ signal[u])
    BY <1>3, <1>5, <2>2
  <2>5. {h} \in SUBSET PendingThreads
    BY <2>2
  <2> HIDE DEF h
  <2> QED
    BY <1>5, <2>1, <2>2, <2>3, <2>4, <2>5 DEF Distinct, Admits
<1>6. CASE /\ ~HeadIsCompatible(act, nesting')
           /\ active' = act
           /\ pending' = pending \o more
           /\ UNCHANGED signal
  <2>1. /\ pending' \in Seq(Threads)
        /\ PendingThreads' = PendingThreads \cup T
        /\ Distinct(pending')
    BY <1>1, <1>2, <1>4, <1>6
  <2>2. {} \in SUBSET PendingThreads
    OBVIOUS
  <2> QED
    BY <1>3, <1>6, <2>1, <2>2 DEF Distinct, Admits
<1> QED
  BY <1>5, <1>6 DEF SatisfyHead, Signal

-----------------------------------------------------------------------------
(* Preservation, by shape of step                                          *)

\* The invariants that relate the lists, the signals and the places
ListInv ==
    /\ PlacesMatchLists
    /\ OneListPerRequest
    /\ ExclusiveIsAlone
    /\ NoLostWakeup
    /\ NoLostAdmission
    /\ ReturnsWithAccess

\* The types of what SatisfyHead and SatisfyRequest assign
ListTypes ==
    /\ active \subseteq Threads
    /\ pending \in Seq(Threads)
    /\ signal \in [Threads -> BOOLEAN]
    /\ pc \in [Threads -> Places]

\* A step outside the reference count keeps the types if no nesting deepens.
LEMMA TypeStep ==
    ASSUME TypeOK, ListTypes',
           suspended' \subseteq Threads,
           nesting' \in [Threads -> Seq(Kinds)],
           NEW t \in Threads,
           \A u \in Threads \ {t} : nesting'[u] = nesting[u] /\ pc'[u] = pc[u],
           NestingDepth(t)' <= NestingDepth(t),
           UNCHANGED <<refcount, allRefsReleased, zeroSeen, want>>,
           closing' \in {closing, closing \cup {t}}
    PROVE  TypeOK'
<1>3. \A u \in Threads : NestingDepth(u)' <= MaxNest
  <2> SUFFICES ASSUME NEW u \in Threads PROVE NestingDepth(u)' <= MaxNest
    OBVIOUS
  <2>1. NestingDepth(u) <= MaxNest
    BY DEF TypeOK
  <2>2. NestingDepth(u) \in Nat /\ NestingDepth(u)' \in Nat /\ MaxNest \in Nat
    BY MaxNestAssumption DEF TypeOK, NestingDepth
  <2>3. NestingDepth(u)' <= NestingDepth(u)
    <3>1. CASE u = t
      BY <3>1
    <3>2. CASE u # t
      <4>1. NestingDepth(u)' = NestingDepth(u)
        BY <3>2 DEF NestingDepth
      <4> QED
        BY <2>2, <4>1
    <3> QED
      BY <3>1, <3>2
  <2> QED
    BY <2>1, <2>2, <2>3
<1> QED
  BY <1>3 DEF TypeOK, ListTypes

\* A step of t outside the lock, that is neither going to sleep nor waking up.
LEMMA OutsideStep ==
    ASSUME TypeOK, ListInv, UNCHANGED lists,
           NEW t \in Threads, t \notin suspended,
           NEW p \in Places \ {"waiting", "woken"},
           pc[t] \notin {"waiting", "woken"},
           pc' = [pc EXCEPT ![t] = p]
    PROVE  ListInv'
<1>1. PendingThreads' = PendingThreads
  BY DEF PendingThreads, lists
<1>2. pc \in [Threads -> Places] /\ active \subseteq Threads
  BY DEF TypeOK
<1>3. PlacesMatchLists'
  BY <1>1, <1>2 DEF PlacesMatchLists, ListInv, lists
<1>4. OneListPerRequest' /\ ExclusiveIsAlone'
  BY <1>1 DEF OneListPerRequest, ExclusiveIsAlone, ListInv, lists
<1>5. NoLostWakeup'
  BY <1>1, <1>2 DEF NoLostWakeup, ListInv, lists
<1>6. NoLostAdmission'
  BY <1>2 DEF NoLostAdmission, HeadIsCompatible, Compatible, ListInv, lists
<1>7. ReturnsWithAccess'
  BY <1>1, <1>2 DEF ReturnsWithAccess, PlacesMatchLists, OneListPerRequest,
                    ListInv, lists
<1> QED
  BY <1>3, <1>4, <1>5, <1>6, <1>7 DEF ListInv

\* A step of t under the lock that leaves t's access as it is, reduces it, drops
\* it or suspends it, and then tries the head of the pending list.
LEMMA LetGoStep ==
    ASSUME TypeOK, ListInv,
           NEW t \in Threads, t \in active, pc[t] \in {"out", "woken"},
           NEW act \in SUBSET active, active \ act \subseteq {t},
           NEW p \in {"out", "decref"},
           pc' = [pc EXCEPT ![t] = p],
           nesting' \in [Threads -> Seq(Kinds)],
           \A u \in Threads \ {t} : nesting'[u] = nesting[u],
           HasExclusive(nesting'[t]) => HasExclusive(nesting[t]),
           suspended' \in SUBSET (suspended \cup {t}),
           suspended \subseteq suspended',
           t \notin act \/ t \notin suspended',
           nesting'[t] # <<>> <=> t \in act \cup suspended',
           t \in suspended' => p = "out",
           SatisfyHead(act, nesting', <<>>)
    PROVE  ListTypes' /\ ListInv'
<1>0. act \in SUBSET Threads /\ pc \in [Threads -> Places]
  BY DEF TypeOK
<1>1. PICK A \in SUBSET PendingThreads : Admits(A, act, {}, <<>>)
  BY <1>0, SatisfyHeadStep DEF ListInv
<1>9. /\ pending \o <<>> = pending
      /\ PendingThreads' = PendingThreads \ A
  BY <1>1, ConcatEmptySeq DEF TypeOK, Admits
<1>2. PendingThreads \subseteq Threads /\ t \notin PendingThreads
  BY DEF ListInv, OneListPerRequest, TypeOK, PendingThreads
<1>3. PlacesMatchLists'
  BY <1>0, <1>1, <1>2, <1>9 DEF Admits, PlacesMatchLists, OneListPerRequest, ListInv
<1>4. OneListPerRequest'
  <2>1. /\ active' = act \cup A /\ PendingThreads' = PendingThreads \ A
        /\ \A i, j \in DOMAIN pending' : pending'[i] = pending'[j] => i = j
    BY <1>1, <1>9 DEF Admits
  <2>2. OneListPerRequest
    BY DEF ListInv
  <2> QED
    <3>1. active' \cap suspended' = {}
      BY <1>2, <2>1, <2>2 DEF OneListPerRequest
    <3>2. PendingThreads' \cap (active' \cup suspended') = {}
      BY <1>2, <2>1, <2>2 DEF OneListPerRequest
    <3>3. ASSUME NEW u \in Threads
          PROVE  nesting'[u] # <<>> <=> u \in active' \cup suspended' \cup PendingThreads'
      <4>1. CASE u = t
        BY <1>2, <2>1, <2>2, <4>1 DEF OneListPerRequest
      <4>2. CASE u # t
        BY <1>2, <2>1, <2>2, <4>2 DEF OneListPerRequest
      <4> QED
        BY <4>1, <4>2
    <3> QED
      BY <2>1, <3>1, <3>2, <3>3 DEF OneListPerRequest
<1>5. ExclusiveIsAlone'
  BY <1>0, <1>1, <1>2, <1>9 DEF Admits, ExclusiveIsAlone, ListInv, Compatible
<1>6. NoLostWakeup'
  BY <1>0, <1>1, <1>2, <1>9 DEF Admits, NoLostWakeup, PlacesMatchLists, ListInv
<1>7. NoLostAdmission'
  <2>1. CASE A = {}
    BY <1>1, <1>9, <2>1 DEF Admits, NoLostAdmission, HeadIsCompatible, Compatible
  <2>2. CASE A # {}
    BY <1>0, <1>1, <1>2, <1>9, <2>2 DEF Admits, NoLostAdmission, PlacesMatchLists, ListInv
  <2> QED
    BY <2>1, <2>2
<1>8. ReturnsWithAccess'
  BY <1>0, <1>1, <1>2, <1>9 DEF Admits, ReturnsWithAccess, ListInv
<1>10. ListTypes'
  BY <1>0, <1>1, <1>2 DEF ListTypes, Admits, Places
<1> QED
  BY <1>3, <1>4, <1>5, <1>6, <1>7, <1>8, <1>10 DEF ListInv

\* A step of t under the lock that asks for access: a new request, an upgraded
\* one or a resumed one.
LEMMA RequestStep ==
    ASSUME TypeOK, ListInv,
           NEW t \in Threads, t \notin PendingThreads,
           pc[t] \in {"lock", "out"},
           nesting' \in [Threads -> Seq(Kinds)],
           \A u \in Threads \ {t} : nesting'[u] = nesting[u],
           nesting'[t] # <<>>,
           suspended' = suspended \ {t},
           SatisfyRequest(t, active \ {t}, nesting')
    PROVE  ListTypes' /\ ListInv'
<1> DEFINE act == active \ {t}
<1>0. act \in SUBSET Threads /\ pc \in [Threads -> Places]
  BY DEF TypeOK
<1>1. PendingThreads \subseteq Threads /\ ~signal[t]
  BY DEF ListInv, NoLostWakeup, TypeOK, PendingThreads
<1>2. CASE /\ pending = <<>> /\ Compatible(t, act, nesting')
           /\ active' = act \cup {t}
           /\ pc' = [pc EXCEPT ![t] = "out"]
           /\ UNCHANGED <<pending, signal>>
  <2>1. PendingThreads = {} /\ PendingThreads' = {}
    BY <1>2 DEF PendingThreads
  <2>2. PlacesMatchLists'
    BY <1>0, <1>2, <2>1 DEF PlacesMatchLists, ListInv
  <2>3. OneListPerRequest'
    BY <1>2, <2>1 DEF OneListPerRequest, ListInv
  <2>4. ExclusiveIsAlone'
    BY <1>0, <1>2 DEF ExclusiveIsAlone, ListInv, Compatible
  <2>5. NoLostWakeup'
    BY <1>0, <1>1, <1>2, <2>1 DEF NoLostWakeup, ListInv
  <2>6. NoLostAdmission'
    BY <1>2 DEF NoLostAdmission, HeadIsCompatible
  <2>7. ReturnsWithAccess'
    BY <1>0, <1>2, <2>1 DEF ReturnsWithAccess, ListInv
  <2>8. ListTypes'
    BY <1>0, <1>2 DEF ListTypes, TypeOK, Places
  <2> QED
    BY <2>2, <2>3, <2>4, <2>5, <2>6, <2>7, <2>8 DEF ListInv
<1>3. CASE /\ ~(pending = <<>> /\ Compatible(t, act, nesting'))
           /\ SatisfyHead(act, nesting', <<t>>)
           /\ pc' = [pc EXCEPT ![t] = "waiting"]
  <2>1. PICK A \in SUBSET PendingThreads : Admits(A, act, {t}, <<t>>)
    BY <1>0, <1>3, SatisfyHeadStep DEF ListInv
  <2>2. PlacesMatchLists'
    BY <1>0, <1>1, <1>3, <2>1 DEF Admits, PlacesMatchLists, ListInv
  <2>3. OneListPerRequest'
    <3>1. /\ active' = act \cup A /\ PendingThreads' = (PendingThreads \ A) \cup {t}
          /\ \A i, j \in DOMAIN pending' : pending'[i] = pending'[j] => i = j
      BY <2>1 DEF Admits
    <3>2. OneListPerRequest
      BY DEF ListInv
    <3> QED
      BY <1>1, <3>1, <3>2 DEF OneListPerRequest
  <2>4. ExclusiveIsAlone'
    BY <1>0, <1>1, <2>1 DEF Admits, ExclusiveIsAlone, ListInv, Compatible
  <2>5. NoLostWakeup'
    BY <1>0, <1>1, <1>3, <2>1 DEF Admits, NoLostWakeup, PlacesMatchLists, ListInv
  <2>6. NoLostAdmission'
    <3>1. CASE A = {}
      <4>1. Distinct(pending) /\ pending \in Seq(Threads) /\ t \notin Elements(pending)
        BY DEF ListInv, OneListPerRequest, TypeOK, Distinct, Elements, PendingThreads
      <4>2. Head(pending') = IF pending = <<>> THEN t ELSE Head(pending)
        BY <2>1, <3>1, <4>1, AppendElements DEF Admits
      <4>3. active' = act /\ ~HeadIsCompatible(act, nesting')
        BY <2>1, <3>1 DEF Admits
      <4>4. ~Compatible(Head(pending'), active', nesting')
        BY <1>3, <4>2, <4>3 DEF HeadIsCompatible
      <4> QED
        BY <4>4 DEF NoLostAdmission, HeadIsCompatible, Compatible
    <3>2. CASE A # {}
      BY <1>0, <1>1, <1>3, <2>1, <3>2 DEF Admits, NoLostAdmission, PlacesMatchLists, ListInv
    <3> QED
      BY <3>1, <3>2
  <2>7. ReturnsWithAccess'
    BY <1>0, <1>1, <1>3, <2>1 DEF Admits, ReturnsWithAccess, PlacesMatchLists, OneListPerRequest, ListInv
  <2>8. ListTypes'
    BY <1>0, <1>1, <1>3, <2>1 DEF ListTypes, Admits, Places
  <2> QED
    BY <2>2, <2>3, <2>4, <2>5, <2>6, <2>7, <2>8 DEF ListInv
<1> QED
  BY <1>2, <1>3 DEF SatisfyRequest, MayEnter

\* A step of t that stacks one more access on access it already has, of a kind
\* that does not change whether its request is exclusive.
LEMMA NestStep ==
    ASSUME TypeOK, ListInv,
           NEW t \in Threads, t \in active, pc[t] = "lock",
           pc' = [pc EXCEPT ![t] = "out"],
           nesting' \in [Threads -> Seq(Kinds)],
           \A u \in Threads \ {t} : nesting'[u] = nesting[u],
           nesting'[t] # <<>>,
           HasExclusive(nesting'[t]) <=> HasExclusive(nesting[t]),
           UNCHANGED <<active, pending, suspended, signal>>
    PROVE  ListInv'
<1>1. PendingThreads' = PendingThreads
  BY DEF PendingThreads
<1>2. /\ pc \in [Threads -> Places] /\ active \subseteq Threads
      /\ PendingThreads \subseteq Threads
  BY DEF TypeOK, PendingThreads
<1>3. \A u \in Threads : HasExclusive(nesting'[u]) <=> HasExclusive(nesting[u])
  OBVIOUS
<1>4. PlacesMatchLists'
  BY <1>1, <1>2 DEF PlacesMatchLists, ListInv
<1>5. OneListPerRequest'
  BY <1>1 DEF OneListPerRequest, ListInv
<1>6. ExclusiveIsAlone'
  BY <1>2, <1>3 DEF ExclusiveIsAlone, ListInv
<1>7. NoLostWakeup'
  BY <1>1, <1>2 DEF NoLostWakeup, ListInv
<1>8. NoLostAdmission'
  <2>1. pending # <<>> => Head(pending) \in Threads
    BY DEF TypeOK
  <2>2. HeadIsCompatible(active, nesting)' => HeadIsCompatible(active, nesting)
    BY <1>2, <1>3, <2>1 DEF HeadIsCompatible, Compatible
  <2> QED
    BY <1>2, <2>2 DEF NoLostAdmission, ListInv
<1>9. ReturnsWithAccess'
  BY <1>2 DEF ReturnsWithAccess, ListInv
<1> QED
  BY <1>4, <1>5, <1>6, <1>7, <1>8, <1>9 DEF ListInv

-----------------------------------------------------------------------------
(* Preservation, action by action                                          *)

\* IInv is an invariant of the initial state.
LEMMA InitIInv == Init => IInv
<1> SUFFICES ASSUME Init PROVE IInv
  OBVIOUS
<1>1. PendingThreads = {}
  BY DEF Init, PendingThreads
<1>2. TypeOK
  <2>1. \A t \in Threads : NestingDepth(t) <= MaxNest
    <3> SUFFICES ASSUME NEW t \in Threads PROVE NestingDepth(t) <= MaxNest
      OBVIOUS
    <3>1. Len(nesting[t]) = 0 /\ pc[t] \notin {"reset", "lock"}
      BY DEF Init
    <3>2. NestingDepth(t) = 0
      BY <3>1 DEF NestingDepth
    <3>3. MaxNest \in Nat
      BY MaxNestAssumption
    <3> QED
      BY <3>2, <3>3
  <2> QED
    BY <2>1 DEF Init, TypeOK, Kinds, Places
<1> QED
  BY <1>1, <1>2 DEF Init, IInv, PlacesMatchLists, OneListPerRequest,
       ExclusiveIsAlone, NoLostWakeup, NoLostAdmission, HeadIsCompatible,
       ReturnsWithAccess

\* The steps on the reference count and the event leave the lists alone.
LEMMA ReferenceActions ==
    ASSUME TypeOK, ListInv, NEW t \in Threads,
           \/ \E kind \in Kinds : IncRef(t, kind)
           \/ ResetAllRefsReleased(t)
           \/ DecRef(t)
           \/ ReleaseAllRefsReleased(t)
           \/ WaitForAllReferences(t)
    PROVE  TypeOK' /\ ListInv'
<1>1. \A u \in Threads : nesting[u] \in Seq(Kinds) /\ Len(nesting[u]) \in Nat
  BY DEF TypeOK
<1>2. /\ UNCHANGED lists
      /\ t \notin suspended
      /\ pc[t] \notin {"waiting", "woken"}
      /\ \E p \in Places \ {"waiting", "woken"} : pc' = [pc EXCEPT ![t] = p]
  BY DEF IncRef, MayNest, ResetAllRefsReleased, DecRef, ReleaseAllRefsReleased,
         WaitForAllReferences, AfterRelease, Places, ListInv, PlacesMatchLists
<1>3. \A u \in Threads : NestingDepth(u)' <= MaxNest
  <2> SUFFICES ASSUME NEW u \in Threads PROVE NestingDepth(u)' <= MaxNest
    OBVIOUS
  <2>1. nesting'[u] = nesting[u] /\ MaxNest \in Nat
    BY <1>2, MaxNestAssumption DEF lists
  <2>2. /\ Len(nesting[u]) <= MaxNest
        /\ pc[u] \in {"reset", "lock"} => Len(nesting[u]) + 1 <= MaxNest
    <3>1. NestingDepth(u) <= MaxNest
      BY DEF TypeOK
    <3> QED
      BY <1>1, <2>1, <3>1 DEF NestingDepth
  <2>3. pc'[u] \in {"reset", "lock"} =>
           \/ pc[u] \in {"reset", "lock"}
           \/ Len(nesting[u]) < MaxNest
    BY DEF TypeOK, IncRef, MayNest, ResetAllRefsReleased, DecRef, AfterRelease,
           ReleaseAllRefsReleased, WaitForAllReferences
  <2>4. CASE pc'[u] \in {"reset", "lock"}
    <3>1. Len(nesting[u]) + 1 <= MaxNest
      BY <1>1, <2>1, <2>2, <2>3, <2>4
    <3> QED
      BY <2>1, <2>4, <3>1 DEF NestingDepth
  <2>5. CASE pc'[u] \notin {"reset", "lock"}
    BY <2>1, <2>2, <2>5 DEF NestingDepth
  <2> QED
    BY <2>4, <2>5
<1>4. /\ refcount' \in Int /\ allRefsReleased' \in BOOLEAN
      /\ want' \in [Threads -> Kinds]
      /\ closing' \subseteq Threads /\ zeroSeen' \subseteq closing'
  <2>1. CASE \E kind \in Kinds : IncRef(t, kind)
    BY <2>1 DEF TypeOK, IncRef, MayNest
  <2>2. CASE ResetAllRefsReleased(t)
    BY <2>2 DEF TypeOK, ResetAllRefsReleased
  <2>3. CASE DecRef(t)
    BY <2>3 DEF TypeOK, DecRef
  <2>4. CASE ReleaseAllRefsReleased(t)
    BY <2>4 DEF TypeOK, ReleaseAllRefsReleased
  <2>5. CASE WaitForAllReferences(t)
    BY <2>5 DEF TypeOK, WaitForAllReferences
  <2> QED
    BY <2>1, <2>2, <2>3, <2>4, <2>5
<1>5. TypeOK'
  BY <1>2, <1>3, <1>4 DEF TypeOK, lists
<1> QED
  BY <1>2, <1>5, OutsideStep

\* GetSharedAccess: a nested access or a new request
LEMMA GetSharedAccessAction ==
    ASSUME TypeOK, ListInv, NEW t \in Threads, GetSharedAccess(t)
    PROVE  TypeOK' /\ ListInv'
<1>1. /\ pc[t] = "lock"
      /\ nesting' = [nesting EXCEPT ![t] = Append(nesting[t], "shared")]
      /\ UNCHANGED <<suspended, refs, want>>
      /\ t \notin suspended
      /\ t \notin PendingThreads
      /\ suspended \ {t} = suspended
  BY DEF GetSharedAccess, ListInv, PlacesMatchLists
<1>2. /\ nesting' \in [Threads -> Seq(Kinds)]
      /\ \A u \in Threads \ {t} : nesting'[u] = nesting[u]
      /\ nesting'[t] # <<>>
      /\ Len(nesting'[t]) = Len(nesting[t]) + 1
      /\ HasExclusive(nesting'[t]) <=> HasExclusive(nesting[t])
  <2>1. nesting[t] \in Seq(Kinds) /\ "shared" \in Kinds
    BY DEF TypeOK, Kinds
  <2>2. nesting'[t] = Append(nesting[t], "shared")
    BY <1>1 DEF TypeOK
  <2>3. Append(nesting[t], "shared") \in Seq(Kinds)
    BY <2>1, PushAccess
  <2>4. /\ Append(nesting[t], "shared") # <<>>
        /\ Len(Append(nesting[t], "shared")) = Len(nesting[t]) + 1
        /\ HasExclusive(Append(nesting[t], "shared")) <=> HasExclusive(nesting[t])
    BY <2>1, PushAccess
  <2>5. nesting' \in [Threads -> Seq(Kinds)] /\ \A u \in Threads \ {t} : nesting'[u] = nesting[u]
    BY <1>1, <2>3 DEF TypeOK
  <2> QED
    BY <2>2, <2>4, <2>5
<1>3. ListTypes' /\ ListInv'
  <2>1. CASE /\ t \in active
             /\ pc' = [pc EXCEPT ![t] = "out"]
             /\ UNCHANGED <<active, pending, signal>>
    BY <1>1, <1>2, <2>1, NestStep DEF TypeOK, ListTypes, Places
  <2>2. CASE t \notin active /\ SatisfyRequest(t, active, nesting')
    <3>1. active \ {t} = active
      BY <2>2
    <3> QED
      BY <1>1, <1>2, <2>2, <3>1, RequestStep
  <2> QED
    BY <2>1, <2>2 DEF GetSharedAccess
<1>4. PICK p \in {"out", "waiting"} : pc' = [pc EXCEPT ![t] = p]
  BY DEF GetSharedAccess, SatisfyRequest, MayEnter
<1>5. NestingDepth(t)' <= NestingDepth(t)
  BY <1>1, <1>2, <1>4 DEF NestingDepth, TypeOK
<1>6. TypeOK'
  BY <1>1, <1>2, <1>3, <1>4, <1>5, TypeStep DEF TypeOK, refs
<1> QED
  BY <1>3, <1>6

\* GetExclusiveAccess: a nested access, an upgrade or a new request
LEMMA GetExclusiveAccessAction ==
    ASSUME TypeOK, ListInv, NEW t \in Threads, GetExclusiveAccess(t)
    PROVE  TypeOK' /\ ListInv'
<1>1. /\ pc[t] = "lock"
      /\ nesting' = [nesting EXCEPT ![t] = Append(nesting[t], "exclusive")]
      /\ UNCHANGED <<suspended, refs, want>>
      /\ t \notin suspended
      /\ t \notin PendingThreads
      /\ suspended \ {t} = suspended
  BY DEF GetExclusiveAccess, ListInv, PlacesMatchLists
<1>2. /\ nesting' \in [Threads -> Seq(Kinds)]
      /\ \A u \in Threads \ {t} : nesting'[u] = nesting[u]
      /\ nesting'[t] # <<>>
      /\ Len(nesting'[t]) = Len(nesting[t]) + 1
      /\ HasExclusive(nesting'[t])
  <2>1. nesting[t] \in Seq(Kinds) /\ "exclusive" \in Kinds
    BY DEF TypeOK, Kinds
  <2>2. nesting'[t] = Append(nesting[t], "exclusive")
    BY <1>1 DEF TypeOK
  <2>3. Append(nesting[t], "exclusive") \in Seq(Kinds)
    BY <2>1, PushAccess
  <2> QED
    BY <1>1, <2>1, <2>2, <2>3, PushAccess DEF TypeOK
<1>3. ListTypes' /\ ListInv'
  <2>1. CASE /\ t \in active /\ HasExclusive(nesting[t])
             /\ pc' = [pc EXCEPT ![t] = "out"]
             /\ UNCHANGED <<active, pending, signal>>
    BY <1>1, <1>2, <2>1, NestStep DEF TypeOK, ListTypes, Places
  <2>2. CASE SatisfyRequest(t, active \ {t}, nesting')
    BY <1>1, <1>2, <2>2, RequestStep
  <2> QED
    BY <2>1, <2>2 DEF GetExclusiveAccess
<1>4. PICK p \in {"out", "waiting"} : pc' = [pc EXCEPT ![t] = p]
  BY DEF GetExclusiveAccess, SatisfyRequest, MayEnter
<1>5. NestingDepth(t)' <= NestingDepth(t)
  BY <1>1, <1>2, <1>4 DEF NestingDepth, TypeOK
<1>6. TypeOK'
  BY <1>1, <1>2, <1>3, <1>4, <1>5, TypeStep DEF TypeOK, refs
<1> QED
  BY <1>3, <1>6

\* ResumeAccess: the suspended request asks again
LEMMA ResumeAccessAction ==
    ASSUME TypeOK, ListInv, NEW t \in Threads, ResumeAccess(t)
    PROVE  TypeOK' /\ ListInv'
<1>1. /\ pc[t] = "out" /\ t \in suspended /\ t \notin active
      /\ t \notin PendingThreads
      /\ nesting[t] # <<>>
      /\ active \ {t} = active
      /\ SatisfyRequest(t, active, nesting)
      /\ suspended' = suspended \ {t}
      /\ UNCHANGED <<nesting, refs, want>>
  BY DEF ResumeAccess, ListInv, OneListPerRequest
<1>2. nesting' = nesting /\ nesting' \in [Threads -> Seq(Kinds)]
  BY <1>1 DEF TypeOK
<1>3. ListTypes' /\ ListInv'
  BY <1>1, <1>2, RequestStep
<1>4. PICK p \in {"out", "waiting"} : pc' = [pc EXCEPT ![t] = p]
  BY <1>1 DEF SatisfyRequest, MayEnter
<1>5. NestingDepth(t)' <= NestingDepth(t)
  BY <1>1, <1>2, <1>4 DEF NestingDepth, TypeOK
<1>6. TypeOK'
  BY <1>1, <1>2, <1>3, <1>4, <1>5, TypeStep DEF TypeOK, refs
<1> QED
  BY <1>3, <1>6

\* Waking up
LEMMA WaitForSignalAction ==
    ASSUME TypeOK, ListInv, NEW t \in Threads, WaitForSignal(t)
    PROVE  TypeOK' /\ ListInv'
<1>1. /\ pc[t] = "waiting" /\ signal[t]
      /\ signal' = [signal EXCEPT ![t] = FALSE]
      /\ pc' = [pc EXCEPT ![t] = "woken"]
      /\ UNCHANGED <<active, pending, suspended, nesting, refs, want>>
      /\ t \in active /\ t \notin suspended /\ t \notin PendingThreads
      /\ PendingThreads' = PendingThreads
  BY DEF WaitForSignal, ListInv, NoLostWakeup, OneListPerRequest, PendingThreads
<1>2. pc \in [Threads -> Places] /\ signal \in [Threads -> BOOLEAN]
  BY DEF TypeOK
<1>3. ListTypes'
  BY <1>1, <1>2 DEF ListTypes, TypeOK, Places
<1>4. PlacesMatchLists' /\ NoLostWakeup'
  BY <1>1, <1>2 DEF ListInv, PlacesMatchLists, NoLostWakeup
<1>5. OneListPerRequest' /\ ExclusiveIsAlone' /\ ReturnsWithAccess'
  BY <1>1, <1>2 DEF ListInv, OneListPerRequest, ExclusiveIsAlone, ReturnsWithAccess
<1>6. NoLostAdmission'
  BY <1>1, <1>2 DEF ListInv, NoLostAdmission, HeadIsCompatible, Compatible
<1>7. NestingDepth(t)' <= NestingDepth(t)
  BY <1>1, <1>2 DEF NestingDepth, TypeOK
<1>8. TypeOK'
  BY <1>1, <1>2, <1>3, <1>7, TypeStep DEF TypeOK, refs
<1> QED
  BY <1>4, <1>5, <1>6, <1>8 DEF ListInv

\* The admitted thread passes the lock
LEMMA SatisfyNextAction ==
    ASSUME TypeOK, ListInv, NEW t \in Threads, SatisfyNext(t)
    PROVE  TypeOK' /\ ListInv'
<1>1. /\ pc[t] = "woken" /\ t \in active /\ t \notin suspended
      /\ nesting[t] # <<>>
      /\ SatisfyHead(active, nesting, <<>>)
      /\ pc' = [pc EXCEPT ![t] = "out"]
      /\ UNCHANGED <<suspended, nesting, refs, want>>
  BY DEF SatisfyNext, ListInv, PlacesMatchLists, OneListPerRequest
<1>2. nesting' = nesting /\ nesting' \in [Threads -> Seq(Kinds)]
  BY <1>1 DEF TypeOK
<1>3. active \in SUBSET active /\ active \ active \subseteq {t}
  OBVIOUS
<1>4. ListTypes' /\ ListInv'
  BY <1>1, <1>2, <1>3, LetGoStep
<1>5. NestingDepth(t)' <= NestingDepth(t)
  BY <1>1, <1>2 DEF NestingDepth, TypeOK
<1>6. TypeOK'
  BY <1>1, <1>2, <1>4, <1>5, TypeStep DEF TypeOK, refs
<1> QED
  BY <1>4, <1>6

\* Release under the lock
LEMMA ReleaseActions ==
    ASSUME TypeOK, ListInv, NEW t \in Threads, Release(t) \/ ReleaseAndWait(t)
    PROVE  TypeOK' /\ ListInv'
<1> DEFINE act == IF Len(nesting[t]) > 1 THEN active ELSE active \ {t}
<1>1. /\ pc[t] = "out" /\ t \in active /\ t \notin suspended
      /\ nesting[t] # <<>>
      /\ nesting' = [nesting EXCEPT ![t] = RemoveLast(nesting[t])]
      /\ SatisfyHead(act, nesting', <<>>)
      /\ pc' = [pc EXCEPT ![t] = "decref"]
      /\ UNCHANGED <<suspended, refcount, allRefsReleased, zeroSeen, want>>
      /\ closing' \in {closing, closing \cup {t}}
  BY DEF Release, ReleaseAndWait, ReleaseAccess, ListInv, OneListPerRequest
<1>2. /\ nesting' \in [Threads -> Seq(Kinds)]
      /\ \A u \in Threads \ {t} : nesting'[u] = nesting[u]
      /\ Len(nesting[t]) \in Nat \ {0}
      /\ Len(nesting'[t]) = Len(nesting[t]) - 1
      /\ nesting'[t] # <<>> <=> Len(nesting[t]) > 1
      /\ HasExclusive(nesting'[t]) => HasExclusive(nesting[t])
  <2>1. nesting[t] \in Seq(Kinds) /\ nesting'[t] = RemoveLast(nesting[t])
    BY <1>1 DEF TypeOK
  <2> QED
    BY <1>1, <2>1, PopAccess DEF TypeOK
<1>3. /\ act \in SUBSET active /\ active \ act \subseteq {t}
      /\ nesting'[t] # <<>> <=> t \in act \cup suspended
  BY <1>1, <1>2
<1> HIDE DEF act
<1>4. ListTypes' /\ ListInv'
  BY <1>1, <1>2, <1>3, LetGoStep
<1>5. NestingDepth(t)' <= NestingDepth(t)
  BY <1>1, <1>2 DEF NestingDepth, TypeOK
<1>6. TypeOK'
  BY <1>1, <1>2, <1>4, <1>5, TypeStep DEF TypeOK
<1> QED
  BY <1>4, <1>6

\* SuspendAccess
LEMMA SuspendAccessAction ==
    ASSUME TypeOK, ListInv, NEW t \in Threads, SuspendAccess(t)
    PROVE  TypeOK' /\ ListInv'
<1>1. /\ pc[t] = "out" /\ t \in active
      /\ nesting[t] # <<>>
      /\ suspended' = suspended \cup {t}
      /\ SatisfyHead(active \ {t}, nesting, <<>>)
      /\ UNCHANGED <<nesting, refs, pc, want>>
  BY DEF SuspendAccess, ListInv, OneListPerRequest
<1>2. /\ nesting' = nesting /\ nesting' \in [Threads -> Seq(Kinds)]
      /\ pc' = [pc EXCEPT ![t] = "out"]
  BY <1>1 DEF TypeOK
<1>3. /\ active \ {t} \in SUBSET active
      /\ active \ (active \ {t}) \subseteq {t}
      /\ suspended' \in SUBSET (suspended \cup {t})
      /\ suspended \subseteq suspended'
      /\ t \notin active \ {t}
      /\ t \in (active \ {t}) \cup suspended'
      /\ SatisfyHead(active \ {t}, nesting', <<>>)
  BY <1>1, <1>2
<1>4. ListTypes' /\ ListInv'
  BY <1>1, <1>2, <1>3, LetGoStep
<1>5. NestingDepth(t)' <= NestingDepth(t)
  BY <1>1, <1>2 DEF NestingDepth, TypeOK
<1>6. TypeOK'
  BY <1>1, <1>2, <1>4, <1>5, TypeStep DEF TypeOK, refs
<1> QED
  BY <1>4, <1>6

\* Every step preserves the inductive invariant.
LEMMA NextIInv == IInv /\ [Next]_vars => IInv'
<1> SUFFICES ASSUME IInv, [Next]_vars PROVE IInv'
  OBVIOUS
<1>1. TypeOK /\ ListInv
  BY DEF IInv, ListInv
<1>2. TypeOK' /\ ListInv'
  <2>1. CASE Next
    <3>1. PICK t \in Threads : Proceed(t) \/ Call(t)
      BY <2>1 DEF Next
    <3> QED
      BY <1>1, <3>1, ReferenceActions, GetSharedAccessAction,
         GetExclusiveAccessAction, ResumeAccessAction, WaitForSignalAction,
         SatisfyNextAction, ReleaseActions, SuspendAccessAction
         DEF Proceed, Call
  <2>2. CASE UNCHANGED vars
    <3>1. PendingThreads' = PendingThreads
      BY <2>2 DEF vars, PendingThreads
    <3>2. TypeOK'
      BY <1>1, <2>2 DEF vars, TypeOK, NestingDepth
    <3>3. ListInv'
      BY <1>1, <2>2, <3>1
         DEF vars, ListInv, PlacesMatchLists, OneListPerRequest, ExclusiveIsAlone,
             NoLostWakeup, NoLostAdmission, HeadIsCompatible, Compatible,
             ReturnsWithAccess
    <3> QED
      BY <3>2, <3>3
  <2> QED
    BY <2>1, <2>2
<1> QED
  BY <1>2 DEF IInv, ListInv

-----------------------------------------------------------------------------
(* Theorems                                                                *)

\* The inductive invariant holds in every reachable state.
THEOREM Invariance == Spec => []IInv
  BY InitIInv, NextIInv, PTL DEF Spec

\* Types, and the nesting limit of tRequest::Add.
THEOREM TypeCorrectness == Spec => []TypeOK
<1>1. IInv => TypeOK
  BY DEF IInv
<1> QED
  BY <1>1, Invariance, PTL

\* A thread with exclusive access is the only one with access.
THEOREM MutualExclusion == Spec => []ExclusiveIsAlone
<1>1. IInv => ExclusiveIsAlone
  BY DEF IInv
<1> QED
  BY <1>1, Invariance, PTL

\* No request is lost or duplicated by the moves between the lists.
THEOREM RequestsConserved == Spec => []OneListPerRequest
<1>1. IInv => OneListPerRequest
  BY DEF IInv
<1> QED
  BY <1>1, Invariance, PTL

\* No thread sleeps on an event nobody will set, and no event is set early.
THEOREM Wakeups == Spec => []NoLostWakeup
<1>1. IInv => NoLostWakeup
  BY DEF IInv
<1> QED
  BY <1>1, Invariance, PTL

\* A pending request that could run is never forgotten.
THEOREM Admissions == Spec => []NoLostAdmission
<1>1. IInv => NoLostAdmission
  BY DEF IInv
<1> QED
  BY <1>1, Invariance, PTL

\* A call that acquires or resumes returns only with access.
THEOREM AccessOnReturn == Spec => []ReturnsWithAccess
<1>1. IInv => ReturnsWithAccess
  BY DEF IInv
<1> QED
  BY <1>1, Invariance, PTL

-----------------------------------------------------------------------------
(* The order of admissions                                                 *)

\* What trying the oldest pending request does to the order, whoever tries it: `act` is
\* what is left of the active requests, `more` who queues up.
LEMMA SatisfyHeadInOrder ==
    ASSUME TypeOK, NEW act \in SUBSET active, NEW nst,
           NEW more \in Seq(Threads), SatisfyHead(act, nst, more)
    PROVE  ServesInOrder
<1>1. pending \in Seq(Threads)
  BY DEF TypeOK
<1>2. CASE HeadIsCompatible(act, nst)
  <2>1. pending # <<>> /\ active' = act \cup {Head(pending)}
        /\ pending' = Tail(pending) \o more
    BY <1>2 DEF SatisfyHead, HeadIsCompatible
  <2>2. Tail(pending) \in Seq(Threads) /\ Len(Tail(pending)) = Len(pending) - 1
        /\ \A i \in 1 .. Len(pending) - 1 : Tail(pending)[i] = pending[i + 1]
    BY <1>1, <2>1
  <2>3. \A i \in DOMAIN pending' : i <= Len(pending) - 1 => pending'[i] = pending[i + 1]
    BY <1>1, <2>1, <2>2
  <2> QED
    BY <2>1, <2>3 DEF ServesInOrder
<1>3. CASE ~HeadIsCompatible(act, nst)
  <2>1. active' = act /\ pending' = pending \o more
    BY <1>3 DEF SatisfyHead
  <2>2. \A i \in DOMAIN pending' : i <= Len(pending) - 1 => pending'[i] = pending[i]
    BY <1>1, <2>1
  <2> QED
    BY <2>1, <2>2 DEF ServesInOrder
<1> QED
  BY <1>2, <1>3

\* The same for a thread's own request.
LEMMA SatisfyRequestInOrder ==
    ASSUME TypeOK, NEW t \in Threads, NEW act \in SUBSET active, NEW nst,
           SatisfyRequest(t, act, nst)
    PROVE  ServesInOrder
<1>1. CASE MayEnter(t, act, nst)
  BY <1>1 DEF SatisfyRequest, MayEnter, ServesInOrder, TypeOK
<1>2. CASE ~MayEnter(t, act, nst)
  <2>1. SatisfyHead(act, nst, <<t>>) /\ <<t>> \in Seq(Threads)
    BY <1>2 DEF SatisfyRequest
  <2> QED
    BY <2>1, SatisfyHeadInOrder
<1> QED
  BY <1>1, <1>2

\* A step that leaves both lists alone serves nobody.
LEMMA NobodyServed ==
    ASSUME TypeOK, UNCHANGED <<active, pending>>
    PROVE  ServesInOrder
  BY DEF ServesInOrder, TypeOK

\* Every step of every thread serves in order.
LEMMA NextInOrder == TypeOK /\ Next => ServesInOrder
<1> SUFFICES ASSUME TypeOK, NEW t \in Threads, Proceed(t) \/ Call(t)
             PROVE  ServesInOrder
  BY DEF Next
<1>1. CASE \/ ResetAllRefsReleased(t) \/ WaitForSignal(t) \/ DecRef(t)
           \/ ReleaseAllRefsReleased(t) \/ WaitForAllReferences(t)
           \/ \E kind \in Kinds : IncRef(t, kind)
  BY <1>1, NobodyServed DEF ResetAllRefsReleased, WaitForSignal, DecRef,
     ReleaseAllRefsReleased, WaitForAllReferences, IncRef, lists
<1>2. CASE GetSharedAccess(t)
  <2>1. CASE t \in active
    BY <1>2, <2>1, NobodyServed DEF GetSharedAccess
  <2>2. CASE t \notin active
    BY <1>2, <2>2, SatisfyRequestInOrder DEF GetSharedAccess
  <2> QED
    BY <2>1, <2>2
<1>3. CASE GetExclusiveAccess(t)
  <2>1. CASE t \in active /\ HasExclusive(nesting[t])
    BY <1>3, <2>1, NobodyServed DEF GetExclusiveAccess
  <2>2. CASE ~(t \in active /\ HasExclusive(nesting[t]))
    <3>1. SatisfyRequest(t, active \ {t}, nesting')
      BY <1>3, <2>2 DEF GetExclusiveAccess
    <3> QED
      BY <3>1, SatisfyRequestInOrder
  <2> QED
    BY <2>1, <2>2
<1>4. CASE SatisfyNext(t)
  <2>1. SatisfyHead(active, nesting, <<>>) /\ <<>> \in Seq(Threads)
    BY <1>4 DEF SatisfyNext
  <2> QED
    BY <2>1, SatisfyHeadInOrder
<1>5. CASE Release(t) \/ ReleaseAndWait(t)
  <2> DEFINE act == IF Len(nesting[t]) > 1 THEN active ELSE active \ {t}
  <2>1. SatisfyHead(act, nesting', <<>>) /\ <<>> \in Seq(Threads) /\ act \in SUBSET active
    BY <1>5 DEF Release, ReleaseAndWait, ReleaseAccess
  <2> QED
    BY <2>1, SatisfyHeadInOrder
<1>6. CASE SuspendAccess(t)
  <2>1. SatisfyHead(active \ {t}, nesting, <<>>) /\ <<>> \in Seq(Threads)
    BY <1>6 DEF SuspendAccess
  <2> QED
    BY <2>1, SatisfyHeadInOrder
<1>7. CASE ResumeAccess(t)
  BY <1>7, SatisfyRequestInOrder DEF ResumeAccess
<1> QED
  BY <1>1, <1>2, <1>3, <1>4, <1>5, <1>6, <1>7 DEF Proceed, Call

\* First come, first served: nobody overtakes a pending request.
THEOREM FirstCome == Spec => FirstComeFirstServed
<1>1. TypeOK /\ [Next]_vars => [ServesInOrder]_vars
  BY NextInOrder
<1> QED
  BY <1>1, TypeCorrectness, PTL DEF Spec, FirstComeFirstServed

=============================================================================
