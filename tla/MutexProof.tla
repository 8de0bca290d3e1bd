---------------------------- MODULE MutexProof ----------------------------
(* Proofs about Mutex, for every set of threads and of mutexes.             *)
EXTENDS Mutex, RtListProof, FiniteSetTheorems

-----------------------------------------------------------------------------
(* How often an element is on a list.                                       *)

Places(q, n) == {i \in DOMAIN q : q[i] = n}

LEMMA PlacesFinite ==
    ASSUME NEW S, NEW q \in Seq(S), NEW n
    PROVE  /\ IsFiniteSet(Places(q, n))
           /\ Cardinality(Places(q, n)) \in 0 .. Len(q)
           /\ Cardinality(Places(q, n)) > 0 <=> n \in ToSet(q)
<1>1. Len(q) \in Nat /\ DOMAIN q = 1 .. Len(q)
  BY LenProperties
<1>2. IsFiniteSet(1 .. Len(q)) /\ Cardinality(1 .. Len(q)) = Len(q)
  BY <1>1, FS_Interval
<1>3. Places(q, n) \subseteq 1 .. Len(q)
  BY <1>1 DEF Places
<1>4. /\ IsFiniteSet(Places(q, n))
      /\ Cardinality(Places(q, n)) <= Len(q)
  BY ONLY <1>2, <1>3, FS_Subset
<1>5. Cardinality(Places(q, n)) \in Nat
  BY <1>4, FS_CardinalityType
<1>6. Cardinality(Places(q, n)) = 0 <=> Places(q, n) = {}
  BY <1>4, FS_EmptySet
<1>7. Places(q, n) = {} <=> n \notin ToSet(q)
  BY DEF Places, ToSet
<1> QED BY <1>1, <1>4, <1>5, <1>6, <1>7

\* A bijection between two sets of places, given by its graph.
LEMMA SameSize ==
    ASSUME NEW A, NEW B, NEW f \in [A -> B], IsFiniteSet(A),
           \A a, b \in A : f[a] = f[b] => a = b,
           \A b \in B : \E a \in A : f[a] = b
    PROVE  IsFiniteSet(B) /\ Cardinality(A) = Cardinality(B)
<1>1. f \in Bijection(A, B)
  BY DEF Bijection, Injection, Surjection, IsInjective
<1>2. ExistsBijection(A, B)
  BY <1>1 DEF ExistsBijection
<1> QED BY <1>2, FS_Bijection

LEMMA PushPlaces ==
    ASSUME NEW S, NEW q \in Seq(S), NEW x \in S, NEW n
    PROVE  Cardinality(Places(Push(q, x), n)) =
              Cardinality(Places(q, n)) + IF n = x THEN 1 ELSE 0
<1> DEFINE r == Push(q, x)
           A == Places(q, n)
           B == {i + 1 : i \in A}
           f == [i \in A |-> i + 1]
<1>1. /\ Len(q) \in Nat /\ DOMAIN q = 1 .. Len(q)
      /\ r \in Seq(S) /\ Len(r) = Len(q) + 1 /\ DOMAIN r = 1 .. Len(q) + 1
      /\ r[1] = x /\ \A i \in 1 .. Len(q) : r[i + 1] = q[i]
  BY ConcatProperties, LenProperties DEF Push
<1>2. IsFiniteSet(A) /\ A \subseteq Nat /\ Cardinality(A) \in Nat
  <2>1. A \subseteq Nat
    BY <1>1 DEF Places
  <2>2. IsFiniteSet(A) /\ Cardinality(A) \in 0 .. Len(q)
    BY PlacesFinite
  <2> QED BY <1>1, <2>1, <2>2
<1>3. IsFiniteSet(B) /\ Cardinality(A) = Cardinality(B)
  <2>1. f \in [A -> B]
    OBVIOUS
  <2>2. \A a, b \in A : f[a] = f[b] => a = b
    BY <1>2
  <2>3. \A b \in B : \E a \in A : f[a] = b
    OBVIOUS
  <2> HIDE DEF f, A, B
  <2> QED BY <1>2, <2>1, <2>2, <2>3, SameSize
<1>5. 1 \notin B
  BY <1>1 DEF Places
<1>6. CASE n = x
  <2>1. Places(r, n) = B \cup {1}
    <3>1. ASSUME NEW i \in Places(r, n) PROVE i \in B \cup {1}
      <4>1. i \in 1 .. Len(q) + 1 /\ r[i] = n
        BY <1>1 DEF Places
      <4>2. CASE i # 1
        <5>1. i - 1 \in A /\ i = (i - 1) + 1
          BY <1>1, <4>1, <4>2 DEF Places
        <5> QED BY <5>1
      <4> QED BY <4>2
    <3>2. ASSUME NEW i \in B \cup {1} PROVE i \in Places(r, n)
      BY <1>1, <1>6 DEF Places
    <3> QED BY <3>1, <3>2
  <2> HIDE DEF B, A, r
  <2>2. Cardinality(B \cup {1}) = Cardinality(B) + 1
    BY <1>3, <1>5, FS_AddElement
  <2> QED BY <1>3, <1>6, <2>1, <2>2 DEF r, A
<1>7. CASE n # x
  <2>1. Places(r, n) = B
    <3>1. ASSUME NEW i \in Places(r, n) PROVE i \in B
      <4>1. i \in 1 .. Len(q) + 1 /\ r[i] = n /\ i # 1
        BY <1>1, <1>7 DEF Places
      <4>2. i - 1 \in A /\ i = (i - 1) + 1
        BY <1>1, <4>1 DEF Places
      <4> QED BY <4>2
    <3>2. ASSUME NEW i \in B PROVE i \in Places(r, n)
      BY <1>1 DEF Places
    <3> QED BY <3>1, <3>2
  <2> QED BY <1>2, <1>3, <1>7, <2>1
<1> QED BY <1>6, <1>7

LEMMA RemovePlaces ==
    ASSUME NEW S, NEW q \in Seq(S), NEW i \in 1 .. Len(q), NEW n
    PROVE  Cardinality(Places(RemoveAt(q, i), n)) =
              Cardinality(Places(q, n)) - IF n = q[i] THEN 1 ELSE 0
<1> DEFINE r == RemoveAt(q, i)
           A == Places(r, n)
           B == Places(q, n) \ {i}
           f == [j \in A |-> IF j < i THEN j ELSE j + 1]
<1>1. /\ Len(q) \in Nat /\ DOMAIN q = 1 .. Len(q)
      /\ r \in Seq(S) /\ DOMAIN r = 1 .. Len(q) - 1
      /\ \A j \in 1 .. Len(q) - 1 : r[j] = IF j < i THEN q[j] ELSE q[j + 1]
  BY RemoveAtElements, LenProperties
<1>2. IsFiniteSet(A) /\ IsFiniteSet(Places(q, n)) /\ Cardinality(Places(q, n)) \in Nat
  BY <1>1, PlacesFinite
<1>3. /\ \A j \in A : j \in 1 .. Len(q) - 1 /\ r[j] = n
      /\ \A j \in 1 .. Len(q) - 1 : r[j] = n => j \in A
      /\ \A j \in B : j \in 1 .. Len(q) /\ q[j] = n /\ j # i
      /\ \A j \in 1 .. Len(q) : q[j] = n /\ j # i => j \in B
  BY <1>1 DEF Places
<1>4. Cardinality(A) = Cardinality(B)
  <2> HIDE DEF A, B, r
  <2>1. \A j \in A : (IF j < i THEN j ELSE j + 1) \in B
    BY <1>1, <1>3
  <2>2. f \in [A -> B]
    BY <2>1
  <2>3. \A a, b \in A : f[a] = f[b] => a = b
    BY <1>1, <1>3
  <2>4. ASSUME NEW b \in B PROVE \E a \in A : f[a] = b
    <3>1. CASE b < i
      <4>1. b \in A
        BY <1>1, <1>3, <3>1
      <4> QED BY <3>1, <4>1
    <3>2. CASE b > i
      <4>1. b - 1 \in A /\ ~(b - 1 < i) /\ (b - 1) + 1 = b
        BY <1>1, <1>3, <3>2
      <4> QED BY <4>1
    <3> QED BY <1>1, <1>3, <3>1, <3>2
  <2> HIDE DEF f
  <2> QED BY <1>2, <2>2, <2>3, <2>4, SameSize
<1>5. Cardinality(B) = Cardinality(Places(q, n)) - IF i \in Places(q, n) THEN 1 ELSE 0
  <2>1. Cardinality(B) = IF i \in Places(q, n) THEN Cardinality(Places(q, n)) - 1
                                              ELSE Cardinality(Places(q, n))
    BY <1>2, FS_RemoveElement
  <2> HIDE DEF B
  <2>2. CASE i \in Places(q, n)
    BY <2>1, <2>2
  <2>3. CASE i \notin Places(q, n)
    BY <1>2, <2>1, <2>3
  <2> QED BY <2>2, <2>3
<1>6. i \in Places(q, n) <=> n = q[i]
  BY <1>1 DEF Places
<1> QED BY <1>4, <1>5, <1>6

-----------------------------------------------------------------------------
(* The inductive invariant.                                                 *)

Given == {Priority[t] : t \in Thread}
Step == [at : {"run", "taking", "wake"}, obj : Mutex \cup {Nobody}]

\* The types, but for the bound of hold, which is a consequence of what it counts.
Shape ==
    /\ value \in [Mutex -> 0 .. 1]
    /\ owner \in [Mutex -> Thread \cup {Nobody}]
    /\ original_priority \in [Mutex -> Given \cup {255}]
    /\ hold \in [Mutex -> Nat]
    /\ suspend_thread \in [Mutex -> Seq(Thread)]
    /\ object \subseteq Mutex
    /\ current_priority \in [Thread -> Given]
    /\ error \in [Thread -> {"ok", "timeout", "error"}]
    /\ timed \subseteq Thread
    /\ pc \in [Thread -> Step]
    /\ taken \in [Thread -> Seq(Mutex)]

\* A thread is on the list of the mutex that it takes, once, and does not own it; it
\* has no error yet.  Only a waiter has a timer.
Lists ==
    /\ \A m \in Mutex : IsInjective(suspend_thread[m])
    /\ \A m \in Mutex, t \in Thread : t \in ToSet(suspend_thread[m]) =>
          /\ pc[t].at = "taking" /\ pc[t].obj = m
          /\ error[t] = "ok"
          /\ owner[m] # t /\ owner[m] # Nobody /\ m \in object
    /\ \A t \in timed : Waits(t)

\* What a thread is in the middle of, and what it had taken before.
Calls ==
    /\ \A t \in Thread : pc[t].at # "run" => pc[t].obj \in Mutex
    /\ \A t \in Thread : pc[t].at = "taking" =>
          /\ Len(taken[t]) < MaxTakes
          /\ \A k \in ToSet(taken[t]) : <<k, pc[t].obj>> \in Nests
    /\ \A t \in Thread : Len(taken[t]) <= MaxTakes

\* What hold counts.
Counts ==
    /\ \A m \in Mutex, t \in Thread : owner[m] = t =>
          /\ value[m] = 0
          /\ hold[m] > 0 /\ original_priority[m] \in Given
          /\ hold[m] = Takes(t, m) + IF Arriving(t, m) THEN 1 ELSE 0
    /\ \A m \in Mutex : owner[m] = Nobody => value[m] = 1 /\ hold[m] = 0
    /\ \A m \in Mutex, t \in Thread : Takes(t, m) > 0 \/ Arriving(t, m) => owner[m] = t

\* Who arrives with an error does not own what it wanted.
Ends ==
    \A t \in Thread, m \in Mutex :
       pc[t].at = "taking" /\ pc[t].obj = m /\ ~Waits(t) /\ owner[m] = t => error[t] = "ok"

Owners == Shape /\ Lists /\ Calls /\ Counts /\ Ends

\* The mutex that a thread took first has saved the priority the thread was given.
First(t) == taken[t][Len(taken[t])]
SavedFor(t) ==
    /\ taken[t] # <<>> => original_priority[First(t)] = Priority[t]
    /\ taken[t] = <<>> =>
          /\ \A m \in Mutex : Arriving(t, m) => original_priority[m] = Priority[t]
          /\ (\A m \in Mutex : ~Arriving(t, m)) => current_priority[t] = Priority[t]
Saved == \A t \in Thread : SavedFor(t)

\* Who owns a mutex that is held alone owns nothing else, and those who wait for it
\* are sorted by their priority, which does not change while they wait.
SortedBy(p, q) == \A i, j \in 1 .. Len(q) : i < j => p[q[i]] <= p[q[j]]
Single ==
    \A m, k \in Mutex : HeldAlone(m) /\ owner[m] # Nobody /\ owner[k] = owner[m] => k = m
Sorted ==
    \A m \in PrioFlag : HeldAlone(m) => SortedBy(current_priority, suspend_thread[m])
Inherits == Single /\ Sorted /\ OwnerInherits

-----------------------------------------------------------------------------
(* What the parts of the calls do.                                          *)

LEMMA StepFields ==
    ASSUME NEW r \in Step, NEW s, NEW m
    PROVE  r = [at |-> s, obj |-> m] <=> r.at = s /\ r.obj = m
BY DEF Step

LEMMA ArrivingFields ==
    ASSUME Shape
    PROVE  \A t \in Thread, m \in Mutex : Arriving(t, m) <=>
              pc[t].at = "taking" /\ pc[t].obj = m /\ ~Waits(t) /\ error[t] = "ok"
<1>1. pc \in [Thread -> Step]
  BY DEF Shape
<1> QED BY ONLY <1>1, StepFields DEF Arriving

LEMMA ArrivingFieldsNext ==
    ASSUME pc' \in [Thread -> Step]
    PROVE  \A t \in Thread, m \in Mutex : Arriving(t, m)' <=>
              pc'[t].at = "taking" /\ pc'[t].obj = m /\ ~Waits(t)' /\ error'[t] = "ok"
BY StepFields DEF Arriving

LEMMA TakesFacts ==
    ASSUME Shape, NEW t \in Thread, NEW m \in Mutex
    PROVE  Takes(t, m) \in 0 .. Len(taken[t]) /\ (Takes(t, m) > 0 <=> m \in ToSet(taken[t]))
<1>1. taken[t] \in Seq(Mutex)
  BY DEF Shape
<1>2. Takes(t, m) = Cardinality(Places(taken[t], m))
  BY DEF Takes, Places
<1> QED BY <1>1, <1>2, PlacesFinite

\* hold does not overflow.
LEMMA HoldBound ==
    ASSUME Shape, Calls, Counts, NEW m \in Mutex
    PROVE  /\ hold[m] \in 0 .. MaxTakes
           /\ owner[m] # Nobody => Less(m) = hold[m] - 1
<1>1. hold[m] \in 0 .. MaxTakes
  <2>1. CASE owner[m] = Nobody
    BY <2>1, MutexAssumption DEF Counts
  <2>2. ASSUME NEW t \in Thread, owner[m] = t PROVE hold[m] \in 0 .. MaxTakes
    <3>1. /\ Takes(t, m) \in 0 .. Len(taken[t]) /\ Len(taken[t]) \in Nat
          /\ Len(taken[t]) <= MaxTakes /\ MaxTakes \in Nat
      <4>1. taken[t] \in Seq(Mutex) /\ Len(taken[t]) <= MaxTakes /\ MaxTakes \in Nat
        BY MutexAssumption DEF Calls, Shape
      <4>2. Len(taken[t]) \in Nat
        BY <4>1, LenProperties
      <4> QED BY <4>1, <4>2, TakesFacts
    <3>2. hold[m] = Takes(t, m) + IF Arriving(t, m) THEN 1 ELSE 0
      BY <2>2 DEF Counts
    <3>3. CASE Arriving(t, m)
      <4>1. Len(taken[t]) < MaxTakes
        BY <3>3 DEF Arriving, Calls
      <4> QED BY <3>1, <3>2, <3>3, <4>1
    <3>4. CASE ~Arriving(t, m)
      BY <3>1, <3>2, <3>4
    <3> QED BY <3>3, <3>4
  <2> QED BY <2>1, <2>2 DEF Shape
<1>2. ASSUME owner[m] # Nobody PROVE Less(m) = hold[m] - 1
  <2>1. hold[m] > 0
    BY <1>2 DEF Counts, Shape
  <2> QED BY <1>1, <2>1, MutexAssumption DEF Less
<1> QED BY <1>1, <1>2

LEMMA TookTakes ==
    ASSUME Shape, NEW t \in Thread, NEW m \in Mutex, Took(t, m)
    PROVE  /\ taken' \in [Thread -> Seq(Mutex)]
           /\ Len(taken[t]') = Len(taken[t]) + 1
           /\ ToSet(taken[t]') = ToSet(taken[t]) \cup {m}
           /\ taken[t]' # <<>>
           /\ taken[t]' = Push(taken[t], m)
           /\ \A u \in Thread : u # t => taken[u]' = taken[u]
           /\ \A u \in Thread, k \in Mutex :
                 Takes(u, k)' = Takes(u, k) + IF u = t /\ k = m THEN 1 ELSE 0
<1>1. /\ taken[t] \in Seq(Mutex) /\ taken[t]' = Push(taken[t], m)
      /\ \A u \in Thread : u # t => taken[u]' = taken[u]
  BY DEF Took, Shape, Push
<1>2. /\ taken[t]' \in Seq(Mutex) /\ Len(taken[t]') = Len(taken[t]) + 1
      /\ ToSet(taken[t]') = ToSet(taken[t]) \cup {m}
  <2>1. Push(taken[t], m) \in Seq(Mutex) /\ Len(Push(taken[t], m)) = Len(taken[t]) + 1
    BY <1>1, ConcatProperties DEF Push
  <2>2. ToSet(Push(taken[t], m)) = ToSet(taken[t]) \cup {m}
    BY <1>1, PushElements
  <2> QED BY <1>1, <2>1, <2>2
<1>3. taken' \in [Thread -> Seq(Mutex)]
  BY <1>1, <1>2 DEF Took, Shape
<1>4. taken[t]' # <<>>
  BY <1>1, <1>2, LenProperties
<1>5. ASSUME NEW u \in Thread, NEW k \in Mutex
      PROVE  Takes(u, k)' = Takes(u, k) + IF u = t /\ k = m THEN 1 ELSE 0
  <2>1. /\ Takes(u, k) = Cardinality(Places(taken[u], k)) /\ Takes(u, k) \in Nat
        /\ Takes(u, k)' = Cardinality(Places(taken[u]', k))
    BY TakesFacts DEF Takes, Places
  <2>2. CASE u = t
    BY <1>1, <2>1, <2>2, PushPlaces
  <2>3. CASE u # t
    BY <1>1, <2>1, <2>3
  <2> QED BY <2>2, <2>3
<1> QED BY <1>1, <1>2, <1>3, <1>4, <1>5

LEMMA ReleasedTakes ==
    ASSUME Shape, NEW t \in Thread, NEW m \in Mutex, Takes(t, m) > 0, Released(t, m)
    PROVE  /\ taken' \in [Thread -> Seq(Mutex)]
           /\ Len(taken[t]') = Len(taken[t]) - 1
           /\ ToSet(taken[t]') \subseteq ToSet(taken[t])
           /\ \A u \in Thread : u # t => taken[u]' = taken[u]
           /\ \A u \in Thread, k \in Mutex :
                 Takes(u, k)' = Takes(u, k) - IF u = t /\ k = m THEN 1 ELSE 0
           /\ Head(taken[t]) = m => taken[t]' = RemoveAt(taken[t], 1)
<1> DEFINE q == taken[t]
<1>1. /\ q \in Seq(Mutex) /\ Len(q) \in Nat /\ DOMAIN q = 1 .. Len(q)
      /\ m \in ToSet(q)
  BY TakesFacts, LenProperties DEF Shape
<1>2. Places(q, m) \in SUBSET Nat /\ Places(q, m) # {}
  BY <1>1 DEF Places, ToSet
<1>3. PICK i \in 1 .. Len(q) :
         i = Min(Places(q, m)) /\ q[i] = m /\ \A j \in Places(q, m) : i <= j
  BY <1>1, <1>2, LeastPlace DEF Places
<1>4. /\ taken[t]' = RemoveAt(q, i) /\ \A u \in Thread : u # t => taken[u]' = taken[u]
  BY <1>3 DEF Released, Shape, Places
<1>5. /\ RemoveAt(q, i) \in Seq(Mutex) /\ Len(RemoveAt(q, i)) = Len(q) - 1
      /\ \A j \in 1 .. Len(q) - 1 :
            RemoveAt(q, i)[j] = IF j < i THEN q[j] ELSE q[j + 1]
  BY <1>1, RemoveAtElements
<1>6. ToSet(RemoveAt(q, i)) \subseteq ToSet(q)
  <2>1. DOMAIN RemoveAt(q, i) = 1 .. Len(q) - 1
    BY <1>1, <1>5, LenProperties
  <2> HIDE DEF q
  <2> QED BY <1>1, <1>5, <2>1 DEF ToSet
<1>7. taken' \in [Thread -> Seq(Mutex)]
  BY <1>3, <1>4, <1>5 DEF Released, Shape
<1>8. ASSUME NEW u \in Thread, NEW k \in Mutex
      PROVE  Takes(u, k)' = Takes(u, k) - IF u = t /\ k = m THEN 1 ELSE 0
  <2>1. /\ Takes(u, k) = Cardinality(Places(taken[u], k)) /\ Takes(u, k) \in Nat
        /\ Takes(u, k)' = Cardinality(Places(taken[u]', k))
    BY TakesFacts DEF Takes, Places
  <2>2. CASE u = t
    <3>1. Cardinality(Places(RemoveAt(q, i), k)) =
             Cardinality(Places(q, k)) - IF k = m THEN 1 ELSE 0
      BY <1>1, <1>3, RemovePlaces
    <3> QED BY <1>4, <2>1, <2>2, <3>1
  <2>3. CASE u # t
    BY <1>4, <2>1, <2>3
  <2> QED BY <2>2, <2>3
<1>9. Head(q) = m => i = 1
  <2> SUFFICES ASSUME Head(q) = m PROVE i = 1
    OBVIOUS
  <2>1. q[1] = m /\ 1 \in 1 .. Len(q)
    BY <1>1, <1>3
  <2>2. 1 \in Places(q, m)
    BY <1>1, <2>1 DEF Places
  <2> QED BY <1>1, <1>3, <2>2
<1> QED BY <1>4, <1>5, <1>6, <1>7, <1>8, <1>9

\* A thread stops waiting.
Leaves(h) ==
    /\ suspend_thread' \in [Mutex -> Seq(Thread)]
    /\ \A k \in Mutex : /\ IsInjective(suspend_thread[k]')
                        /\ ToSet(suspend_thread[k]') = ToSet(suspend_thread[k]) \ {h}
    /\ timed' = timed \ {h}

LEMMA LeavesWaits ==
    ASSUME NEW h, Leaves(h), NEW u
    PROVE  Waits(u)' <=> Waits(u) /\ u # h
BY DEF Leaves, Waits

LEMMA ResumeLeaves ==
    ASSUME Shape, Lists, NEW m \in Mutex, suspend_thread[m] # <<>>, Resume(m),
           NEW h, h = Head(suspend_thread[m])
    PROVE  h \in Thread /\ h \in ToSet(suspend_thread[m]) /\ Leaves(h)
<1> DEFINE q == suspend_thread[m]
<1>1. q \in Seq(Thread) /\ IsInjective(q)
  BY DEF Shape, Lists
<1>2. /\ Tail(q) \in Seq(Thread) /\ h \in ToSet(q)
      /\ IsInjective(Tail(q)) /\ ToSet(Tail(q)) = ToSet(q) \ {h}
  BY <1>1, TailElements
<1>3. /\ suspend_thread' \in [Mutex -> Seq(Thread)]
      /\ suspend_thread[m]' = Tail(q)
      /\ \A k \in Mutex : k # m => suspend_thread[k]' = suspend_thread[k]
      /\ timed' = timed \ {h}
  BY <1>2 DEF Resume, Shape
<1>4. ASSUME NEW k \in Mutex, k # m PROVE h \notin ToSet(suspend_thread[k])
  <2>1. h \in Thread
    BY <1>1, <1>2, ListMembers
  <2>2. pc[h].obj = m /\ (h \in ToSet(suspend_thread[k]) => pc[h].obj = k)
    BY <1>2, <2>1 DEF Lists
  <2> QED BY <1>4, <2>2
<1> HIDE DEF q
<1>5. ASSUME NEW k \in Mutex
      PROVE  /\ IsInjective(suspend_thread[k]')
             /\ ToSet(suspend_thread[k]') = ToSet(suspend_thread[k]) \ {h}
  <2>1. CASE k = m
    BY <1>2, <1>3, <2>1 DEF q
  <2>2. CASE k # m
    BY <1>3, <1>4, <2>2 DEF Lists
  <2> QED BY <2>1, <2>2
<1>6. h \in Thread
  BY <1>1, <1>2, ListMembers
<1>7. Leaves(h)
  BY <1>3, <1>5 DEF Leaves
<1> QED BY <1>2, <1>6, <1>7 DEF q

LEMMA TimeoutLeaves ==
    ASSUME Shape, Lists, NEW t \in Thread, Timeout(t)
    PROVE  Leaves(t)
<1>1. ASSUME NEW k \in Mutex
      PROVE  /\ suspend_thread[k]' = Unlink(suspend_thread[k], t)
             /\ suspend_thread[k]' \in Seq(Thread)
             /\ IsInjective(suspend_thread[k]')
             /\ ToSet(suspend_thread[k]') = ToSet(suspend_thread[k]) \ {t}
  <2>1. suspend_thread[k] \in Seq(Thread) /\ IsInjective(suspend_thread[k])
    BY DEF Shape, Lists
  <2>2. suspend_thread[k]' = Unlink(suspend_thread[k], t)
    BY DEF Timeout
  <2> QED BY <2>1, <2>2, UnlinkElements
<1>2. suspend_thread' \in [Mutex -> Seq(Thread)]
  BY <1>1 DEF Timeout
<1> QED BY <1>1, <1>2 DEF Leaves, Timeout

LEMMA PlaceInside ==
    ASSUME NEW q \in Seq(Thread), NEW t, NEW m
    PROVE  /\ Place(q, t, m) \in 1 .. Len(q) + 1
           /\ m \in PrioFlag =>
                 /\ \A i \in 1 .. Len(q) : i < Place(q, t, m) =>
                       ~(current_priority[t] < current_priority[q[i]])
                 /\ Place(q, t, m) <= Len(q) =>
                       current_priority[t] < current_priority[q[Place(q, t, m)]]
<1> DEFINE later == {i \in DOMAIN q :
                       m \in PrioFlag /\ current_priority[t] < current_priority[q[i]]}
<1>1. Len(q) \in Nat /\ DOMAIN q = 1 .. Len(q)
  BY LenProperties
<1>2. CASE later = {}
  <2>1. Place(q, t, m) = Len(q) + 1
    BY <1>2 DEF Place
  <2>2. m \in PrioFlag => \A i \in 1 .. Len(q) : ~(current_priority[t] < current_priority[q[i]])
    BY <1>1, <1>2
  <2> QED BY <1>1, <2>1, <2>2
<1>3. CASE later # {}
  <2>1. later \in SUBSET Nat
    BY <1>1
  <2>2. Min(later) \in later /\ \A y \in later : Min(later) <= y
    BY <1>3, <2>1, LeastPlace
  <2>3. Place(q, t, m) = Min(later)
    BY <1>3 DEF Place
  <2>4. \A i \in 1 .. Len(q) : i \in later <=>
           m \in PrioFlag /\ current_priority[t] < current_priority[q[i]]
    BY <1>1
  <2>5. Min(later) \in 1 .. Len(q)
    BY <1>1, <2>2
  <2> HIDE DEF later
  <2> QED BY <1>1, <2>2, <2>3, <2>4, <2>5
<1> QED BY <1>2, <1>3

\* t becomes a waiter of m.
LEMMA TakeWaitsJoins ==
    ASSUME Shape, Lists, NEW t \in Thread, NEW m \in Mutex, TakeWaits(t, m)
    PROVE  /\ suspend_thread' \in [Mutex -> Seq(Thread)]
           /\ \A k \in Mutex : k # m => suspend_thread[k]' = suspend_thread[k]
           /\ suspend_thread[m]' =
                 InsertAt(suspend_thread[m], Place(suspend_thread[m], t, m), t)
           /\ IsInjective(suspend_thread[m]')
           /\ ToSet(suspend_thread[m]') = ToSet(suspend_thread[m]) \cup {t}
           /\ ~Waits(t) /\ \A u \in Thread : Waits(u)' <=> Waits(u) \/ u = t
<1> DEFINE q == suspend_thread[m]
<1>1. q \in Seq(Thread) /\ IsInjective(q) /\ ~Waits(t)
  BY DEF Shape, Lists, TakeWaits, MayTake, At
<1>2. t \notin ToSet(q)
  BY <1>1 DEF Waits
<1>3. Place(q, t, m) \in 1 .. Len(q) + 1
  BY <1>1, PlaceInside
<1>4. /\ InsertAt(q, Place(q, t, m), t) \in Seq(Thread)
      /\ IsInjective(InsertAt(q, Place(q, t, m), t))
      /\ ToSet(InsertAt(q, Place(q, t, m), t)) = ToSet(q) \cup {t}
  BY <1>1, <1>2, <1>3, InsertElements
<1>5. /\ suspend_thread[m]' = InsertAt(q, Place(q, t, m), t)
      /\ suspend_thread' \in [Mutex -> Seq(Thread)]
      /\ \A k \in Mutex : k # m => suspend_thread[k]' = suspend_thread[k]
  BY <1>4 DEF TakeWaits, Shape
<1>6. \A u \in Thread : Waits(u)' <=> Waits(u) \/ u = t
  BY <1>4, <1>5 DEF Waits
<1> QED BY <1>1, <1>4, <1>5, <1>6

-----------------------------------------------------------------------------
(* One lemma per action.                                                    *)

LEMMA OwnersInit == Init => Owners
<1> SUFFICES ASSUME Init PROVE Owners
  OBVIOUS
<1> USE MutexAssumption DEF Init
<1>1. Shape
  BY DEF Shape, Given, Step
<1>2. \A m \in Mutex : ToSet(suspend_thread[m]) = {} /\ IsInjective(suspend_thread[m])
  BY DEF ToSet, IsInjective
<1>3. Lists
  BY <1>2 DEF Lists
<1>4. Calls
  BY DEF Calls
<1>5. \A t \in Thread, m \in Mutex : ~(Takes(t, m) > 0) /\ ~Arriving(t, m)
  <2> SUFFICES ASSUME NEW t \in Thread, NEW m \in Mutex
               PROVE  ~(Takes(t, m) > 0) /\ ~Arriving(t, m)
    OBVIOUS
  <2>1. ToSet(taken[t]) = {}
    BY DEF ToSet
  <2> QED BY <1>1, <2>1, TakesFacts DEF Arriving
<1>6. Counts /\ Ends
  BY <1>5 DEF Counts, Ends
<1> QED BY <1>1, <1>3, <1>4, <1>6 DEF Owners

\* Who has been made the owner, and has not run since, is the same as before.
ArrivingSame == \A u \in Thread, k \in Mutex : Arriving(u, k)' <=> Arriving(u, k)

LEMMA TakeOwnStep ==
    ASSUME Owners, NEW t \in Thread, NEW m \in Mutex, TakeOwn(t, m)
    PROVE  Owners' /\ ArrivingSame
<1>0. Shape /\ Lists /\ Calls /\ Counts /\ Ends
  BY DEF Owners
<1>1. pc[t].at = "run" /\ Len(taken[t]) < MaxTakes /\ owner[m] = t /\ Took(t, m)
  BY DEF TakeOwn, MayTake, At
<1>2. error' = [error EXCEPT ![t] = "ok"] /\ hold' = [hold EXCEPT ![m] = @ + 1]
  BY DEF TakeOwn
<1>3. UNCHANGED <<value, owner, original_priority, suspend_thread, timed, object,
                  current_priority, pc>>
  BY DEF TakeOwn
<1>4. /\ Len(taken[t]') = Len(taken[t]) + 1
      /\ \A u \in Thread : u # t => taken[u]' = taken[u]
  BY <1>0, <1>1, TookTakes
<1>5. \A u \in Thread, k \in Mutex :
         Takes(u, k)' = Takes(u, k) + IF u = t /\ k = m THEN 1 ELSE 0
  BY <1>0, <1>1, TookTakes
<1>6. Shape'
  <2>1. taken' \in [Thread -> Seq(Mutex)]
    BY <1>0, <1>1, TookTakes
  <2>2. hold' \in [Mutex -> Nat] /\ error' \in [Thread -> {"ok", "timeout", "error"}]
    BY <1>0, <1>2 DEF Shape
  <2> QED BY <1>0, <1>3, <2>1, <2>2 DEF Shape
<1>7. \A u \in Thread : Waits(u)' <=> Waits(u)
  BY <1>3 DEF Waits
<1>8. Lists'
  <2>1. \A k \in Mutex : t \notin ToSet(suspend_thread[k])
    BY <1>0, <1>1 DEF Lists
  <2>2. \A u \in timed' : Waits(u)'
    BY <1>0, <1>3, <1>7 DEF Lists, Shape
  <2>3. \A k \in Mutex, u \in Thread : u \in ToSet(suspend_thread[k]) => error'[u] = "ok"
    BY <1>0, <1>2, <2>1 DEF Lists, Shape
  <2> QED BY <1>0, <1>3, <2>2, <2>3 DEF Lists
<1>9. Calls'
  <2>1. Len(taken[t]) \in Nat /\ MaxTakes \in Nat
    BY <1>0, MutexAssumption, LenProperties DEF Shape
  <2> QED BY <1>0, <1>1, <1>3, <1>4, <2>1 DEF Calls
<1>10. \A u \in Thread, k \in Mutex : Arriving(u, k)' <=> Arriving(u, k)
  BY <1>0, <1>1, <1>2, <1>3, <1>6, <1>7, ArrivingFields, ArrivingFieldsNext DEF Shape
<1>11. \A u \in Thread, k \in Mutex : Takes(u, k) \in Nat
  BY <1>0, TakesFacts, LenProperties DEF Shape
<1>12. Counts'
  <2>1. ASSUME NEW k \in Mutex, k # m PROVE hold'[k] = hold[k]
    BY <1>0, <1>2, <2>1 DEF Shape
  <2>2. hold'[m] = hold[m] + 1 /\ hold[m] \in Nat
    BY <1>0, <1>2 DEF Shape
  <2>3. ASSUME NEW k \in Mutex, NEW u \in Thread, owner[k] = u
        PROVE  hold'[k] > 0 /\ hold'[k] = Takes(u, k)' + IF Arriving(u, k)' THEN 1 ELSE 0
    <3>1. hold[k] > 0 /\ hold[k] = Takes(u, k) + IF Arriving(u, k) THEN 1 ELSE 0
      BY <1>0, <2>3 DEF Counts
    <3>2. CASE k = m
      BY <1>1, <1>5, <1>10, <1>11, <2>2, <2>3, <3>1, <3>2
    <3>3. CASE k # m
      BY <1>5, <1>10, <1>11, <2>1, <3>1, <3>3
    <3> QED BY <3>2, <3>3
  <2>4. \A k \in Mutex : owner[k] = Nobody => hold'[k] = hold[k]
    BY <1>1, <2>1, MutexAssumption
  <2>5. \A k \in Mutex, u \in Thread : Takes(u, k)' > 0 => Takes(u, k) > 0 \/ owner[k] = u
    BY <1>1, <1>5, <1>11
  <2> QED BY <1>0, <1>3, <1>10, <2>3, <2>4, <2>5 DEF Counts
<1>13. Ends'
  BY <1>0, <1>2, <1>3, <1>7 DEF Ends, Shape
<1> QED BY <1>6, <1>8, <1>9, <1>12, <1>13, <1>10 DEF Owners, ArrivingSame

LEMMA CountsKept ==
    ASSUME Counts, UNCHANGED <<mutexVars, taken>>,
           \A u \in Thread, k \in Mutex : Arriving(u, k)' <=> Arriving(u, k)
    PROVE  Counts'
<1>1. UNCHANGED <<value, owner, original_priority, hold>>
  BY DEF mutexVars
<1>2. \A u \in Thread, k \in Mutex : Takes(u, k)' = Takes(u, k)
  BY DEF Takes
<1> QED BY <1>1, <1>2 DEF Counts

\* A call that fails at once.
LEMMA FailsStep ==
    ASSUME Owners, NEW t \in Thread, pc[t].at = "run", NEW e \in {"ok", "timeout", "error"},
           error' = [error EXCEPT ![t] = e],
           UNCHANGED <<mutexVars, suspend_thread, timed, object, current_priority, pc, taken>>
    PROVE  Owners' /\ ArrivingSame
<1>0. Shape /\ Lists /\ Calls /\ Counts /\ Ends
  BY DEF Owners
<1>1. UNCHANGED <<value, owner, original_priority, hold, suspend_thread, timed, object,
                  current_priority, pc, taken>>
  BY DEF mutexVars
<1>2. Shape'
  BY <1>0, <1>1 DEF Shape
<1>3. \A u \in Thread : Waits(u)' <=> Waits(u)
  BY <1>1 DEF Waits
<1>4. \A u \in Thread : u # t => error'[u] = error[u]
  BY <1>0 DEF Shape
<1>5. Lists'
  <2>1. \A k \in Mutex : t \notin ToSet(suspend_thread[k])
    BY <1>0 DEF Lists
  <2>2. \A u \in timed' : Waits(u)'
    BY <1>0, <1>1, <1>3 DEF Lists, Shape
  <2> QED BY <1>0, <1>1, <1>4, <2>1, <2>2 DEF Lists
<1>6. Calls'
  BY <1>0, <1>1 DEF Calls
<1>7. \A u \in Thread, k \in Mutex : Arriving(u, k)' <=> Arriving(u, k)
  BY <1>0, <1>1, <1>2, <1>3, <1>4, ArrivingFields, ArrivingFieldsNext DEF Shape
<1>8. Counts'
  BY <1>0, <1>7, CountsKept
<1>9. Ends'
  BY <1>0, <1>1, <1>3, <1>4 DEF Ends
<1> QED BY <1>2, <1>5, <1>6, <1>8, <1>9, <1>7 DEF Owners, ArrivingSame

\* A waiter gets an error instead of the mutex.
LEMMA GivesUpStep ==
    ASSUME Owners, NEW h \in Thread, Waits(h), NEW e \in {"timeout", "error"},
           error' = [error EXCEPT ![h] = e], Leaves(h),
           UNCHANGED <<mutexVars, object, current_priority, pc, taken>>
    PROVE  Owners' /\ ArrivingSame
<1>0. Shape /\ Lists /\ Calls /\ Counts /\ Ends
  BY DEF Owners
<1>1. UNCHANGED <<value, owner, original_priority, hold, object, current_priority, pc, taken>>
  BY DEF mutexVars
<1>2. Shape'
  <2>1. error' \in [Thread -> {"ok", "timeout", "error"}]
    BY <1>0 DEF Shape
  <2>2. timed' \subseteq Thread /\ suspend_thread' \in [Mutex -> Seq(Thread)]
    BY <1>0 DEF Shape, Leaves
  <2> QED BY <1>0, <1>1, <2>1, <2>2 DEF Shape
<1>3. \A u \in Thread : Waits(u)' <=> Waits(u) /\ u # h
  BY LeavesWaits
<1>4. /\ \A u \in Thread : u # h => error'[u] = error[u]
      /\ error'[h] # "ok"
  BY <1>0 DEF Shape
<1>5. Lists'
  <2>1. \A k \in Mutex : /\ IsInjective(suspend_thread[k]')
                         /\ ToSet(suspend_thread[k]') = ToSet(suspend_thread[k]) \ {h}
    BY DEF Leaves
  <2>2. \A u \in timed' : Waits(u)'
    <3>1. \A u \in timed' : u \in timed /\ u # h /\ u \in Thread
      BY <1>0 DEF Leaves, Shape
    <3> QED BY <1>0, <1>3, <3>1 DEF Lists
  <2>3. \A k \in Mutex, u \in Thread : u \in ToSet(suspend_thread[k]') =>
           u \in ToSet(suspend_thread[k]) /\ u # h
    BY <2>1
  <2> QED BY <1>0, <1>1, <1>4, <2>1, <2>2, <2>3 DEF Lists
<1>6. Calls'
  BY <1>0, <1>1 DEF Calls
<1>7. \A u \in Thread, k \in Mutex : Arriving(u, k)' <=> Arriving(u, k)
  BY <1>0, <1>1, <1>2, <1>3, <1>4, ArrivingFields, ArrivingFieldsNext DEF Shape
<1>8. Counts'
  BY <1>0, <1>7, CountsKept
<1>9. Ends'
  <2>1. \A m \in Mutex : pc[h].obj = m => owner[m] # h
    BY <1>0 DEF Lists, Waits
  <2> QED BY <1>0, <1>1, <1>3, <1>4, <2>1 DEF Ends
<1> QED BY <1>2, <1>5, <1>6, <1>8, <1>9, <1>7 DEF Owners, ArrivingSame

LEMMA TimeoutStep ==
    ASSUME Owners, NEW t \in Thread, Timeout(t)
    PROVE  Owners' /\ ArrivingSame
<1>1. Shape /\ Lists
  BY DEF Owners
<1>2. Leaves(t) /\ Waits(t)
  BY <1>1, TimeoutLeaves DEF Lists, Timeout
<1>3. /\ error' = [error EXCEPT ![t] = "timeout"]
      /\ UNCHANGED <<mutexVars, object, current_priority, pc, taken>>
  BY DEF Timeout
<1> QED BY <1>2, <1>3, GivesUpStep

LEMMA WakeOneStep ==
    ASSUME Owners, NEW t \in Thread, WakeOne(t)
    PROVE  Owners' /\ ArrivingSame
<1>1. Shape /\ Lists /\ Calls
  BY DEF Owners
<1>2. PICK m \in Mutex : m = pc[t].obj
  BY <1>1 DEF WakeOne, At, Calls
<1>3. PICK h : h = Head(suspend_thread[m])
  OBVIOUS
<1>4. /\ suspend_thread[m] # <<>> /\ Resume(m)
      /\ error' = [error EXCEPT ![h] = "error"]
      /\ UNCHANGED <<mutexVars, object, current_priority, pc, taken>>
  BY <1>2, <1>3 DEF WakeOne
<1>5. h \in Thread /\ h \in ToSet(suspend_thread[m]) /\ Leaves(h)
  BY <1>1, <1>3, <1>4, ResumeLeaves
<1>6. Waits(h)
  BY <1>5 DEF Waits
<1> QED BY <1>4, <1>5, <1>6, GivesUpStep

\* A thread begins or ends to wake the waiters of a mutex.
LEMMA WakesStep ==
    ASSUME Owners, NEW t \in Thread, pc[t].at # "taking", NEW r \in Step,
           r.at # "taking", r.at # "run" => r.obj \in Mutex,
           pc' = [pc EXCEPT ![t] = r],
           object' \subseteq object,
           \A k \in object \ object' : suspend_thread[k] = <<>>,
           UNCHANGED <<mutexVars, waitVars, current_priority, taken>>
    PROVE  Owners' /\ ArrivingSame
<1>0. Shape /\ Lists /\ Calls /\ Counts /\ Ends
  BY DEF Owners
<1>1. UNCHANGED <<value, owner, original_priority, hold, suspend_thread, error, timed,
                  current_priority, taken>>
  BY DEF mutexVars, waitVars
<1>2. Shape'
  <2>1. pc' \in [Thread -> Step] /\ object' \subseteq Mutex
    BY <1>0 DEF Shape
  <2> QED BY <1>0, <1>1, <2>1 DEF Shape
<1>3. \A u \in Thread : Waits(u)' <=> Waits(u)
  BY <1>1 DEF Waits
<1>4. pc'[t] = r /\ \A u \in Thread : u # t => pc'[u] = pc[u]
  BY <1>0 DEF Shape
<1>5. Lists'
  <2>1. \A k \in Mutex : t \notin ToSet(suspend_thread[k])
    BY <1>0 DEF Lists
  <2>2. \A u \in timed' : Waits(u)'
    BY <1>0, <1>1, <1>3 DEF Lists, Shape
  <2>3. \A k \in Mutex, u \in Thread :
           u \in ToSet(suspend_thread[k]) /\ k \in object => k \in object'
    BY DEF ToSet
  <2> QED BY <1>0, <1>1, <1>4, <2>1, <2>2, <2>3 DEF Lists
<1>6. Calls'
  BY <1>0, <1>1, <1>4 DEF Calls
<1>7. \A u \in Thread, k \in Mutex : Arriving(u, k)' <=> Arriving(u, k)
  BY <1>0, <1>1, <1>2, <1>3, <1>4, ArrivingFields, ArrivingFieldsNext DEF Shape
<1>8. Counts'
  BY <1>0, <1>7, CountsKept
<1>9. Ends'
  BY <1>0, <1>1, <1>3, <1>4 DEF Ends
<1> QED BY <1>2, <1>5, <1>6, <1>8, <1>9, <1>7 DEF Owners, ArrivingSame

LEMMA TakeFreeStep ==
    ASSUME Owners, NEW t \in Thread, NEW m \in Mutex, TakeFree(t, m)
    PROVE  Owners' /\ ArrivingSame
<1>0. Shape /\ Lists /\ Calls /\ Counts /\ Ends
  BY DEF Owners
<1>1. pc[t].at = "run" /\ Len(taken[t]) < MaxTakes /\ value[m] > 0 /\ Took(t, m)
  BY DEF TakeFree, MayTake, At
<1>2. /\ error' = [error EXCEPT ![t] = "ok"]
      /\ value' = [value EXCEPT ![m] = @ - 1]
      /\ hold' = [hold EXCEPT ![m] = hold[m] + 1]
      /\ owner' = [owner EXCEPT ![m] = t]
      /\ original_priority' = [original_priority EXCEPT ![m] = current_priority[t]]
  BY DEF TakeFree, Own
<1>3. UNCHANGED <<suspend_thread, timed, object, current_priority, pc>>
  BY DEF TakeFree
<1>4. owner[m] = Nobody /\ value[m] = 1 /\ hold[m] = 0
  BY <1>0, <1>1 DEF Counts, Shape
<1>5. /\ Len(taken[t]') = Len(taken[t]) + 1
      /\ \A u \in Thread : u # t => taken[u]' = taken[u]
  BY <1>0, <1>1, TookTakes
<1>6. \A u \in Thread, k \in Mutex :
         Takes(u, k)' = Takes(u, k) + IF u = t /\ k = m THEN 1 ELSE 0
  BY <1>0, <1>1, TookTakes
<1>7. /\ value'[m] = 0 /\ hold'[m] = 1 /\ owner'[m] = t
      /\ original_priority'[m] = current_priority[t] /\ current_priority[t] \in Given
      /\ \A k \in Mutex : k # m => /\ value'[k] = value[k] /\ hold'[k] = hold[k]
                                   /\ owner'[k] = owner[k]
                                   /\ original_priority'[k] = original_priority[k]
  BY <1>0, <1>2, <1>4 DEF Shape
<1>8. Shape'
  <2>1. taken' \in [Thread -> Seq(Mutex)]
    BY <1>0, <1>1, TookTakes
  <2>2. error' \in [Thread -> {"ok", "timeout", "error"}]
    BY <1>0, <1>2 DEF Shape
  <2>3. hold' \in [Mutex -> Nat] /\ owner' \in [Mutex -> Thread \cup {Nobody}]
    BY <1>0, <1>2 DEF Shape
  <2>4. original_priority' \in [Mutex -> Given \cup {255}]
    BY <1>0, <1>2, <1>7 DEF Shape
  <2>5. value' \in [Mutex -> 0 .. 1]
    BY <1>0, <1>2, <1>4 DEF Shape
  <2> QED BY <1>0, <1>3, <2>1, <2>2, <2>3, <2>4, <2>5 DEF Shape
<1>9. \A u \in Thread : Waits(u)' <=> Waits(u)
  BY <1>3 DEF Waits
<1>10. Lists'
  <2>1. \A k \in Mutex, u \in Thread :
           u \in ToSet(suspend_thread[k]) => u # t /\ k # m
    BY <1>0, <1>1, <1>4 DEF Lists
  <2>2. \A u \in timed' : Waits(u)'
    BY <1>0, <1>3, <1>9 DEF Lists, Shape
  <2>3. \A u \in Thread : u # t => error'[u] = error[u]
    BY <1>0, <1>2 DEF Shape
  <2> QED BY <1>0, <1>3, <1>7, <2>1, <2>2, <2>3 DEF Lists
<1>11. Calls'
  <2>1. Len(taken[t]) \in Nat /\ MaxTakes \in Nat
    BY <1>0, MutexAssumption, LenProperties DEF Shape
  <2> QED BY <1>0, <1>1, <1>3, <1>5, <2>1 DEF Calls
<1>12. \A u \in Thread, k \in Mutex : Arriving(u, k)' <=> Arriving(u, k)
  <2>1. \A u \in Thread : u # t => error'[u] = error[u]
    BY <1>0, <1>2 DEF Shape
  <2> QED BY <1>0, <1>1, <1>3, <1>8, <1>9, <2>1, ArrivingFields, ArrivingFieldsNext DEF Shape
<1>13. /\ \A u \in Thread : Takes(u, m) = 0 /\ ~Arriving(u, m)
       /\ \A u \in Thread, k \in Mutex : Takes(u, k) \in Nat
  <2>1. \A u \in Thread, k \in Mutex : Takes(u, k) \in Nat
    BY <1>0, TakesFacts, LenProperties DEF Shape
  <2>2. \A u \in Thread : ~(Takes(u, m) > 0) /\ ~Arriving(u, m)
    BY <1>0, <1>4, MutexAssumption DEF Counts
  <2> QED BY <2>1, <2>2
<1>14. Counts'
  <2>1. /\ \A u \in Thread : Takes(u, m)' = IF u = t THEN 1 ELSE 0
        /\ \A u \in Thread, k \in Mutex : k # m => Takes(u, k)' = Takes(u, k)
    BY <1>6, <1>13
  <2>2. t # Nobody
    BY MutexAssumption
  <2> HIDE DEF Arriving, Takes
  <2>3. ASSUME NEW k \in Mutex, NEW u \in Thread
        PROVE  /\ owner'[k] = u =>
                     /\ value'[k] = 0 /\ hold'[k] > 0 /\ original_priority'[k] \in Given
                     /\ hold'[k] = Takes(u, k)' + IF Arriving(u, k)' THEN 1 ELSE 0
               /\ Takes(u, k)' > 0 \/ Arriving(u, k)' => owner'[k] = u
    <3>1. CASE k = m
      BY <1>7, <1>12, <1>13, <2>1, <3>1
    <3>2. CASE k # m
      BY <1>0, <1>7, <1>12, <2>1, <3>2 DEF Counts
    <3> QED BY <3>1, <3>2
  <2>4. \A k \in Mutex : owner'[k] = Nobody => value'[k] = 1 /\ hold'[k] = 0
    BY <1>0, <1>7, <2>2 DEF Counts
  <2> QED BY <2>3, <2>4 DEF Counts
<1>15. Ends'
  <2>1. error'[t] = "ok" /\ \A u \in Thread : u # t => error'[u] = error[u]
    BY <1>0, <1>2 DEF Shape
  <2>2. ASSUME NEW u \in Thread, NEW k \in Mutex, owner'[k] = u, u # t PROVE owner[k] = u
    BY <1>7, <2>2
  <2> QED BY <1>0, <1>3, <1>9, <2>1, <2>2 DEF Ends
<1> QED BY <1>8, <1>10, <1>11, <1>14, <1>15, <1>12 DEF Owners, ArrivingSame

LEMMA TakeWaitsStep ==
    ASSUME Owners, NEW t \in Thread, NEW m \in Mutex, TakeWaits(t, m)
    PROVE  Owners' /\ ArrivingSame
<1>0. Shape /\ Lists /\ Calls /\ Counts /\ Ends
  BY DEF Owners
<1>1. /\ pc[t].at = "run" /\ m \in object /\ owner[m] # t /\ value[m] = 0
      /\ Len(taken[t]) < MaxTakes
      /\ \A k \in ToSet(taken[t]) : <<k, m>> \in Nests
  BY DEF TakeWaits, MayTake, At
<1>2. PICK o \in Thread : o = owner[m]
  BY <1>0, <1>1 DEF Counts, Shape
<1>3. /\ error' = [error EXCEPT ![t] = "ok"]
      /\ pc' = [pc EXCEPT ![t] = [at |-> "taking", obj |-> m]]
      /\ timed' \in {timed, timed \cup {t}}
  BY DEF TakeWaits, Call
<1>4. UNCHANGED <<value, owner, original_priority, hold, object, taken>>
  BY DEF TakeWaits, mutexVars
<1>5. current_priority' \in [Thread -> Given]
  <2>1. current_priority \in [Thread -> Given]
    BY <1>0 DEF Shape
  <2>2. \/ current_priority' = [current_priority EXCEPT ![o] = current_priority[t]]
        \/ current_priority' = current_priority
    BY <1>2 DEF TakeWaits, ChangePriority
  <2> QED BY ONLY <2>1, <2>2, t \in Thread, o \in Thread
<1>6. /\ suspend_thread' \in [Mutex -> Seq(Thread)]
      /\ \A k \in Mutex : k # m => suspend_thread[k]' = suspend_thread[k]
      /\ IsInjective(suspend_thread[m]')
      /\ ToSet(suspend_thread[m]') = ToSet(suspend_thread[m]) \cup {t}
      /\ ~Waits(t) /\ \A u \in Thread : Waits(u)' <=> Waits(u) \/ u = t
  BY <1>0, TakeWaitsJoins
<1>7. /\ pc'[t].at = "taking" /\ pc'[t].obj = m /\ error'[t] = "ok"
      /\ \A u \in Thread : u # t => pc'[u] = pc[u] /\ error'[u] = error[u]
  BY <1>0, <1>3 DEF Shape
<1>8. Shape'
  <2>1. pc' \in [Thread -> Step]
    BY <1>0, <1>3 DEF Shape, Step
  <2>2. error' \in [Thread -> {"ok", "timeout", "error"}] /\ timed' \subseteq Thread
    BY <1>0, <1>3 DEF Shape
  <2>3. suspend_thread' \in [Mutex -> Seq(Thread)]
    BY <1>6
  <2> QED BY <1>0, <1>4, <1>5, <2>1, <2>2, <2>3 DEF Shape
<1>9. Lists'
  <2>1. \A k \in Mutex, u \in Thread : u \in ToSet(suspend_thread[k]') =>
           \/ u = t /\ k = m
           \/ u # t /\ u \in ToSet(suspend_thread[k])
    BY <1>6 DEF Waits
  <2>2. \A u \in timed' : Waits(u)'
    <3>1. \A u \in timed' : u \in Thread /\ (u \in timed \/ u = t)
      BY <1>0, <1>3 DEF Shape
    <3>2. \A u \in timed : Waits(u)
      BY <1>0 DEF Lists
    <3> QED BY <1>6, <3>1, <3>2
  <2>3. \A k \in Mutex : IsInjective(suspend_thread[k]')
    BY <1>0, <1>6 DEF Lists
  <2>4. t # Nobody /\ o # Nobody
    BY MutexAssumption
  <2> QED BY <1>0, <1>1, <1>2, <1>4, <1>7, <2>1, <2>2, <2>3, <2>4 DEF Lists
<1>10. Calls'
  <2>1. ASSUME NEW u \in Thread
        PROVE  /\ pc'[u].at # "run" => pc'[u].obj \in Mutex
               /\ pc'[u].at = "taking" =>
                     /\ Len(taken[u]) < MaxTakes
                     /\ \A k \in ToSet(taken[u]) : <<k, pc'[u].obj>> \in Nests
               /\ Len(taken[u]) <= MaxTakes
    <3>1. CASE u = t
      BY <1>0, <1>1, <1>7, <3>1 DEF Calls
    <3>2. CASE u # t
      BY <1>0, <1>7, <3>2 DEF Calls
    <3> QED BY <3>1, <3>2
  <2> QED BY <1>4, <2>1 DEF Calls
<1>11. \A u \in Thread, k \in Mutex : Arriving(u, k)' <=> Arriving(u, k)
  <2>1. \A u \in Thread, k \in Mutex : Arriving(u, k) <=>
           pc[u].at = "taking" /\ pc[u].obj = k /\ ~Waits(u) /\ error[u] = "ok"
    BY <1>0, ArrivingFields
  <2>2. \A u \in Thread, k \in Mutex : Arriving(u, k)' <=>
           pc'[u].at = "taking" /\ pc'[u].obj = k /\ ~Waits(u)' /\ error'[u] = "ok"
    BY <1>8, ArrivingFieldsNext DEF Shape
  <2> QED BY ONLY <1>1, <1>6, <1>7, <2>1, <2>2
<1>12. Counts'
  BY <1>0, <1>4, <1>11, CountsKept DEF mutexVars
<1>13. Ends'
  BY <1>0, <1>4, <1>6, <1>7 DEF Ends
<1> QED BY <1>8, <1>9, <1>10, <1>12, <1>13, <1>11 DEF Owners, ArrivingSame

LEMMA TakeReturnsStep ==
    ASSUME Owners, NEW t \in Thread, TakeReturns(t)
    PROVE  /\ Owners'
           /\ \A u \in Thread, k \in Mutex : u # t => (Arriving(u, k)' <=> Arriving(u, k))
           /\ \A k \in Mutex : ~Arriving(t, k)'
           /\ \A k \in Mutex : Arriving(t, k) <=> k = pc[t].obj /\ error[t] = "ok"
<1>0. Shape /\ Lists /\ Calls /\ Counts /\ Ends
  BY DEF Owners
<1>1. pc[t].at = "taking" /\ ~Waits(t)
  BY DEF TakeReturns, At
<1>2. PICK m \in Mutex : m = pc[t].obj
  BY <1>0, <1>1 DEF Calls
<1>3. pc' = [pc EXCEPT ![t] = [at |-> "run", obj |-> Nobody]]
  BY DEF TakeReturns, Return
<1>4. UNCHANGED <<value, owner, original_priority, hold, suspend_thread, error, timed,
                  object, current_priority>>
  BY DEF TakeReturns, mutexVars, waitVars
<1>5. \/ error[t] = "ok" /\ Took(t, m)
      \/ error[t] # "ok" /\ UNCHANGED taken
  BY <1>2 DEF TakeReturns
<1>6. pc'[t].at = "run" /\ \A u \in Thread : u # t => pc'[u] = pc[u]
  BY <1>0, <1>3 DEF Shape
<1>7. Shape'
  <2>1. pc' \in [Thread -> Step]
    BY <1>0, <1>3 DEF Shape, Step
  <2>2. taken' \in [Thread -> Seq(Mutex)]
    BY <1>0, <1>5, TookTakes DEF Shape
  <2> QED BY <1>0, <1>4, <2>1, <2>2 DEF Shape
<1>8. \A u \in Thread : Waits(u)' <=> Waits(u)
  BY <1>4 DEF Waits
<1>9. Lists'
  <2>1. \A k \in Mutex : t \notin ToSet(suspend_thread[k])
    BY <1>1 DEF Waits
  <2>2. \A u \in timed' : Waits(u)'
    BY <1>0, <1>4, <1>8 DEF Lists, Shape
  <2> QED BY <1>0, <1>4, <1>6, <2>1, <2>2 DEF Lists
<1>10. \A u \in Thread : u # t => taken'[u] = taken[u]
  BY <1>0, <1>5, TookTakes
<1>11. Len(taken'[t]) <= MaxTakes
  <2>1. Len(taken[t]) \in Nat /\ MaxTakes \in Nat /\ Len(taken[t]) < MaxTakes
    BY <1>0, <1>1, MutexAssumption, LenProperties DEF Shape, Calls
  <2>2. Len(taken'[t]) \in {Len(taken[t]), Len(taken[t]) + 1}
    BY <1>0, <1>5, TookTakes
  <2> QED BY <2>1, <2>2
<1>12. Calls'
  BY <1>0, <1>6, <1>10, <1>11 DEF Calls
<1>13. /\ \A u \in Thread, k \in Mutex : u # t => (Arriving(u, k)' <=> Arriving(u, k))
       /\ \A k \in Mutex : ~Arriving(t, k)'
       /\ \A k \in Mutex : Arriving(t, k) <=> k = m /\ error[t] = "ok"
  <2>1. \A u \in Thread, k \in Mutex : Arriving(u, k) <=>
           pc[u].at = "taking" /\ pc[u].obj = k /\ ~Waits(u) /\ error[u] = "ok"
    BY <1>0, ArrivingFields
  <2>2. \A u \in Thread, k \in Mutex : Arriving(u, k)' <=>
           pc'[u].at = "taking" /\ pc'[u].obj = k /\ ~Waits(u)' /\ error'[u] = "ok"
    BY <1>7, ArrivingFieldsNext DEF Shape
  <2> QED BY ONLY <1>1, <1>2, <1>4, <1>6, <1>8, <2>1, <2>2, t \in Thread
<1>14. \A u \in Thread, k \in Mutex :
          /\ Takes(u, k) \in Nat
          /\ Takes(u, k)' = Takes(u, k) + IF u = t /\ Arriving(t, k) THEN 1 ELSE 0
  <2>1. \A u \in Thread, k \in Mutex : Takes(u, k) \in Nat
    BY <1>0, TakesFacts, LenProperties DEF Shape
  <2>2. CASE error[t] = "ok" /\ Took(t, m)
    BY <1>0, <1>13, <2>1, <2>2, TookTakes
  <2>3. CASE error[t] # "ok" /\ UNCHANGED taken
    <3>1. \A u \in Thread, k \in Mutex : Takes(u, k)' = Takes(u, k)
      BY <2>3 DEF Takes
    <3> QED BY <1>13, <2>1, <2>3, <3>1
  <2> QED BY <1>5, <2>2, <2>3
<1>15. Counts'
  <2>1. ASSUME NEW k \in Mutex, NEW u \in Thread
        PROVE  /\ Takes(u, k)' + (IF Arriving(u, k)' THEN 1 ELSE 0) =
                     Takes(u, k) + (IF Arriving(u, k) THEN 1 ELSE 0)
               /\ Takes(u, k)' > 0 \/ Arriving(u, k)' => Takes(u, k) > 0 \/ Arriving(u, k)
    <3>1. CASE u = t
      BY <1>13, <1>14, <3>1
    <3>2. CASE u # t
      BY <1>13, <1>14, <3>2
    <3> QED BY <3>1, <3>2
  <2> QED BY <1>0, <1>4, <2>1 DEF Counts
<1>16. Ends'
  BY <1>0, <1>4, <1>6, <1>8 DEF Ends
<1> QED BY <1>2, <1>7, <1>9, <1>12, <1>13, <1>15, <1>16 DEF Owners

\* What the three releases of an owner have in common.
LEMMA ReleaseFacts ==
    ASSUME Owners, NEW t \in Thread, NEW m \in Mutex, MayRelease(t, m), t = owner[m],
           Released(t, m)
    PROVE  /\ pc[t].at = "run" /\ m \in object /\ t # Nobody
           /\ Less(m) = hold[m] - 1 /\ hold[m] \in Nat /\ hold[m] > 0
           /\ Takes(t, m) = hold[m]
           /\ \A k \in Mutex : ~Arriving(t, k)
           /\ taken' \in [Thread -> Seq(Mutex)]
           /\ original_priority[m] \in Given
<1>0. Shape /\ Lists /\ Calls /\ Counts /\ Ends
  BY DEF Owners
<1>1. pc[t].at = "run" /\ m \in object /\ t # Nobody
  BY MutexAssumption DEF MayRelease, At
<1>2. \A k \in Mutex : ~Arriving(t, k)
  BY <1>0, <1>1, ArrivingFields
<1>3. /\ hold[m] \in Nat /\ hold[m] > 0 /\ original_priority[m] \in Given
      /\ hold[m] = Takes(t, m) + IF Arriving(t, m) THEN 1 ELSE 0
  BY <1>0 DEF Counts, Shape
<1>4. Takes(t, m) \in Nat
  BY <1>0, TakesFacts, LenProperties DEF Shape
<1>5. Takes(t, m) = hold[m]
  BY <1>2, <1>3, <1>4
<1>6. Less(m) = hold[m] - 1
  BY <1>0, <1>1, HoldBound
<1>7. taken' \in [Thread -> Seq(Mutex)]
  BY <1>0, <1>3, <1>5, ReleasedTakes
<1> QED BY <1>1, <1>2, <1>3, <1>5, <1>6, <1>7

LEMMA ReleasedCalls ==
    ASSUME Owners, NEW t \in Thread, NEW m \in Mutex, MayRelease(t, m), t = owner[m],
           Released(t, m), UNCHANGED pc
    PROVE  Calls'
<1>0. Shape /\ Lists /\ Calls /\ Counts /\ Ends
  BY DEF Owners
<1>1. pc[t].at = "run" /\ hold[m] > 0 /\ Takes(t, m) = hold[m]
  BY ReleaseFacts
<1>2. /\ Len(taken'[t]) = Len(taken[t]) - 1
      /\ \A u \in Thread : u # t => taken'[u] = taken[u]
  BY <1>0, <1>1, ReleasedTakes
<1>3. Len(taken[t]) \in Nat /\ MaxTakes \in Nat
  <2>1. taken[t] \in Seq(Mutex)
    BY <1>0 DEF Shape
  <2> QED BY <2>1, MutexAssumption, LenProperties
<1> QED BY <1>0, <1>1, <1>2, <1>3 DEF Calls

LEMMA ReleaseHeldStep ==
    ASSUME Owners, NEW t \in Thread, NEW m \in Mutex, ReleaseHeld(t, m)
    PROVE  Owners' /\ ArrivingSame
<1>0. Shape /\ Lists /\ Calls /\ Counts /\ Ends
  BY DEF Owners
<1>1. MayRelease(t, m) /\ t = owner[m] /\ Released(t, m) /\ Less(m) > 0
  BY DEF ReleaseHeld
<1>2. hold' = [hold EXCEPT ![m] = Less(m)]
  BY DEF ReleaseHeld
<1>3. UNCHANGED <<value, owner, original_priority, suspend_thread, error, timed,
                  object, current_priority, pc>>
  BY DEF ReleaseHeld, waitVars
<1>4. /\ Less(m) = hold[m] - 1 /\ hold[m] \in Nat /\ hold[m] > 0
      /\ Takes(t, m) = hold[m]
      /\ taken' \in [Thread -> Seq(Mutex)]
  BY <1>1, ReleaseFacts
<1>5. \A u \in Thread, k \in Mutex :
         Takes(u, k)' = Takes(u, k) - IF u = t /\ k = m THEN 1 ELSE 0
  BY <1>0, <1>1, <1>4, ReleasedTakes
<1>6. Shape'
  <2>1. hold' \in [Mutex -> Nat]
    BY <1>0, <1>1, <1>2, <1>4 DEF Shape
  <2> QED BY <1>0, <1>3, <1>4, <2>1 DEF Shape
<1>7. \A u \in Thread : Waits(u)' <=> Waits(u)
  BY <1>3 DEF Waits
<1>8. Lists'
  <2>1. \A u \in timed' : Waits(u)'
    BY <1>0, <1>3, <1>7 DEF Lists, Shape
  <2> QED BY <1>0, <1>3, <2>1 DEF Lists
<1>9. Calls'
  BY <1>1, <1>3, ReleasedCalls
<1>10. \A u \in Thread, k \in Mutex : Arriving(u, k)' <=> Arriving(u, k)
  BY <1>3, <1>7 DEF Arriving
<1>11. \A u \in Thread, k \in Mutex : Takes(u, k) \in Nat
  BY <1>0, TakesFacts, LenProperties DEF Shape
<1>12. Counts'
  <2>1. /\ \A k \in Mutex : k # m => hold'[k] = hold[k]
        /\ hold'[m] = hold[m] - 1 /\ hold'[m] > 0
    BY <1>0, <1>1, <1>2, <1>4 DEF Shape
  <2>2. ASSUME NEW k \in Mutex, NEW u \in Thread, owner[k] = u
        PROVE  hold'[k] > 0 /\ hold'[k] = Takes(u, k)' + IF Arriving(u, k)' THEN 1 ELSE 0
    <3>1. hold[k] > 0 /\ hold[k] = Takes(u, k) + IF Arriving(u, k) THEN 1 ELSE 0
      BY <1>0, <2>2 DEF Counts
    <3>2. CASE k = m
      BY <1>1, <1>4, <1>5, <1>10, <1>11, <2>1, <2>2, <3>1, <3>2
    <3>3. CASE k # m
      BY <1>5, <1>10, <1>11, <2>1, <3>1, <3>3
    <3> QED BY <3>2, <3>3
  <2>3. \A k \in Mutex : owner[k] = Nobody => hold'[k] = hold[k]
    BY <1>1, <2>1, MutexAssumption
  <2>4. \A k \in Mutex, u \in Thread : Takes(u, k)' > 0 => Takes(u, k) > 0
    BY <1>5, <1>11
  <2> QED BY <1>0, <1>3, <1>10, <2>2, <2>3, <2>4 DEF Counts
<1>13. Ends'
  BY <1>0, <1>3, <1>7 DEF Ends
<1> QED BY <1>6, <1>8, <1>9, <1>12, <1>13, <1>10 DEF Owners, ArrivingSame

LEMMA ReleaseGivesStep ==
    ASSUME Owners, NEW t \in Thread, NEW m \in Mutex, ReleaseGives(t, m)
    PROVE  /\ Owners'
           /\ \A u \in Thread, k \in Mutex : Arriving(u, k)' <=>
                 Arriving(u, k) \/ (u = Head(suspend_thread[m]) /\ k = m)
<1>0. Shape /\ Lists /\ Calls /\ Counts /\ Ends
  BY DEF Owners
<1>1. /\ MayRelease(t, m) /\ t = owner[m] /\ Released(t, m) /\ Less(m) = 0
      /\ suspend_thread[m] # <<>> /\ Resume(m)
  BY DEF ReleaseGives, Give
<1>2. PICK h : h = Head(suspend_thread[m])
  OBVIOUS
<1>3. h \in Thread /\ h \in ToSet(suspend_thread[m]) /\ Leaves(h)
  BY <1>0, <1>1, <1>2, ResumeLeaves
<1>4. /\ owner' = [owner EXCEPT ![m] = h]
      /\ original_priority' = [original_priority EXCEPT ![m] = current_priority[h]]
      /\ hold' = [hold EXCEPT ![m] = Less(m) + 1]
      /\ current_priority' = [current_priority EXCEPT ![t] = original_priority[m]]
  BY <1>2 DEF ReleaseGives, Give, Own, Restore, ChangePriority
<1>5. UNCHANGED <<value, error, object, pc>>
  BY DEF ReleaseGives, Give
<1>6. /\ Less(m) = hold[m] - 1 /\ hold[m] \in Nat /\ hold[m] > 0
      /\ Takes(t, m) = hold[m] /\ pc[t].at = "run"
      /\ taken' \in [Thread -> Seq(Mutex)]
      /\ original_priority[m] \in Given
      /\ \A k \in Mutex : ~Arriving(t, k)
  BY <1>1, ReleaseFacts
<1>7. hold[m] = 1
  BY <1>1, <1>6
<1>8. \A u \in Thread, k \in Mutex :
         Takes(u, k)' = Takes(u, k) - IF u = t /\ k = m THEN 1 ELSE 0
  BY <1>0, <1>1, <1>6, ReleasedTakes
<1>9. /\ pc[h].at = "taking" /\ pc[h].obj = m /\ error[h] = "ok" /\ h # t /\ h # Nobody
  BY <1>0, <1>1, <1>3, MutexAssumption DEF Lists
<1>10. /\ owner'[m] = h /\ hold'[m] = 1
       /\ original_priority'[m] = current_priority[h] /\ current_priority[h] \in Given
       /\ \A k \in Mutex : k # m => /\ owner'[k] = owner[k] /\ hold'[k] = hold[k]
                                    /\ original_priority'[k] = original_priority[k]
  BY <1>0, <1>1, <1>3, <1>4 DEF Shape
<1>11. Shape'
  <2>1. hold' \in [Mutex -> Nat] /\ owner' \in [Mutex -> Thread \cup {Nobody}]
    BY <1>0, <1>1, <1>3, <1>4 DEF Shape
  <2>2. original_priority' \in [Mutex -> Given \cup {255}]
    BY <1>0, <1>4, <1>10 DEF Shape
  <2>3. current_priority' \in [Thread -> Given]
    BY <1>0, <1>4, <1>6 DEF Shape
  <2>4. suspend_thread' \in [Mutex -> Seq(Thread)] /\ timed' \subseteq Thread
    BY <1>0, <1>3 DEF Leaves, Shape
  <2> QED BY <1>0, <1>5, <1>6, <2>1, <2>2, <2>3, <2>4 DEF Shape
<1>12. \A u \in Thread : Waits(u)' <=> Waits(u) /\ u # h
  BY <1>3, LeavesWaits
<1>13. Lists'
  <2>1. \A k \in Mutex : /\ IsInjective(suspend_thread[k]')
                         /\ ToSet(suspend_thread[k]') = ToSet(suspend_thread[k]) \ {h}
    BY <1>3 DEF Leaves
  <2>2. \A u \in timed' : Waits(u)'
    <3>1. \A u \in timed' : u \in timed /\ u # h /\ u \in Thread
      BY <1>0, <1>3 DEF Leaves, Shape
    <3> QED BY <1>0, <1>12, <3>1 DEF Lists
  <2>3. \A k \in Mutex, u \in Thread : u \in ToSet(suspend_thread[k]') =>
           u \in ToSet(suspend_thread[k]) /\ u # h
    BY <2>1
  <2> QED BY <1>0, <1>5, <1>9, <1>10, <2>1, <2>2, <2>3 DEF Lists
<1>14. Calls'
  BY <1>1, <1>5, ReleasedCalls
<1>15. \A u \in Thread, k \in Mutex :
          Arriving(u, k)' <=> Arriving(u, k) \/ (u = h /\ k = m)
  <2>1. \A u \in Thread, k \in Mutex : Arriving(u, k) <=>
           pc[u].at = "taking" /\ pc[u].obj = k /\ ~Waits(u) /\ error[u] = "ok"
    BY <1>0, ArrivingFields
  <2>2. \A u \in Thread, k \in Mutex : Arriving(u, k)' <=>
           pc'[u].at = "taking" /\ pc'[u].obj = k /\ ~Waits(u)' /\ error'[u] = "ok"
    BY <1>11, ArrivingFieldsNext DEF Shape
  <2> QED BY ONLY <1>5, <1>9, <1>12, <2>1, <2>2
<1>16. \A u \in Thread, k \in Mutex : Takes(u, k) \in Nat
  BY <1>0, TakesFacts, LenProperties DEF Shape
<1>17. /\ \A u \in Thread : Takes(u, m)' = 0 /\ (Arriving(u, m)' <=> u = h)
       /\ \A u \in Thread, k \in Mutex : k # m =>
             Takes(u, k)' = Takes(u, k) /\ (Arriving(u, k)' <=> Arriving(u, k))
  <2>1. ASSUME NEW u \in Thread PROVE Takes(u, m)' = 0 /\ (Arriving(u, m)' <=> u = h)
    <3>1. u # t => ~(Takes(u, m) > 0) /\ ~Arriving(u, m)
      BY <1>0, <1>1 DEF Counts
    <3>2. Takes(u, m)' = 0
      BY <1>6, <1>7, <1>8, <1>16, <3>1
    <3>3. ~Arriving(u, m)
      BY <1>6, <3>1
    <3> QED BY <1>15, <3>2, <3>3
  <2>2. ASSUME NEW u \in Thread, NEW k \in Mutex, k # m
        PROVE  Takes(u, k)' = Takes(u, k) /\ (Arriving(u, k)' <=> Arriving(u, k))
    BY <1>8, <1>15, <1>16, <2>2
  <2> QED BY <2>1, <2>2
<1>18. Counts'
  <2>1. value[m] = 0
    BY <1>0, <1>1 DEF Counts
  <2>2. ASSUME NEW k \in Mutex, NEW u \in Thread
        PROVE  /\ owner'[k] = u =>
                     /\ value'[k] = 0 /\ hold'[k] > 0 /\ original_priority'[k] \in Given
                     /\ hold'[k] = Takes(u, k)' + IF Arriving(u, k)' THEN 1 ELSE 0
               /\ Takes(u, k)' > 0 \/ Arriving(u, k)' => owner'[k] = u
    <3>1. CASE k = m
      BY <1>5, <1>10, <1>17, <2>1, <3>1
    <3>2. CASE k # m
      BY <1>0, <1>5, <1>10, <1>17, <3>2 DEF Counts
    <3> QED BY <3>1, <3>2
  <2>3. \A k \in Mutex : owner'[k] = Nobody => value'[k] = 1 /\ hold'[k] = 0
    BY <1>0, <1>5, <1>9, <1>10 DEF Counts
  <2> QED BY <2>2, <2>3 DEF Counts
<1>19. Ends'
  BY <1>0, <1>5, <1>9, <1>10, <1>12 DEF Ends
<1> QED BY <1>2, <1>11, <1>13, <1>14, <1>15, <1>18, <1>19 DEF Owners

LEMMA ReleaseFreesStep ==
    ASSUME Owners, NEW t \in Thread, NEW m \in Mutex, ReleaseFrees(t, m)
    PROVE  Owners' /\ ArrivingSame
<1>0. Shape /\ Lists /\ Calls /\ Counts /\ Ends
  BY DEF Owners
<1>1. /\ MayRelease(t, m) /\ t = owner[m] /\ Released(t, m) /\ Less(m) = 0
      /\ suspend_thread[m] = <<>>
  BY DEF ReleaseFrees
<1>2. /\ owner' = [owner EXCEPT ![m] = Nobody]
      /\ original_priority' = [original_priority EXCEPT ![m] = 255]
      /\ hold' = [hold EXCEPT ![m] = 0]
      /\ value' = [value EXCEPT ![m] = @ + 1]
      /\ current_priority' = [current_priority EXCEPT ![t] = original_priority[m]]
  BY DEF ReleaseFrees, Restore, ChangePriority
<1>3. UNCHANGED <<suspend_thread, error, timed, object, pc>>
  BY DEF ReleaseFrees, waitVars
<1>4. /\ Less(m) = hold[m] - 1 /\ hold[m] \in Nat /\ hold[m] > 0 /\ t # Nobody
      /\ Takes(t, m) = hold[m] /\ pc[t].at = "run"
      /\ taken' \in [Thread -> Seq(Mutex)]
      /\ original_priority[m] \in Given
      /\ \A k \in Mutex : ~Arriving(t, k)
  BY <1>1, ReleaseFacts
<1>5. hold[m] = 1 /\ value[m] = 0
  BY <1>0, <1>1, <1>4 DEF Counts
<1>6. \A u \in Thread, k \in Mutex :
         Takes(u, k)' = Takes(u, k) - IF u = t /\ k = m THEN 1 ELSE 0
  BY <1>0, <1>1, <1>4, ReleasedTakes
<1>7. /\ owner'[m] = Nobody /\ hold'[m] = 0 /\ value'[m] = 1
      /\ \A k \in Mutex : k # m => /\ owner'[k] = owner[k] /\ hold'[k] = hold[k]
                                   /\ value'[k] = value[k]
                                   /\ original_priority'[k] = original_priority[k]
  BY <1>0, <1>2, <1>5 DEF Shape
<1>8. Shape'
  <2>1. hold' \in [Mutex -> Nat] /\ owner' \in [Mutex -> Thread \cup {Nobody}]
    BY <1>0, <1>2 DEF Shape
  <2>2. original_priority' \in [Mutex -> Given \cup {255}]
    BY <1>0, <1>2 DEF Shape
  <2>3. current_priority' \in [Thread -> Given]
    BY <1>0, <1>2, <1>4 DEF Shape
  <2>4. value' \in [Mutex -> 0 .. 1]
    BY <1>0, <1>2, <1>5 DEF Shape
  <2> QED BY <1>0, <1>3, <1>4, <2>1, <2>2, <2>3, <2>4 DEF Shape
<1>9. \A u \in Thread : Waits(u)' <=> Waits(u)
  BY <1>3 DEF Waits
<1>10. Lists'
  <2>1. \A u \in timed' : Waits(u)'
    BY <1>0, <1>3, <1>9 DEF Lists, Shape
  <2>2. \A k \in Mutex, u \in Thread : u \in ToSet(suspend_thread[k]) => k # m
    BY <1>1 DEF ToSet
  <2> QED BY <1>0, <1>3, <1>7, <2>1, <2>2 DEF Lists
<1>11. Calls'
  BY <1>1, <1>3, ReleasedCalls
<1>12. \A u \in Thread, k \in Mutex : Arriving(u, k)' <=> Arriving(u, k)
  BY <1>3, <1>9 DEF Arriving
<1>13. \A u \in Thread, k \in Mutex : Takes(u, k) \in Nat
  BY <1>0, TakesFacts, LenProperties DEF Shape
<1>14. /\ \A u \in Thread : Takes(u, m)' = 0 /\ ~Arriving(u, m)'
       /\ \A u \in Thread, k \in Mutex : k # m => Takes(u, k)' = Takes(u, k)
  <2>1. ASSUME NEW u \in Thread PROVE Takes(u, m)' = 0 /\ ~Arriving(u, m)'
    <3>1. u # t => ~(Takes(u, m) > 0) /\ ~Arriving(u, m)
      BY <1>0, <1>1 DEF Counts
    <3>2. Takes(u, m)' = 0
      BY <1>4, <1>5, <1>6, <1>13, <3>1
    <3>3. ~Arriving(u, m)
      BY <1>4, <3>1
    <3> QED BY <1>12, <3>2, <3>3
  <2>2. ASSUME NEW u \in Thread, NEW k \in Mutex, k # m PROVE Takes(u, k)' = Takes(u, k)
    BY <1>6, <1>13, <2>2
  <2> QED BY <2>1, <2>2
<1>15. Counts'
  <2>1. ASSUME NEW k \in Mutex, NEW u \in Thread
        PROVE  /\ owner'[k] = u =>
                     /\ value'[k] = 0 /\ hold'[k] > 0 /\ original_priority'[k] \in Given
                     /\ hold'[k] = Takes(u, k)' + IF Arriving(u, k)' THEN 1 ELSE 0
               /\ Takes(u, k)' > 0 \/ Arriving(u, k)' => owner'[k] = u
    <3>1. CASE k = m
      BY <1>7, <1>14, <3>1, MutexAssumption
    <3>2. CASE k # m
      BY <1>0, <1>7, <1>12, <1>14, <3>2 DEF Counts
    <3> QED BY <3>1, <3>2
  <2>2. \A k \in Mutex : owner'[k] = Nobody => value'[k] = 1 /\ hold'[k] = 0
    BY <1>0, <1>7 DEF Counts
  <2> QED BY <2>1, <2>2 DEF Counts
<1>16. Ends'
  <2>1. ASSUME NEW k \in Mutex, NEW u \in Thread, owner'[k] = u PROVE owner[k] = u
    BY <1>7, <2>1, MutexAssumption
  <2> QED BY <1>0, <1>3, <1>9, <2>1 DEF Ends
<1> QED BY <1>8, <1>10, <1>11, <1>15, <1>16, <1>12 DEF Owners, ArrivingSame

LEMMA DetachStep ==
    ASSUME Owners, NEW t \in Thread, NEW m \in Mutex, Detach(t, m)
    PROVE  Owners' /\ ArrivingSame
<1> DEFINE r == [at |-> "wake", obj |-> m]
<1>1. r \in Step /\ r.at = "wake" /\ r.obj \in Mutex
  BY DEF Step
<1>2. pc[t].at # "taking" /\ pc' = [pc EXCEPT ![t] = r]
  BY DEF Detach, At, Call
<1>3. UNCHANGED <<mutexVars, waitVars, object, current_priority, taken>>
  BY DEF Detach
<1> HIDE DEF r
<1> QED BY <1>1, <1>2, <1>3, WakesStep

LEMMA DropStep ==
    ASSUME Owners, NEW t \in Thread, Drop(t)
    PROVE  Owners' /\ ArrivingSame
<1> DEFINE r == [at |-> "run", obj |-> Nobody]
<1>1. r \in Step /\ r.at = "run"
  BY DEF Step
<1>2. pc[t].at # "taking" /\ pc' = [pc EXCEPT ![t] = r]
  BY DEF Drop, At, Return
<1>3. UNCHANGED <<mutexVars, waitVars, current_priority, taken>>
  BY DEF Drop
<1>4. object' \subseteq object /\ \A k \in object \ object' : suspend_thread[k] = <<>>
  BY DEF Drop
<1> HIDE DEF r
<1> QED BY <1>1, <1>2, <1>3, <1>4, WakesStep

LEMMA OwnersNext == Owners /\ [Next]_vars => Owners'
<1> SUFFICES ASSUME Owners, [Next]_vars PROVE Owners'
  OBVIOUS
<1>1. ASSUME NEW t \in Thread, NEW m \in Mutex, Take(t, m) PROVE Owners'
  <2>1. CASE TakeFails(t, m)
    <3>1. pc[t].at = "run"
      BY <2>1 DEF TakeFails, MayTake, At
    <3> QED BY <2>1, <3>1, FailsStep DEF TakeFails
  <2> QED BY <1>1, <2>1, TakeOwnStep, TakeFreeStep, TakeWaitsStep DEF Take
<1>2. ASSUME NEW t \in Thread, NEW m \in Mutex, Release(t, m) PROVE Owners'
  <2>1. CASE ReleaseFails(t, m)
    <3>1. pc[t].at = "run"
      BY <2>1 DEF ReleaseFails, MayRelease, At
    <3> QED BY <2>1, <3>1, FailsStep DEF ReleaseFails
  <2> QED BY <1>2, <2>1, ReleaseHeldStep, ReleaseGivesStep, ReleaseFreesStep DEF Release
<1>3. CASE UNCHANGED vars
  <2>1. UNCHANGED <<value, owner, original_priority, hold, suspend_thread, object,
                    current_priority, error, timed, pc, taken>>
    BY <1>3 DEF vars, mutexVars, waitVars
  <2>2. Shape' /\ Calls'
    BY <2>1 DEF Owners, Shape, Calls
  <2>3. \A u \in Thread : Waits(u)' <=> Waits(u)
    BY <2>1 DEF Waits
  <2>4. Lists' /\ Ends'
    BY <2>1, <2>3 DEF Owners, Lists, Ends, Shape
  <2>5. \A u \in Thread, k \in Mutex : Arriving(u, k)' <=> Arriving(u, k)
    BY <2>1, <2>3 DEF Arriving
  <2>6. Counts'
    BY <2>1, <2>5, CountsKept DEF Owners, mutexVars
  <2> QED BY <2>2, <2>4, <2>6 DEF Owners
<1>4. ASSUME NEW t \in Thread,
             \/ Timeout(t) \/ TakeReturns(t) \/ WakeOne(t) \/ Drop(t)
             \/ \E m \in Mutex : Take(t, m) \/ Release(t, m) \/ Detach(t, m)
      PROVE  Owners'
  BY <1>1, <1>2, <1>4, TimeoutStep, TakeReturnsStep, WakeOneStep, DropStep, DetachStep
<1> QED BY <1>3, <1>4 DEF Next

LEMMA OwnersAlways == Spec => []Owners
BY OwnersInit, OwnersNext, PTL DEF Spec

-----------------------------------------------------------------------------
(* The theorems that follow from who owns what.                             *)

LEMMA OwnersType == Owners => TypeOK
<1> SUFFICES ASSUME Owners PROVE TypeOK
  OBVIOUS
<1>1. Shape /\ Calls /\ Counts
  BY DEF Owners
<1>2. hold \in [Mutex -> 0 .. MaxTakes]
  <2>1. \A m \in Mutex : hold[m] \in 0 .. MaxTakes
    BY <1>1, HoldBound
  <2> QED BY <1>1, <2>1 DEF Shape
<1> QED BY <1>1, <1>2 DEF Shape, TypeOK, Given, Step

\* Every variable of the mutexes stays in its type: value is a bit, hold, a byte that
\* rt_mutex_take increments without a check, does not exceed the takes that a thread has
\* not released, and what RT_THREAD_CTRL_CHANGE_PRIORITY sets is a priority of a thread.
THEOREM TypeCorrect == Spec => []TypeOK
BY OwnersAlways, OwnersType, PTL

\* A thread that rt_mutex_take returned RT_EOK to is the owner, alone, until it has
\* released as often; hold counts its takes; a mutex without an owner is free.
THEOREM OwnerCorrect == Spec => []TakersOwn
<1>1. Owners => TakersOwn
  <2> SUFFICES ASSUME Owners, NEW m \in Mutex
               PROVE  /\ \A t \in Thread : Takes(t, m) > 0 \/ Arriving(t, m) => owner[m] = t
                      /\ IF owner[m] = Nobody
                         THEN value[m] = 1 /\ hold[m] = 0
                         ELSE /\ value[m] = 0
                              /\ hold[m] = Takes(owner[m], m)
                                              + IF Arriving(owner[m], m) THEN 1 ELSE 0
    BY DEF TakersOwn
  <2>1. Shape /\ Counts
    BY DEF Owners
  <2>2. CASE owner[m] = Nobody
    BY <2>1, <2>2 DEF Counts
  <2>3. CASE owner[m] # Nobody
    <3>1. PICK t \in Thread : owner[m] = t
      BY <2>1, <2>3 DEF Shape
    <3> QED BY <2>1, <2>3, <3>1 DEF Counts
  <2> QED BY <2>2, <2>3
<1> QED BY <1>1, OwnersAlways, PTL

\* A hand-over by rt_mutex_release, a timeout and a detach race for a waiter, and one of
\* them wins: who stops waiting without an error is the owner, who has an error is not,
\* and nobody waits for a mutex that is free or gone.
THEOREM WaitCorrect == Spec => []WaitEndsOnce
<1>1. Owners => WaitEndsOnce
  <2> SUFFICES ASSUME Owners PROVE WaitEndsOnce
    OBVIOUS
  <2>1. Shape /\ Lists /\ Counts /\ Ends
    BY DEF Owners
  <2>2. ASSUME NEW t \in Thread, NEW m \in Mutex,
               pc[t] = [at |-> "taking", obj |-> m], ~Waits(t)
        PROVE  error[t] = "ok" <=> owner[m] = t
    <3>1. pc[t].at = "taking" /\ pc[t].obj = m
      BY <2>2
    <3>2. error[t] = "ok" => Arriving(t, m)
      BY <2>2 DEF Arriving
    <3> QED BY <2>1, <2>2, <3>1, <3>2 DEF Counts, Ends
  <2>3. ASSUME NEW m \in Mutex, suspend_thread[m] # <<>>
        PROVE  m \in object /\ owner[m] # Nobody /\ owner[m] \notin ToSet(suspend_thread[m])
    <3>1. suspend_thread[m] \in Seq(Thread)
      BY <2>1 DEF Shape
    <3>2. PICK h \in ToSet(suspend_thread[m]) : TRUE
      BY <2>3, <3>1, TailElements
    <3>3. ToSet(suspend_thread[m]) \subseteq Thread
      BY <3>1, ListMembers
    <3> QED BY <2>1, <3>2, <3>3 DEF Lists
  <2> QED BY <2>2, <2>3 DEF WaitEndsOnce
<1> QED BY <1>1, OwnersAlways, PTL

-----------------------------------------------------------------------------
(* Priority inheritance.                                                    *)

LEMMA SortedSame ==
    ASSUME NEW q \in Seq(Thread), NEW p, NEW r, SortedBy(p, q),
           \A t \in ToSet(q) : r[t] = p[t]
    PROVE  SortedBy(r, q)
<1>1. Len(q) \in Nat /\ DOMAIN q = 1 .. Len(q)
  BY LenProperties
<1>2. \A i \in 1 .. Len(q) : r[q[i]] = p[q[i]]
  BY <1>1 DEF ToSet
<1> QED BY <1>2 DEF SortedBy

LEMMA SortedRemove ==
    ASSUME NEW q \in Seq(Thread), NEW p \in [Thread -> Nat], NEW i \in 1 .. Len(q),
           SortedBy(p, q)
    PROVE  SortedBy(p, RemoveAt(q, i))
<1> DEFINE r == RemoveAt(q, i)
           at(j) == IF j < i THEN j ELSE j + 1
<1>1. /\ Len(q) \in Nat /\ Len(r) = Len(q) - 1
      /\ \A j \in 1 .. Len(q) - 1 : r[j] = IF j < i THEN q[j] ELSE q[j + 1]
  BY RemoveAtElements, LenProperties
<1>2. \A j \in 1 .. Len(r) : r[j] = q[at(j)] /\ at(j) \in 1 .. Len(q)
  BY <1>1
<1>3. \A j, k \in 1 .. Len(r) : j < k => at(j) < at(k)
  BY <1>1
<1> HIDE DEF r, at
<1>4. SortedBy(p, r)
  BY <1>2, <1>3 DEF SortedBy
<1> QED BY <1>4 DEF r

LEMMA SortedUnlink ==
    ASSUME NEW q \in Seq(Thread), NEW p \in [Thread -> Nat], NEW t, SortedBy(p, q)
    PROVE  SortedBy(p, Unlink(q, t))
<1>1. Len(q) \in Nat /\ DOMAIN q = 1 .. Len(q)
  BY LenProperties
<1>2. CASE t \in ToSet(q)
  <2>1. PICK i \in 1 .. Len(q) : i = CHOOSE j \in DOMAIN q : q[j] = t
    BY <1>1, <1>2 DEF ToSet
  <2>2. Unlink(q, t) = RemoveAt(q, i)
    BY <1>2, <2>1 DEF Unlink
  <2> QED BY <2>2, SortedRemove
<1>3. CASE t \notin ToSet(q)
  BY <1>3 DEF Unlink
<1> QED BY <1>2, <1>3

LEMMA SortedTail ==
    ASSUME NEW q \in Seq(Thread), NEW p \in [Thread -> Nat], q # <<>>, SortedBy(p, q)
    PROVE  /\ SortedBy(p, Tail(q))
           /\ \A t \in ToSet(q) : p[Head(q)] <= p[t]
<1>1. /\ Len(q) \in Nat /\ Len(q) > 0 /\ DOMAIN q = 1 .. Len(q) /\ Head(q) = q[1]
      /\ Tail(q) \in Seq(Thread)
      /\ Len(Tail(q)) = Len(q) - 1 /\ \A i \in 1 .. Len(q) - 1 : Tail(q)[i] = q[i + 1]
  BY LenProperties, HeadTailProperties
<1>2. SortedBy(p, Tail(q))
  BY <1>1 DEF SortedBy
<1>3. ASSUME NEW t \in ToSet(q) PROVE p[Head(q)] <= p[t]
  <2>1. PICK j \in 1 .. Len(q) : t = q[j]
    BY <1>1 DEF ToSet
  <2>2. q[1] \in Thread /\ p[q[1]] \in Nat
    BY <1>1, ElementOfSeq
  <2>3. CASE j = 1
    BY <1>1, <2>1, <2>2, <2>3
  <2>4. CASE 1 < j
    BY <1>1, <2>1, <2>4 DEF SortedBy
  <2> QED BY <1>1, <2>3, <2>4
<1> QED BY <1>2, <1>3

LEMMA SortedInsert ==
    ASSUME NEW q \in Seq(Thread), NEW t \in Thread, NEW m \in PrioFlag,
           current_priority \in [Thread -> Nat], SortedBy(current_priority, q)
    PROVE  SortedBy(current_priority, InsertAt(q, Place(q, t, m), t))
<1> DEFINE p == current_priority
<1>1. PICK i \in 1 .. Len(q) + 1 :
         /\ i = Place(q, t, m)
         /\ \A j \in 1 .. Len(q) : j < i => ~(p[t] < p[q[j]])
         /\ i <= Len(q) => p[t] < p[q[i]]
  BY PlaceInside
<1> DEFINE r == InsertAt(q, i, t)
           from(j) == IF j < i THEN j ELSE j - 1
<1>2. Len(q) \in Nat /\ \A j \in 1 .. Len(q) : q[j] \in Thread /\ p[q[j]] \in Nat
  BY LenProperties, ElementOfSeq
<1>3. p[t] \in Nat
  OBVIOUS
<1>4. /\ Len(r) = Len(q) + 1 /\ r[i] = t
      /\ \A j \in 1 .. Len(q) : r[IF j < i THEN j ELSE j + 1] = q[j]
  BY ONLY q \in Seq(Thread), i \in 1 .. Len(q) + 1, t \in Thread, InsertAtElements
<1> HIDE DEF r, p
<1>5. ASSUME NEW j \in 1 .. Len(r), j # i
      PROVE  from(j) \in 1 .. Len(q) /\ r[j] = q[from(j)]
  <2>1. CASE j < i
    <3>1. j \in 1 .. Len(q)
      BY <1>2, <1>4, <2>1
    <3> QED BY <1>4, <2>1, <3>1
  <2>2. CASE j > i
    <3>1. j - 1 \in 1 .. Len(q) /\ ~(j - 1 < i) /\ (j - 1) + 1 = j
      BY <1>2, <1>4, <2>2
    <3>2. r[j] = q[j - 1]
      BY <1>4, <3>1
    <3> QED BY <2>2, <3>1, <3>2
  <2> QED BY <1>2, <1>4, <1>5, <2>1, <2>2
<1>6. \A j \in 1 .. Len(q) : j < i => p[q[j]] <= p[t]
  BY <1>1, <1>2, <1>3
<1>7. \A j \in 1 .. Len(q) : j >= i => p[t] <= p[q[j]]
  <2> SUFFICES ASSUME NEW j \in 1 .. Len(q), j >= i PROVE p[t] <= p[q[j]]
    OBVIOUS
  <2>1. i \in 1 .. Len(q) /\ p[t] < p[q[i]]
    BY <1>1, <1>2
  <2>2. p[q[i]] <= p[q[j]]
    <3>1. CASE i = j
      BY <1>2, <3>1
    <3>2. CASE i < j
      BY <2>1, <3>2 DEF SortedBy, p
    <3> QED BY <1>2, <2>1, <3>1, <3>2
  <2> QED BY <1>2, <1>3, <2>1, <2>2
<1>8. ASSUME NEW j \in 1 .. Len(r), NEW k \in 1 .. Len(r), j < k
      PROVE  p[r[j]] <= p[r[k]]
  <2>1. CASE j = i
    <3>1. k # i /\ from(k) >= i
      BY <1>1, <1>2, <1>4, <1>8, <2>1
    <3> QED BY <1>4, <1>5, <1>7, <2>1, <3>1
  <2>2. CASE k = i
    <3>1. j # i /\ from(j) < i
      BY <1>1, <1>2, <1>4, <1>8, <2>2
    <3> QED BY <1>4, <1>5, <1>6, <2>2, <3>1
  <2>3. CASE j # i /\ k # i
    <3>1. from(j) < from(k)
      BY <1>1, <1>2, <1>4, <1>8, <2>3
    <3>2. /\ from(j) \in 1 .. Len(q) /\ r[j] = q[from(j)]
          /\ from(k) \in 1 .. Len(q) /\ r[k] = q[from(k)]
      BY <1>5, <2>3
    <3> HIDE DEF from
    <3> QED BY <3>1, <3>2 DEF SortedBy, p
  <2> QED BY <2>1, <2>2, <2>3
<1> QED BY <1>1, <1>8 DEF SortedBy, r, p

LEMMA OwnsTaken ==
    ASSUME Owners, NEW t \in Thread, NEW k \in Mutex, owner[k] = t, ~Arriving(t, k)
    PROVE  k \in ToSet(taken[t])
<1>1. Shape /\ Counts
  BY DEF Owners
<1>2. hold[k] > 0 /\ hold[k] = Takes(t, k) + IF Arriving(t, k) THEN 1 ELSE 0
  BY <1>1 DEF Counts
<1>3. Takes(t, k) \in Nat /\ (Takes(t, k) > 0 <=> k \in ToSet(taken[t]))
  BY <1>1, TakesFacts, LenProperties DEF Shape
<1>4. Takes(t, k) > 0
  BY <1>2, <1>3
<1> QED BY <1>3, <1>4

\* What a waiter owns may be held while it takes what it waits for.
LEMMA WaiterNests ==
    ASSUME Owners, NEW m \in Mutex, NEW u \in Thread, u \in ToSet(suspend_thread[m])
    PROVE  /\ \A k \in Mutex : owner[k] = u => <<k, m>> \in Nests
           /\ HeldAlone(m) => \A k \in Mutex : owner[k] # u
<1>1. Lists /\ Calls /\ Shape
  BY DEF Owners
<1>2. pc[u].at = "taking" /\ pc[u].obj = m
  BY <1>1 DEF Lists
<1>3. \A k \in Mutex : ~Arriving(u, k)
  BY DEF Arriving, Waits
<1>4. ASSUME NEW k \in Mutex, owner[k] = u PROVE <<k, m>> \in Nests
  <2>1. k \in ToSet(taken[u])
    BY <1>3, <1>4, OwnsTaken
  <2> QED BY <1>1, <1>2, <2>1 DEF Calls
<1> QED BY <1>4 DEF HeldAlone

LEMMA PrioritiesNat ==
    Given \subseteq Nat
BY MutexAssumption DEF Given

\* Steps that change neither an owner, nor a list, nor a priority.
LEMMA InheritsKept ==
    ASSUME Inherits, UNCHANGED <<owner, suspend_thread, current_priority>>
    PROVE  Inherits'
BY DEF Inherits, Single, Sorted, SortedBy, OwnerInherits

\* A waiter leaves a list, and nothing else changes.
LEMMA InheritsLeaves ==
    ASSUME Owners, Inherits, NEW h, Leaves(h), UNCHANGED <<owner, current_priority>>,
           \A m \in Mutex : \/ suspend_thread'[m] = suspend_thread[m]
                            \/ suspend_thread'[m] = Unlink(suspend_thread[m], h)
                            \/ suspend_thread[m] # <<>> /\ suspend_thread'[m] = Tail(suspend_thread[m])
    PROVE  Inherits'
<1>1. /\ Shape /\ current_priority \in [Thread -> Nat]
      /\ \A m \in Mutex : suspend_thread[m] \in Seq(Thread)
  <2>1. Shape
    BY DEF Owners
  <2>2. current_priority \in [Thread -> Given]
    BY <2>1 DEF Shape
  <2>3. current_priority \in [Thread -> Nat]
    BY ONLY <2>2, PrioritiesNat
  <2>4. \A m \in Mutex : suspend_thread[m] \in Seq(Thread)
    BY <2>1 DEF Shape
  <2> QED BY <2>1, <2>3, <2>4
<1>2. Single'
  BY DEF Inherits, Single
<1>3. ASSUME NEW m \in PrioFlag, HeldAlone(m)
      PROVE  SortedBy(current_priority, suspend_thread'[m])
  <2>1. m \in Mutex
    BY MutexAssumption
  <2>2. SortedBy(current_priority, suspend_thread[m]) /\ suspend_thread[m] \in Seq(Thread)
    BY <1>1, <1>3, <2>1 DEF Inherits, Sorted
  <2>3. CASE suspend_thread'[m] = suspend_thread[m]
    BY <2>2, <2>3
  <2>4. CASE suspend_thread'[m] = Unlink(suspend_thread[m], h)
    BY <1>1, <2>2, <2>4, SortedUnlink
  <2>5. CASE suspend_thread[m] # <<>> /\ suspend_thread'[m] = Tail(suspend_thread[m])
    BY <1>1, <2>2, <2>5, SortedTail
  <2> QED BY <2>1, <2>3, <2>4, <2>5
<1>4. OwnerInherits'
  <2>1. \A m \in PrioFlag : m \in Mutex
    BY MutexAssumption
  <2>2. \A m \in PrioFlag : ToSet(suspend_thread'[m]) \subseteq ToSet(suspend_thread[m])
    BY <2>1 DEF Leaves
  <2> QED BY <2>2 DEF Inherits, OwnerInherits
<1> QED BY <1>2, <1>3, <1>4 DEF Inherits, Sorted

LEMMA TakeFreeInherits ==
    ASSUME Owners, Inherits, NEW t \in Thread, NEW m \in Mutex, TakeFree(t, m)
    PROVE  Inherits'
<1>0. Shape /\ Lists /\ Counts
  BY DEF Owners
<1>1. /\ pc[t].at = "run" /\ owner[m] # t /\ value[m] > 0
      /\ \A k \in ToSet(taken[t]) : <<k, m>> \in Nests
      /\ owner' = [owner EXCEPT ![m] = t] /\ UNCHANGED <<suspend_thread, current_priority>>
  BY DEF TakeFree, MayTake, At, Own
<1>2. owner[m] = Nobody
  BY <1>0, <1>1 DEF Counts, Shape
<1>3. owner'[m] = t /\ \A k \in Mutex : k # m => owner'[k] = owner[k]
  BY <1>0, <1>1 DEF Shape
<1>4. ASSUME NEW k \in Mutex, owner[k] = t PROVE <<k, m>> \in Nests
  <2>1. ~Arriving(t, k)
    BY <1>0, <1>1, ArrivingFields
  <2> QED BY <1>1, <1>4, <2>1, OwnsTaken
<1>5. Single'
  <2> SUFFICES ASSUME NEW a \in Mutex, NEW b \in Mutex, HeldAlone(a),
                      owner'[a] # Nobody, owner'[b] = owner'[a]
               PROVE  b = a
    BY DEF Single
  <2>1. CASE a # m /\ b # m
    BY <1>3, <2>1 DEF Inherits, Single
  <2>2. CASE a = m /\ b # m
    BY <1>3, <1>4, <2>2 DEF HeldAlone
  <2>3. CASE a # m /\ b = m
    BY <1>3, <1>4, <2>3 DEF HeldAlone
  <2> QED BY <2>1, <2>2, <2>3
<1>6. Sorted'
  BY <1>1 DEF Inherits, Sorted, SortedBy
<1>7. OwnerInherits'
  <2>1. ToSet(suspend_thread[m]) = {}
    <3>1. suspend_thread[m] \in Seq(Thread)
      BY <1>0 DEF Shape
    <3>2. ToSet(suspend_thread[m]) \subseteq Thread
      BY <3>1, ListMembers
    <3> QED BY <1>0, <1>2, <3>2 DEF Lists
  <2>2. \A k \in PrioFlag : k \in Mutex
    BY MutexAssumption
  <2> QED BY <1>1, <1>3, <2>1, <2>2 DEF Inherits, OwnerInherits
<1> QED BY <1>5, <1>6, <1>7 DEF Inherits

LEMMA TakeWaitsInherits ==
    ASSUME Owners, Inherits, NEW t \in Thread, NEW m \in Mutex, TakeWaits(t, m)
    PROVE  Inherits'
<1>0. Shape /\ Lists /\ Counts
  BY DEF Owners
<1>1. current_priority \in [Thread -> Nat]
  <2>1. current_priority \in [Thread -> Given]
    BY <1>0 DEF Shape
  <2> QED BY <2>1, PrioritiesNat
<1>2. /\ pc[t].at = "run" /\ owner[m] # t /\ value[m] = 0 /\ UNCHANGED owner
  BY DEF TakeWaits, MayTake, At, mutexVars
<1>3. PICK o \in Thread : o = owner[m] /\ o # t
  BY <1>0, <1>2 DEF Counts, Shape
<1>4. /\ \A u \in Thread : u # o => current_priority'[u] = current_priority[u]
      /\ current_priority'[o] <= current_priority[o]
      /\ current_priority'[o] <= current_priority[t]
      /\ current_priority'[o] \in Nat
  <2>1. CASE current_priority[t] < current_priority[o]
    <3>1. current_priority' = [current_priority EXCEPT ![o] = current_priority[t]]
      BY <1>3, <2>1 DEF TakeWaits, Boosts, ChangePriority
    <3> QED BY <1>1, <2>1, <3>1
  <2>2. CASE ~(current_priority[t] < current_priority[o])
    <3>1. current_priority' = current_priority
      BY <1>3, <2>2 DEF TakeWaits, Boosts, ChangePriority
    <3> QED BY <1>1, <2>2, <3>1
  <2> QED BY <2>1, <2>2
<1>5. /\ \A k \in Mutex : k # m => suspend_thread'[k] = suspend_thread[k]
      /\ suspend_thread'[m] =
            InsertAt(suspend_thread[m], Place(suspend_thread[m], t, m), t)
      /\ suspend_thread'[m] \in Seq(Thread)
      /\ ToSet(suspend_thread'[m]) = ToSet(suspend_thread[m]) \cup {t}
  BY <1>0, TakeWaitsJoins
<1>6. \A k \in PrioFlag : k \in Mutex
  BY MutexAssumption
<1>7. \A k \in Mutex : suspend_thread[k] \in Seq(Thread) /\ ToSet(suspend_thread[k]) \subseteq Thread
  <2>1. \A k \in Mutex : suspend_thread[k] \in Seq(Thread)
    BY <1>0 DEF Shape
  <2> QED BY <2>1, ListMembers
<1>8. ASSUME NEW k \in Mutex, HeldAlone(k), NEW u \in ToSet(suspend_thread'[k])
      PROVE  u # o /\ u \in Thread /\ current_priority'[u] = current_priority[u]
  <2>1. CASE u = t
    BY <1>3, <1>4, <2>1
  <2>2. CASE u # t
    <3>1. u \in ToSet(suspend_thread[k]) /\ u \in Thread
      BY <1>5, <1>7, <2>2
    <3>2. owner[m] # u
      BY <1>8, <3>1, WaiterNests
    <3> QED BY <1>3, <1>4, <3>1, <3>2
  <2> QED BY <2>1, <2>2
<1>9. Single'
  BY <1>2 DEF Inherits, Single
<1>10. ASSUME NEW k \in PrioFlag, HeldAlone(k)
       PROVE  SortedBy(current_priority', suspend_thread'[k])
  <2>1. suspend_thread[k] \in Seq(Thread) /\ SortedBy(current_priority, suspend_thread[k])
    BY <1>6, <1>7, <1>10 DEF Inherits, Sorted
  <2>2. SortedBy(current_priority, suspend_thread'[k]) /\ suspend_thread'[k] \in Seq(Thread)
    <3>1. CASE k = m
      BY <1>1, <1>5, <2>1, <3>1, SortedInsert
    <3>2. CASE k # m
      BY <1>5, <1>6, <2>1, <3>2
    <3> QED BY <3>1, <3>2
  <2>3. \A u \in ToSet(suspend_thread'[k]) : current_priority'[u] = current_priority[u]
    BY <1>6, <1>8, <1>10
  <2> QED BY <2>2, <2>3, SortedSame
<1>11. ASSUME NEW k \in PrioFlag, HeldAlone(k), NEW u \in ToSet(suspend_thread'[k])
       PROVE  current_priority'[owner'[k]] <= current_priority'[u]
  <2>1. /\ current_priority'[u] = current_priority[u] /\ u \in Thread
        /\ current_priority[u] \in Nat
    BY <1>1, <1>6, <1>8, <1>11
  <2>2. CASE u \in ToSet(suspend_thread[k])
    <3>1. current_priority[owner[k]] <= current_priority[u]
      BY <1>11, <2>2 DEF Inherits, OwnerInherits
    <3>2. owner[k] \in Thread
      BY <1>0, <1>6, <2>1, <2>2 DEF Lists, Shape
    <3>3. current_priority'[owner[k]] <= current_priority[owner[k]]
      BY <1>1, <1>4, <3>2
    <3>4. current_priority'[owner[k]] \in Nat /\ current_priority[owner[k]] \in Nat
      BY <1>1, <1>4, <3>2
    <3> QED BY <1>2, <2>1, <3>1, <3>3, <3>4
  <2>3. CASE u \notin ToSet(suspend_thread[k])
    <3>1. k = m /\ u = t
      BY <1>5, <1>6, <1>11, <2>3
    <3> QED BY <1>2, <1>3, <1>4, <2>1, <3>1
  <2> QED BY <2>2, <2>3
<1>12. Sorted' /\ OwnerInherits'
  BY <1>10, <1>11 DEF Sorted, OwnerInherits
<1> QED BY <1>9, <1>12 DEF Inherits

\* An owner gives a mutex up, for the first waiter if there is one.
LEMMA ReleaseInherits ==
    ASSUME Owners, Inherits, NEW t \in Thread, NEW m \in Mutex,
           ReleaseGives(t, m) \/ ReleaseFrees(t, m)
    PROVE  Inherits'
<1>0. Shape /\ Lists /\ Counts
  BY DEF Owners
<1>1. current_priority \in [Thread -> Nat]
  <2>1. current_priority \in [Thread -> Given]
    BY <1>0 DEF Shape
  <2> QED BY <2>1, PrioritiesNat
<1>2. pc[t].at = "run" /\ owner[m] = t
  BY DEF ReleaseGives, ReleaseFrees, MayRelease, At
<1>3. \A u \in Thread : u # t => current_priority'[u] = current_priority[u]
  BY <1>1 DEF ReleaseGives, ReleaseFrees, Restore, ChangePriority
<1>4. \A k \in Mutex : suspend_thread[k] \in Seq(Thread) /\ ToSet(suspend_thread[k]) \subseteq Thread
  <2>1. \A k \in Mutex : suspend_thread[k] \in Seq(Thread)
    BY <1>0 DEF Shape
  <2> QED BY <2>1, ListMembers
<1>5. \A k \in PrioFlag : k \in Mutex
  BY MutexAssumption
<1>6. \A k \in Mutex : k # m => owner'[k] = owner[k] /\ suspend_thread'[k] = suspend_thread[k]
  BY <1>0 DEF ReleaseGives, ReleaseFrees, Give, Own, Resume, waitVars, Shape
<1>7. \/ suspend_thread[m] = <<>> /\ suspend_thread'[m] = <<>> /\ owner'[m] = Nobody
      \/ /\ suspend_thread[m] # <<>> /\ suspend_thread'[m] = Tail(suspend_thread[m])
         /\ owner'[m] = Head(suspend_thread[m])
  BY <1>0 DEF ReleaseGives, ReleaseFrees, Give, Own, Resume, waitVars, Shape
<1>8. /\ suspend_thread[m] # <<>> => Head(suspend_thread[m]) \in ToSet(suspend_thread[m])
      /\ suspend_thread[m] # <<>> => ToSet(suspend_thread'[m]) \subseteq ToSet(suspend_thread[m])
      /\ suspend_thread'[m] \in Seq(Thread)
  <2>1. suspend_thread[m] \in Seq(Thread) /\ IsInjective(suspend_thread[m])
    BY <1>0, <1>4 DEF Lists
  <2>2. CASE suspend_thread[m] # <<>>
    <3>1. /\ Tail(suspend_thread[m]) \in Seq(Thread)
          /\ Head(suspend_thread[m]) \in ToSet(suspend_thread[m])
          /\ ToSet(Tail(suspend_thread[m])) = ToSet(suspend_thread[m]) \ {Head(suspend_thread[m])}
      BY <2>1, <2>2, TailElements
    <3> QED BY <1>7, <2>2, <3>1
  <2>3. CASE suspend_thread[m] = <<>>
    <3>1. suspend_thread'[m] = suspend_thread[m]
      BY <1>7, <2>3
    <3> QED BY <2>1, <2>3, <3>1
  <2> QED BY <2>2, <2>3
<1>9. \A k \in Mutex : \A u \in ToSet(suspend_thread[k]) : u # t /\ u \in Thread
  BY <1>0, <1>2, <1>4 DEF Lists
<1>10. Single'
  <2> SUFFICES ASSUME NEW a \in Mutex, NEW b \in Mutex, HeldAlone(a),
                      owner'[a] # Nobody, owner'[b] = owner'[a]
               PROVE  b = a
    BY DEF Single
  <2>1. CASE a # m /\ b # m
    BY <1>6, <2>1 DEF Inherits, Single
  <2>2. ASSUME NEW k \in Mutex, k # m, owner'[m] # Nobody, owner'[k] = owner'[m]
        PROVE  <<k, m>> \in Nests
    <3>1. PICK h \in Thread : h = owner'[m] /\ h \in ToSet(suspend_thread[m])
      BY <1>4, <1>7, <1>8, <2>2
    <3>2. owner[k] = h
      BY <1>6, <2>2, <3>1
    <3> QED BY <3>1, <3>2, WaiterNests
  <2>3. CASE a = m /\ b # m
    BY <2>2, <2>3 DEF HeldAlone
  <2>4. CASE a # m /\ b = m
    BY <2>2, <2>4 DEF HeldAlone
  <2> QED BY <2>1, <2>3, <2>4
<1>11. ASSUME NEW k \in PrioFlag, HeldAlone(k)
       PROVE  SortedBy(current_priority', suspend_thread'[k])
  <2>1. suspend_thread[k] \in Seq(Thread) /\ SortedBy(current_priority, suspend_thread[k])
    BY <1>4, <1>5, <1>11 DEF Inherits, Sorted
  <2>2. /\ SortedBy(current_priority, suspend_thread'[k]) /\ suspend_thread'[k] \in Seq(Thread)
        /\ ToSet(suspend_thread'[k]) \subseteq ToSet(suspend_thread[k])
    <3>1. CASE k = m /\ suspend_thread[m] # <<>>
      BY <1>1, <1>7, <1>8, <2>1, <3>1, SortedTail
    <3>2. CASE k # m \/ suspend_thread[m] = <<>>
      BY <1>5, <1>6, <1>7, <2>1, <3>2
    <3> QED BY <3>1, <3>2
  <2>3. \A u \in ToSet(suspend_thread'[k]) : current_priority'[u] = current_priority[u]
    BY <1>3, <1>5, <1>9, <2>2
  <2> QED BY <2>2, <2>3, SortedSame
<1>12. ASSUME NEW k \in PrioFlag, HeldAlone(k), NEW u \in ToSet(suspend_thread'[k])
       PROVE  current_priority'[owner'[k]] <= current_priority'[u]
  <2>1. CASE k # m
    <3>1. u \in ToSet(suspend_thread[k]) /\ u # t /\ u \in Thread
      BY <1>5, <1>6, <1>9, <1>12, <2>1
    <3>2. owner[k] \in Thread /\ owner[k] # Nobody
      BY <1>0, <1>5, <3>1 DEF Lists, Shape
    <3>3. owner[k] # t
      BY <1>2, <1>5, <1>12, <2>1, <3>2 DEF Inherits, Single
    <3>4. current_priority[owner[k]] <= current_priority[u]
      BY <1>12, <3>1 DEF Inherits, OwnerInherits
    <3> QED BY <1>3, <1>5, <1>6, <2>1, <3>1, <3>2, <3>3, <3>4
  <2>2. CASE k = m
    <3>1. suspend_thread[m] # <<>>
      BY <1>7, <1>12, <2>2 DEF ToSet
    <3>2. u \in ToSet(suspend_thread[m]) /\ u # t /\ u \in Thread
      BY <1>8, <1>9, <1>12, <2>2, <3>1
    <3>3. SortedBy(current_priority, suspend_thread[m]) /\ suspend_thread[m] \in Seq(Thread)
      BY <1>4, <1>12, <2>2 DEF Inherits, Sorted
    <3>4. current_priority[Head(suspend_thread[m])] <= current_priority[u]
      BY <1>1, <3>1, <3>2, <3>3, SortedTail
    <3>5. owner'[m] = Head(suspend_thread[m]) /\ owner'[m] # t /\ owner'[m] \in Thread
      BY <1>7, <1>8, <1>9, <3>1
    <3> QED BY <1>3, <2>2, <3>2, <3>4, <3>5
  <2> QED BY <2>1, <2>2
<1>13. Sorted' /\ OwnerInherits'
  BY <1>11, <1>12 DEF Sorted, OwnerInherits
<1> QED BY <1>10, <1>13 DEF Inherits

LEMMA InheritsNext == Owners /\ Inherits /\ [Next]_vars => Inherits'
<1> SUFFICES ASSUME Owners, Inherits, [Next]_vars PROVE Inherits'
  OBVIOUS
<1>0. Shape /\ Lists /\ Calls
  BY DEF Owners
<1>1. ASSUME NEW t \in Thread, NEW m \in Mutex, Take(t, m) PROVE Inherits'
  <2>1. CASE TakeOwn(t, m) \/ TakeFails(t, m)
    <3>1. UNCHANGED <<owner, suspend_thread, current_priority>>
      BY <2>1 DEF TakeOwn, TakeFails, mutexVars
    <3> QED BY <3>1, InheritsKept
  <2> QED BY <1>1, <2>1, TakeFreeInherits, TakeWaitsInherits DEF Take
<1>2. ASSUME NEW t \in Thread, NEW m \in Mutex, Release(t, m) PROVE Inherits'
  <2>1. CASE ReleaseFails(t, m) \/ ReleaseHeld(t, m)
    <3>1. UNCHANGED <<owner, suspend_thread, current_priority>>
      BY <2>1 DEF ReleaseFails, ReleaseHeld, mutexVars, waitVars
    <3> QED BY <3>1, InheritsKept
  <2> QED BY <1>2, <2>1, ReleaseInherits DEF Release
<1>3. ASSUME NEW t \in Thread,
             TakeReturns(t) \/ Drop(t) \/ (\E m \in Mutex : Detach(t, m)) \/ UNCHANGED vars
      PROVE  Inherits'
  <2>1. UNCHANGED <<owner, suspend_thread, current_priority>>
    BY <1>3 DEF TakeReturns, Drop, Detach, vars, mutexVars, waitVars
  <2> QED BY <2>1, InheritsKept
<1>4. ASSUME NEW t \in Thread, Timeout(t) PROVE Inherits'
  <2>1. Leaves(t)
    BY <1>0, <1>4, TimeoutLeaves
  <2>2. UNCHANGED <<owner, current_priority>>
    BY <1>4 DEF Timeout, mutexVars
  <2>3. \A m \in Mutex : suspend_thread'[m] = Unlink(suspend_thread[m], t)
    BY <1>4 DEF Timeout
  <2> QED BY <2>1, <2>2, <2>3, InheritsLeaves
<1>5. ASSUME NEW t \in Thread, WakeOne(t) PROVE Inherits'
  <2>1. PICK m \in Mutex : m = pc[t].obj
    BY <1>0, <1>5 DEF WakeOne, At, Calls
  <2>2. PICK h : h = Head(suspend_thread[m])
    OBVIOUS
  <2>3. suspend_thread[m] # <<>> /\ Resume(m) /\ UNCHANGED <<owner, current_priority>>
    BY <1>5, <2>1 DEF WakeOne, mutexVars
  <2>4. Leaves(h)
    BY <1>0, <2>2, <2>3, ResumeLeaves
  <2>5. ASSUME NEW k \in Mutex
        PROVE  \/ suspend_thread'[k] = suspend_thread[k]
               \/ suspend_thread[k] # <<>> /\ suspend_thread'[k] = Tail(suspend_thread[k])
    BY <1>0, <2>3 DEF Resume, Shape
  <2> QED BY <2>3, <2>4, <2>5, InheritsLeaves
<1>6. CASE UNCHANGED vars
  BY <1>6, InheritsKept DEF vars, mutexVars, waitVars
<1>7. ASSUME NEW t \in Thread,
             \/ Timeout(t) \/ TakeReturns(t) \/ WakeOne(t) \/ Drop(t)
             \/ \E m \in Mutex : Take(t, m) \/ Release(t, m) \/ Detach(t, m)
      PROVE  Inherits'
  BY <1>1, <1>2, <1>3, <1>4, <1>5, <1>7
<1> QED BY <1>6, <1>7 DEF Next

LEMMA InheritsInit == Init => Inherits
<1> SUFFICES ASSUME Init PROVE Inherits
  OBVIOUS
<1>1. \A m \in Mutex : /\ owner[m] = Nobody
                       /\ ToSet(suspend_thread[m]) = {} /\ Len(suspend_thread[m]) = 0
  BY DEF Init, ToSet
<1>2. \A m \in PrioFlag : m \in Mutex
  BY MutexAssumption
<1> QED BY <1>1, <1>2 DEF Inherits, Single, Sorted, SortedBy, OwnerInherits

LEMMA InheritsAlways == Spec => []Inherits
BY InheritsInit, InheritsNext, OwnersAlways, PTL DEF Spec

\* "change the owner thread priority of mutex": the owner of a mutex of RT_IPC_FLAG_PRIO
\* that is never held together with another one is as urgent as every waiter, after
\* rt_mutex_release has handed it over, too.  What the callers do with the other mutexes,
\* in which order they release them for one, does not matter.
THEOREM InheritCorrect == Spec => []OwnerInherits
<1>1. Inherits => OwnerInherits
  BY DEF Inherits
<1> QED BY <1>1, InheritsAlways, PTL

-----------------------------------------------------------------------------
(* The priority that an owner gets back.                                    *)

LEMMA LastOfPush ==
    ASSUME NEW S, NEW q \in Seq(S), NEW x \in S
    PROVE  /\ q # <<>> => Push(q, x)[Len(Push(q, x))] = q[Len(q)]
           /\ q = <<>> => Push(q, x)[Len(Push(q, x))] = x
<1>1. /\ Len(q) \in Nat /\ (q = <<>> <=> Len(q) = 0)
      /\ Len(Push(q, x)) = Len(q) + 1
      /\ Push(q, x)[1] = x /\ \A i \in 1 .. Len(q) : Push(q, x)[i + 1] = q[i]
  BY ConcatProperties, LenProperties, EmptySeq DEF Push
<1> QED BY <1>1

LEMMA FirstTaken ==
    ASSUME Owners, NEW t \in Thread, taken[t] # <<>>
    PROVE  First(t) \in Mutex /\ First(t) \in ToSet(taken[t]) /\ owner[First(t)] = t
<1>1. Shape /\ Counts
  BY DEF Owners
<1>2. taken[t] \in Seq(Mutex)
  BY <1>1 DEF Shape
<1>3. Len(taken[t]) \in 1 .. Len(taken[t]) /\ DOMAIN taken[t] = 1 .. Len(taken[t])
  BY <1>2, LenProperties, EmptySeq
<1>4. First(t) \in Mutex /\ First(t) \in ToSet(taken[t])
  BY <1>2, <1>3, ElementOfSeq DEF First, ToSet
<1>5. PICK m \in Mutex : m = First(t)
  BY <1>4
<1>6. Takes(t, m) > 0
  BY <1>1, <1>4, <1>5, TakesFacts
<1>7. owner[m] = t
  BY <1>1, <1>6 DEF Counts
<1> QED BY <1>4, <1>5, <1>7

\* A thread that the step does not concern, but for a priority it may be lent.
LEMMA SavedSame ==
    ASSUME Owners, NEW u \in Thread, SavedFor(u), taken'[u] = taken[u],
           \A k \in Mutex : Arriving(u, k)' <=> Arriving(u, k),
           \A k \in Mutex : owner[k] = u => original_priority'[k] = original_priority[k],
           (\A k \in Mutex : owner[k] # u) => current_priority'[u] = current_priority[u]
    PROVE  SavedFor(u)'
<1>1. CASE taken[u] # <<>>
  <2>1. First(u)' = First(u)
    BY DEF First
  <2>2. original_priority'[First(u)] = original_priority[First(u)]
    BY <1>1, FirstTaken
  <2> QED BY <1>1, <2>1, <2>2 DEF SavedFor
<1>2. CASE taken[u] = <<>>
  <2>1. ASSUME NEW k \in Mutex, Arriving(u, k) PROVE original_priority'[k] = Priority[u]
    <3>1. owner[k] = u
      BY <2>1 DEF Owners, Counts
    <3> QED BY <1>2, <2>1, <3>1 DEF SavedFor
  <2>2. ASSUME \A k \in Mutex : ~Arriving(u, k) PROVE current_priority'[u] = Priority[u]
    <3>1. ToSet(taken[u]) = {}
      BY <1>2 DEF ToSet
    <3>2. \A k \in Mutex : owner[k] # u
      BY <2>2, <3>1, OwnsTaken
    <3> QED BY <1>2, <2>2, <3>2 DEF SavedFor
  <2> QED BY <1>2, <2>1, <2>2 DEF SavedFor
<1> QED BY <1>1, <1>2

\* A thread returns from a take of m, or takes what is free or its own.
LEMMA SavedTook ==
    ASSUME Owners, NEW t \in Thread, NEW m \in Mutex, Took(t, m),
           taken[t] # <<>> => original_priority'[First(t)] = Priority[t],
           taken[t] = <<>> => original_priority'[m] = Priority[t]
    PROVE  SavedFor(t)'
<1>1. /\ taken'[t] = Push(taken[t], m) /\ taken'[t] # <<>> /\ taken[t] \in Seq(Mutex)
  BY TookTakes DEF Owners, Shape
<1>2. /\ taken[t] # <<>> => First(t)' = First(t)
      /\ taken[t] = <<>> => First(t)' = m
  BY <1>1, LastOfPush DEF First
<1> QED BY <1>1, <1>2 DEF SavedFor

LEMMA TakeOwnSaved ==
    ASSUME Owners, Saved, NEW t \in Thread, NEW m \in Mutex, TakeOwn(t, m)
    PROVE  Saved'
<1>1. ArrivingSame
  BY TakeOwnStep
<1>2. /\ pc[t].at = "run" /\ owner[m] = t /\ Took(t, m)
      /\ UNCHANGED <<original_priority, current_priority>>
  BY DEF TakeOwn, MayTake, At
<1>3. Shape
  BY DEF Owners
<1>4. taken[t] # <<>>
  <2>1. ~Arriving(t, m)
    BY <1>2, <1>3, ArrivingFields
  <2>2. m \in ToSet(taken[t])
    BY <1>2, <2>1, OwnsTaken
  <2> QED BY <2>2 DEF ToSet
<1>5. SavedFor(t)'
  <2>1. original_priority'[First(t)] = Priority[t]
    BY <1>2, <1>4 DEF Saved, SavedFor
  <2> QED BY <1>2, <1>4, <2>1, SavedTook
<1>6. ASSUME NEW u \in Thread, u # t PROVE SavedFor(u)'
  <2>1. taken'[u] = taken[u]
    BY <1>2, <1>3, <1>6, TookTakes
  <2>2. SavedFor(u)
    BY DEF Saved
  <2> QED BY <1>1, <1>2, <2>1, <2>2, SavedSame DEF ArrivingSame
<1> QED BY <1>5, <1>6 DEF Saved

LEMMA TakeFreeSaved ==
    ASSUME Owners, Saved, NEW t \in Thread, NEW m \in Mutex, TakeFree(t, m)
    PROVE  Saved'
<1>0. Shape /\ Counts
  BY DEF Owners
<1>1. ArrivingSame
  BY TakeFreeStep
<1>2. /\ pc[t].at = "run" /\ value[m] > 0 /\ Took(t, m)
      /\ original_priority' = [original_priority EXCEPT ![m] = current_priority[t]]
      /\ UNCHANGED current_priority
  BY DEF TakeFree, MayTake, At, Own
<1>3. owner[m] = Nobody
  BY <1>0, <1>2 DEF Counts, Shape
<1>4. /\ original_priority'[m] = current_priority[t]
      /\ \A k \in Mutex : k # m => original_priority'[k] = original_priority[k]
  BY <1>0, <1>2 DEF Shape
<1>5. \A u \in Thread, k \in Mutex :
         owner[k] = u => original_priority'[k] = original_priority[k]
  BY <1>3, <1>4, MutexAssumption
<1>6. SavedFor(t)'
  <2>1. CASE taken[t] # <<>>
    <3>1. First(t) \in Mutex /\ owner[First(t)] = t
      BY <2>1, FirstTaken
    <3>2. original_priority'[First(t)] = Priority[t]
      BY <1>5, <2>1, <3>1 DEF Saved, SavedFor
    <3> QED BY <1>2, <2>1, <3>2, SavedTook
  <2>2. CASE taken[t] = <<>>
    <3>1. \A k \in Mutex : ~Arriving(t, k)
      BY <1>0, <1>2, ArrivingFields
    <3>2. original_priority'[m] = Priority[t]
      BY <1>4, <2>2, <3>1 DEF Saved, SavedFor
    <3> QED BY <1>2, <2>2, <3>2, SavedTook
  <2> QED BY <2>1, <2>2
<1>7. ASSUME NEW u \in Thread, u # t PROVE SavedFor(u)'
  <2>1. taken'[u] = taken[u]
    BY <1>0, <1>2, <1>7, TookTakes
  <2>2. SavedFor(u)
    BY DEF Saved
  <2> QED BY <1>1, <1>2, <1>5, <2>1, <2>2, SavedSame DEF ArrivingSame
<1> QED BY <1>6, <1>7 DEF Saved

LEMMA TakeWaitsSaved ==
    ASSUME Owners, Saved, NEW t \in Thread, NEW m \in Mutex, TakeWaits(t, m)
    PROVE  Saved'
<1>0. Shape /\ Counts
  BY DEF Owners
<1>1. ArrivingSame
  BY TakeWaitsStep
<1>2. UNCHANGED <<original_priority, taken>> /\ value[m] = 0
  BY DEF TakeWaits, mutexVars
<1>3. PICK o \in Thread : o = owner[m]
  BY <1>0, <1>2 DEF Counts, Shape
<1>4. \A u \in Thread : u # o => current_priority'[u] = current_priority[u]
  BY <1>0, <1>3 DEF TakeWaits, ChangePriority, Shape
<1>5. ASSUME NEW u \in Thread PROVE SavedFor(u)'
  <2>1. SavedFor(u)
    BY DEF Saved
  <2>2. (\A k \in Mutex : owner[k] # u) => current_priority'[u] = current_priority[u]
    BY <1>3, <1>4
  <2> QED BY <1>1, <1>2, <2>1, <2>2, SavedSame DEF ArrivingSame
<1> QED BY <1>5 DEF Saved

LEMMA TakeReturnsSaved ==
    ASSUME Owners, Saved, NEW t \in Thread, TakeReturns(t)
    PROVE  Saved'
<1>0. Shape /\ Calls /\ Counts
  BY DEF Owners
<1>1. pc[t].at = "taking" /\ ~Waits(t) /\ UNCHANGED <<original_priority, current_priority>>
  BY DEF TakeReturns, At, mutexVars
<1>2. PICK m \in Mutex : m = pc[t].obj
  BY <1>0, <1>1 DEF Calls
<1>3. \/ error[t] = "ok" /\ Took(t, m)
      \/ error[t] # "ok" /\ UNCHANGED taken
  BY <1>2 DEF TakeReturns
<1>4. /\ \A u \in Thread, k \in Mutex : u # t => (Arriving(u, k)' <=> Arriving(u, k))
      /\ \A k \in Mutex : ~Arriving(t, k)'
      /\ \A k \in Mutex : Arriving(t, k) <=> k = m /\ error[t] = "ok"
  BY <1>2, TakeReturnsStep
<1>5. SavedFor(t)
  BY DEF Saved
<1>6. CASE error[t] = "ok" /\ Took(t, m)
  <2>1. Arriving(t, m)
    BY <1>4, <1>6
  <2>2. /\ taken[t] # <<>> => original_priority'[First(t)] = Priority[t]
        /\ taken[t] = <<>> => original_priority'[m] = Priority[t]
    BY <1>1, <1>5, <2>1 DEF SavedFor
  <2>3. SavedFor(t)'
    BY <1>6, <2>2, SavedTook
  <2>4. ASSUME NEW u \in Thread, u # t PROVE SavedFor(u)'
    <3>1. taken'[u] = taken[u]
      BY <1>0, <1>6, <2>4, TookTakes
    <3>2. SavedFor(u)
      BY DEF Saved
    <3> QED BY <1>1, <1>4, <2>4, <3>1, <3>2, SavedSame
  <2> QED BY <2>3, <2>4 DEF Saved
<1>7. CASE error[t] # "ok" /\ UNCHANGED taken
  <2>1. \A u \in Thread, k \in Mutex : Arriving(u, k)' <=> Arriving(u, k)
    BY <1>4, <1>7
  <2>2. ASSUME NEW u \in Thread PROVE SavedFor(u)'
    <3>1. SavedFor(u)
      BY DEF Saved
    <3> QED BY <1>1, <1>7, <2>1, <3>1, SavedSame
  <2> QED BY <2>2 DEF Saved
<1> QED BY <1>3, <1>6, <1>7

\* What a thread has taken, after it has released the last of it.
LEMMA ReleasedFirst ==
    ASSUME Owners, NEW t \in Thread, NEW m \in Mutex, MayRelease(t, m), t = owner[m],
           Released(t, m), InOrder
    PROVE  /\ taken[t] # <<>>
           /\ taken'[t] # <<>> => First(t)' = First(t)
           /\ taken'[t] = <<>> => First(t) = m
           /\ \A u \in Thread : u # t => taken'[u] = taken[u]
           /\ hold[m] > 1 => taken'[t] # <<>>
           /\ hold[m] = 1 /\ taken'[t] # <<>> => First(t) # m
<1>0. Shape
  BY DEF Owners
<1>1. Takes(t, m) = hold[m] /\ hold[m] > 0 /\ hold[m] \in Nat
  BY ReleaseFacts
<1>2. Takes(t, m) > 0
  BY <1>1
<1>3. Head(taken[t]) = m
  BY DEF MayRelease
<1>4. /\ taken' \in [Thread -> Seq(Mutex)]
      /\ \A u \in Thread : u # t => taken'[u] = taken[u]
      /\ Takes(t, m)' = Takes(t, m) - 1
      /\ taken'[t] = RemoveAt(taken[t], 1)
  BY <1>0, <1>2, <1>3, ReleasedTakes
<1> DEFINE q == taken[t]
           r == RemoveAt(q, 1)
<1>5. q \in Seq(Mutex) /\ Len(q) \in Nat /\ m \in ToSet(q) /\ (q = <<>> <=> Len(q) = 0)
  <2>1. q \in Seq(Mutex)
    BY <1>0 DEF Shape
  <2>2. m \in ToSet(q)
    BY <1>0, <1>2, TakesFacts
  <2> HIDE DEF q
  <2> QED BY <2>1, <2>2, LenProperties, EmptySeq
<1>6. q # <<>> /\ Len(q) >= 1
  BY <1>5 DEF ToSet
<1>7. 1 \in 1 .. Len(q) /\ q[1] = m
  BY <1>3, <1>5, <1>6
<1>8. /\ r \in Seq(Mutex) /\ Len(r) = Len(q) - 1
      /\ \A j \in 1 .. Len(q) - 1 : r[j] = IF j < 1 THEN q[j] ELSE q[j + 1]
  BY ONLY <1>5, <1>7, RemoveAtElements
<1>9. r = <<>> <=> Len(r) = 0
  BY <1>8, EmptySeq
<1> HIDE DEF q, r
<1>10. r # <<>> => r[Len(r)] = q[Len(q)]
  <2> SUFFICES ASSUME r # <<>> PROVE r[Len(r)] = q[Len(q)]
    OBVIOUS
  <2>1. Len(q) - 1 \in 1 .. Len(q) - 1 /\ ~(Len(q) - 1 < 1) /\ (Len(q) - 1) + 1 = Len(q)
    BY <1>5, <1>6, <1>8, <1>9
  <2> QED BY <1>8, <2>1
<1>11. r = <<>> => q[Len(q)] = m
  <2>1. r = <<>> => Len(q) = 1
    BY ONLY <1>5, <1>8, <1>9
  <2> QED BY ONLY <1>7, <2>1
<1>12. First(t)' = r[Len(r)] /\ First(t) = q[Len(q)] /\ taken'[t] = r
  BY <1>4 DEF First, q, r
<1>13. Takes(t, m)' = Cardinality(Places(r, m))
  BY <1>12 DEF Takes, Places
<1>14. /\ Cardinality(Places(r, m)) \in 0 .. Len(r)
       /\ Cardinality(Places(r, m)) > 0 <=> m \in ToSet(r)
  BY ONLY <1>8, PlacesFinite
<1>15. hold[m] > 1 => r # <<>>
  BY <1>1, <1>4, <1>5, <1>8, <1>9, <1>13, <1>14
<1>16. ASSUME hold[m] = 1, r # <<>> PROVE r[Len(r)] # m
  <2>1. m \notin ToSet(r)
    BY <1>1, <1>4, <1>13, <1>14, <1>16
  <2>2. Len(r) \in DOMAIN r
    BY <1>5, <1>8, <1>9, <1>16, LenProperties
  <2> QED BY <2>1, <2>2 DEF ToSet
<1> QED BY <1>4, <1>6, <1>10, <1>11, <1>12, <1>15, <1>16 DEF q

LEMMA ReleaseHeldSaved ==
    ASSUME Owners, Saved, InOrder, NEW t \in Thread, NEW m \in Mutex, ReleaseHeld(t, m)
    PROVE  Saved'
<1>1. ArrivingSame
  BY ReleaseHeldStep
<1>2. /\ MayRelease(t, m) /\ t = owner[m] /\ Released(t, m) /\ Less(m) > 0
      /\ UNCHANGED <<original_priority, current_priority>>
  BY DEF ReleaseHeld
<1>3. hold[m] > 1
  <2>1. Less(m) = hold[m] - 1 /\ hold[m] \in Nat
    BY <1>2, ReleaseFacts
  <2> QED BY <1>2, <2>1
<1>4. /\ taken[t] # <<>> /\ taken'[t] # <<>> /\ First(t)' = First(t)
      /\ \A u \in Thread : u # t => taken'[u] = taken[u]
  BY <1>2, <1>3, ReleasedFirst
<1>5. ASSUME NEW u \in Thread PROVE SavedFor(u)'
  <2>1. SavedFor(u)
    BY DEF Saved
  <2>2. CASE u = t
    BY <1>2, <1>4, <2>1, <2>2 DEF SavedFor
  <2>3. CASE u # t
    BY <1>1, <1>2, <1>4, <2>1, <2>3, SavedSame DEF ArrivingSame
  <2> QED BY <2>2, <2>3
<1> QED BY <1>5 DEF Saved

LEMMA ReleaseSaved ==
    ASSUME Owners, Saved, InOrder, NEW t \in Thread, NEW m \in Mutex,
           ReleaseGives(t, m) \/ ReleaseFrees(t, m)
    PROVE  Saved'
<1>0. Shape /\ Lists /\ Counts
  BY DEF Owners
<1>1. /\ MayRelease(t, m) /\ t = owner[m] /\ Released(t, m) /\ Less(m) = 0
      /\ current_priority' = [current_priority EXCEPT ![t] = original_priority[m]]
  BY DEF ReleaseGives, ReleaseFrees, Restore, ChangePriority
<1>2. /\ current_priority'[t] = original_priority[m]
      /\ \A u \in Thread : u # t => current_priority'[u] = current_priority[u]
      /\ \A k \in Mutex : k # m => original_priority'[k] = original_priority[k]
  BY <1>0, <1>1 DEF ReleaseGives, ReleaseFrees, Give, Own, Shape
<1>3. hold[m] = 1 /\ \A k \in Mutex : ~Arriving(t, k)
  <2>1. /\ Less(m) = hold[m] - 1 /\ hold[m] \in Nat
        /\ \A k \in Mutex : ~Arriving(t, k)
    BY <1>1, ReleaseFacts
  <2> QED BY <1>1, <2>1
<1>4. /\ taken[t] # <<>>
      /\ taken'[t] # <<>> => First(t)' = First(t) /\ First(t) # m
      /\ taken'[t] = <<>> => First(t) = m
      /\ \A u \in Thread : u # t => taken'[u] = taken[u]
  BY <1>1, <1>3, ReleasedFirst
<1>5. PICK h : h = Head(suspend_thread[m])
  OBVIOUS
<1>6. \/ ArrivingSame
      \/ /\ \A u \in Thread, k \in Mutex : Arriving(u, k)' <=>
               Arriving(u, k) \/ (u = h /\ k = m)
         /\ original_priority'[m] = current_priority[h]
         /\ h \in Thread /\ h \in ToSet(suspend_thread[m])
  <2>1. CASE ReleaseFrees(t, m)
    BY <2>1, ReleaseFreesStep
  <2>2. CASE ReleaseGives(t, m)
    <3>1. \A u \in Thread, k \in Mutex : Arriving(u, k)' <=>
             Arriving(u, k) \/ (u = h /\ k = m)
      BY <1>5, <2>2, ReleaseGivesStep
    <3>2. original_priority'[m] = current_priority[h]
      BY <1>0, <1>5, <2>2 DEF ReleaseGives, Give, Own, Shape
    <3>3. h \in Thread /\ h \in ToSet(suspend_thread[m])
      BY <1>0, <1>5, <2>2, ResumeLeaves DEF ReleaseGives, Give
    <3> QED BY <3>1, <3>2, <3>3
  <2> QED BY <2>1, <2>2
<1>7. h \in Thread /\ h \in ToSet(suspend_thread[m]) => h # t /\ \A k \in Mutex : ~Arriving(h, k)
  BY <1>0, <1>1 DEF Lists, Arriving, Waits
<1>8. SavedFor(t)'
  <2>1. SavedFor(t) /\ First(t) \in Mutex
    BY <1>4, FirstTaken DEF Saved
  <2>2. \A k \in Mutex : ~Arriving(t, k)'
    BY <1>3, <1>6, <1>7 DEF ArrivingSame
  <2>3. CASE taken'[t] = <<>>
    BY <1>2, <1>4, <2>1, <2>2, <2>3 DEF SavedFor
  <2>4. CASE taken'[t] # <<>>
    BY <1>2, <1>4, <2>1, <2>4 DEF SavedFor
  <2> QED BY <2>3, <2>4
<1>9. ASSUME NEW u \in Thread, u # t PROVE SavedFor(u)'
  <2>1. SavedFor(u)
    BY DEF Saved
  <2>2. \A k \in Mutex : owner[k] = u => original_priority'[k] = original_priority[k]
    BY <1>1, <1>2, <1>9
  <2>3. CASE \A k \in Mutex : Arriving(u, k)' <=> Arriving(u, k)
    BY <1>2, <1>4, <1>9, <2>1, <2>2, <2>3, SavedSame
  <2>4. CASE ~ \A k \in Mutex : Arriving(u, k)' <=> Arriving(u, k)
    <3>1. /\ u = h /\ original_priority'[m] = current_priority[h]
          /\ \A k \in Mutex : Arriving(u, k)' => k = m
          /\ \A k \in Mutex : ~Arriving(u, k)
          /\ Arriving(u, m)'
      BY <1>6, <1>7, <2>4 DEF ArrivingSame
    <3>2. CASE taken[u] # <<>>
      <4>1. First(u)' = First(u) /\ taken'[u] = taken[u]
        BY <1>4, <1>9 DEF First
      <4>2. First(u) \in Mutex /\ owner[First(u)] = u
        BY <3>2, FirstTaken
      <4> QED BY <2>1, <2>2, <3>2, <4>1, <4>2 DEF SavedFor
    <3>3. CASE taken[u] = <<>>
      BY <1>4, <1>9, <2>1, <3>1, <3>3 DEF SavedFor
    <3> QED BY <3>2, <3>3
  <2> QED BY <2>3, <2>4
<1> QED BY <1>8, <1>9 DEF Saved

\* Steps that change neither what is taken nor a priority.
LEMMA SavedKept ==
    ASSUME Owners, Saved, ArrivingSame, UNCHANGED <<taken, original_priority, current_priority>>
    PROVE  Saved'
<1>1. ASSUME NEW u \in Thread PROVE SavedFor(u)'
  <2>1. SavedFor(u)
    BY DEF Saved
  <2> QED BY <2>1, SavedSame DEF ArrivingSame
<1> QED BY <1>1 DEF Saved

LEMMA SavedNext == ASSUME InOrder PROVE Owners /\ Saved /\ [Next]_vars => Saved'
<1> SUFFICES ASSUME Owners, Saved, [Next]_vars PROVE Saved'
  OBVIOUS
<1>1. ASSUME NEW t \in Thread, NEW m \in Mutex, Take(t, m) PROVE Saved'
  <2>1. CASE TakeFails(t, m)
    <3>1. pc[t].at = "run"
      BY <2>1 DEF TakeFails, MayTake, At
    <3>2. ArrivingSame
      BY <2>1, <3>1, FailsStep DEF TakeFails
    <3>3. UNCHANGED <<taken, original_priority, current_priority>>
      BY <2>1 DEF TakeFails, mutexVars
    <3> QED BY <3>2, <3>3, SavedKept
  <2> QED BY <1>1, <2>1, TakeOwnSaved, TakeFreeSaved, TakeWaitsSaved DEF Take
<1>2. ASSUME NEW t \in Thread, NEW m \in Mutex, Release(t, m) PROVE Saved'
  <2>1. CASE ReleaseFails(t, m)
    <3>1. pc[t].at = "run"
      BY <2>1 DEF ReleaseFails, MayRelease, At
    <3>2. ArrivingSame
      BY <2>1, <3>1, FailsStep DEF ReleaseFails
    <3>3. UNCHANGED <<taken, original_priority, current_priority>>
      BY <2>1 DEF ReleaseFails, mutexVars
    <3> QED BY <3>2, <3>3, SavedKept
  <2> QED BY <1>2, <2>1, ReleaseHeldSaved, ReleaseSaved DEF Release
<1>3. ASSUME NEW t \in Thread, Timeout(t) \/ WakeOne(t) \/ Drop(t) \/ \E m \in Mutex : Detach(t, m)
      PROVE  Saved'
  <2>1. ArrivingSame
    BY <1>3, TimeoutStep, WakeOneStep, DropStep, DetachStep
  <2>2. UNCHANGED <<taken, original_priority, current_priority>>
    BY <1>3 DEF Timeout, WakeOne, Drop, Detach, mutexVars
  <2> QED BY <2>1, <2>2, SavedKept
<1>4. CASE UNCHANGED vars
  <2>1. UNCHANGED <<taken, original_priority, current_priority, pc, suspend_thread, error>>
    BY <1>4 DEF vars, mutexVars, waitVars
  <2>2. ArrivingSame
    BY <2>1 DEF ArrivingSame, Arriving, Waits
  <2> QED BY <2>1, <2>2, SavedKept
<1>5. ASSUME NEW t \in Thread,
             \/ Timeout(t) \/ TakeReturns(t) \/ WakeOne(t) \/ Drop(t)
             \/ \E m \in Mutex : Take(t, m) \/ Release(t, m) \/ Detach(t, m)
      PROVE  Saved'
  BY <1>1, <1>2, <1>3, <1>5, TakeReturnsSaved
<1> QED BY <1>4, <1>5 DEF Next

LEMMA SavedAlways == ASSUME InOrder PROVE Spec => []Saved
<1>1. Init => Saved
  BY DEF Init, Saved, SavedFor, Arriving
<1>2. Owners /\ Saved /\ [Next]_vars => Saved'
  BY SavedNext
<1> QED BY <1>1, <1>2, OwnersAlways, PTL DEF Spec

LEMMA SavedRestores == Owners /\ Saved => PriorityRestored
<1> SUFFICES ASSUME Owners, Saved, NEW t \in Thread, \A m \in Mutex : owner[m] # t
             PROVE  current_priority[t] = Priority[t]
  BY DEF PriorityRestored
<1>1. taken[t] = <<>>
  BY FirstTaken
<1>2. \A m \in Mutex : ~Arriving(t, m)
  BY DEF Owners, Counts
<1> QED BY <1>1, <1>2 DEF Saved, SavedFor

\* "change the owner thread to original priority": a thread that owns no mutex has the
\* priority it was given, whatever it was lent by waiters of the mutexes it held, inside
\* each other or not, provided that a thread releases first what it took last.
THEOREM RestoreCorrect == ASSUME InOrder PROVE Spec => []PriorityRestored
BY SavedAlways, SavedRestores, OwnersAlways, PTL

-----------------------------------------------------------------------------
(* Whose turn it is.                                                        *)

LEMMA PassStep ==
    ASSUME Owners, Saved, Inherits, [Next]_vars, NEW m \in Mutex,
           owner'[m] \notin {owner[m], Nobody}
    PROVE  Turn(owner'[m], m)
<1>0. Shape /\ Lists /\ Counts
  BY DEF Owners
<1>1. UNCHANGED owner => FALSE
  OBVIOUS
<1>2. ASSUME NEW t \in Thread, NEW k \in Mutex, TakeFree(t, k) PROVE Turn(owner'[m], m)
  <2>1. k = m
    BY <1>0, <1>2 DEF TakeFree, Own, Shape
  <2>2. owner[m] = Nobody
    BY <1>0, <1>2, <2>1 DEF TakeFree, Counts, Shape
  <2>3. ToSet(suspend_thread[m]) = {}
    <3>1. suspend_thread[m] \in Seq(Thread)
      BY <1>0 DEF Shape
    <3>2. ToSet(suspend_thread[m]) \subseteq Thread
      BY <3>1, ListMembers
    <3> QED BY <1>0, <2>2, <3>2 DEF Lists
  <2> QED BY <2>2, <2>3 DEF Turn
<1>3. ASSUME NEW t \in Thread, NEW k \in Mutex, ReleaseGives(t, k) PROVE Turn(owner'[m], m)
  <2>1. k = m
    BY <1>0, <1>3 DEF ReleaseGives, Give, Own, Shape
  <2>2. suspend_thread[m] # <<>> /\ owner'[m] = Head(suspend_thread[m])
    BY <1>0, <1>3, <2>1 DEF ReleaseGives, Give, Own, Shape
  <2>3. PICK h : h = Head(suspend_thread[m])
    OBVIOUS
  <2>4. suspend_thread[m] \in Seq(Thread) /\ ToSet(suspend_thread[m]) \subseteq Thread
    <3>1. suspend_thread[m] \in Seq(Thread)
      BY <1>0 DEF Shape
    <3> QED BY <3>1, ListMembers
  <2>5. h \in ToSet(suspend_thread[m])
    BY <2>2, <2>3, <2>4, TailElements
  <2>6. ASSUME m \in PrioFlag, HeldAlone(m), NEW u \in ToSet(suspend_thread[m])
        PROVE  Priority[h] <= Priority[u]
    <3>1. SortedBy(current_priority, suspend_thread[m])
      BY <2>6 DEF Inherits, Sorted
    <3>2. current_priority \in [Thread -> Nat]
      <4>1. current_priority \in [Thread -> Given]
        BY <1>0 DEF Shape
      <4> QED BY <4>1, PrioritiesNat
    <3>3. current_priority[h] <= current_priority[u]
      BY <2>2, <2>3, <2>4, <3>1, <3>2, SortedTail
    <3>4. ASSUME NEW v \in ToSet(suspend_thread[m]) PROVE current_priority[v] = Priority[v]
      <4>1. v \in Thread
        BY <2>4
      <4>2. \A j \in Mutex : owner[j] # v
        BY <2>6, <4>1, WaiterNests
      <4> QED BY <4>1, <4>2, SavedRestores DEF PriorityRestored
    <3> QED BY <2>5, <3>3, <3>4
  <2> QED BY <2>2, <2>3, <2>5, <2>6 DEF Turn
<1>4. ASSUME NEW t \in Thread, NEW k \in Mutex, ReleaseFrees(t, k) PROVE FALSE
  BY <1>0, <1>4 DEF ReleaseFrees, Shape
<1>5. ASSUME NEW t \in Thread, NEW k \in Mutex, Take(t, k) PROVE Turn(owner'[m], m)
  <2>1. TakeOwn(t, k) \/ TakeFails(t, k) \/ TakeWaits(t, k) => UNCHANGED owner
    BY DEF TakeOwn, TakeFails, TakeWaits, mutexVars
  <2> QED BY <1>1, <1>2, <1>5, <2>1 DEF Take
<1>6. ASSUME NEW t \in Thread, NEW k \in Mutex, Release(t, k) PROVE Turn(owner'[m], m)
  <2>1. ReleaseFails(t, k) \/ ReleaseHeld(t, k) => UNCHANGED owner
    BY DEF ReleaseFails, ReleaseHeld, mutexVars
  <2> QED BY <1>1, <1>3, <1>4, <1>6, <2>1 DEF Release
<1>7. ASSUME NEW t \in Thread,
             \/ Timeout(t) \/ TakeReturns(t) \/ WakeOne(t) \/ Drop(t)
             \/ \E k \in Mutex : Take(t, k) \/ Release(t, k) \/ Detach(t, k)
      PROVE  Turn(owner'[m], m)
  <2>1. Timeout(t) \/ TakeReturns(t) \/ WakeOne(t) \/ Drop(t)
           \/ (\E k \in Mutex : Detach(t, k)) => UNCHANGED owner
    BY DEF Timeout, TakeReturns, WakeOne, Drop, Detach, mutexVars
  <2> QED BY <1>1, <1>5, <1>6, <1>7, <2>1
<1>8. UNCHANGED vars => UNCHANGED owner
  BY DEF vars, mutexVars
<1> QED BY <1>1, <1>7, <1>8 DEF Next

\* A mutex passes from its owner to the waiter whose turn it is, in one region of
\* rt_mutex_release: the first of a FIFO mutex, the most urgent one of a mutex of
\* RT_IPC_FLAG_PRIO that is held alone.  Nobody who was not waiting gets in between.
THEOREM TurnsCorrect == ASSUME InOrder PROVE Spec => PassedInTurn
<1>1. Owners /\ Saved /\ Inherits /\ [Next]_vars =>
         [\A m \in Mutex : owner'[m] \notin {owner[m], Nobody} => Turn(owner'[m], m)]_vars
  BY PassStep
<1> QED BY <1>1, OwnersAlways, SavedAlways, InheritsAlways, PTL DEF Spec, PassedInTurn

=============================================================================
