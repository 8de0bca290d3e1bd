---------------------------- MODULE RtListProof ----------------------------
(* What the list operations do to the elements of a list without repetition. *)
EXTENDS RtList, SequenceTheorems, WellFoundedInduction, TLAPS

\* The element at each place once the i-th has been taken out.
LEMMA RemoveAtElements ==
    ASSUME NEW S, NEW q \in Seq(S), NEW i \in 1 .. Len(q)
    PROVE  /\ RemoveAt(q, i) \in Seq(S)
           /\ Len(RemoveAt(q, i)) = Len(q) - 1
           /\ \A j \in 1 .. Len(q) - 1 :
                 RemoveAt(q, i)[j] = IF j < i THEN q[j] ELSE q[j + 1]
<1> DEFINE front == SubSeq(q, 1, i - 1)
           back == SubSeq(q, i + 1, Len(q))
<1>1. /\ Len(q) \in Nat
      /\ \A j \in 1 .. Len(q) : q[j] \in S
  BY LenProperties, ElementOfSeq
<1>2. /\ front \in Seq(S)
      /\ Len(front) = i - 1
      /\ \A j \in 1 .. i - 1 : front[j] = q[j]
  <2>1. /\ front \in Seq(S)
        /\ Len(front) = IF 1 <= i - 1 THEN i - 1 - 1 + 1 ELSE 0
        /\ \A j \in 1 .. i - 1 - 1 + 1 : front[j] = q[1 + j - 1]
    <3>1. 1 \in Int /\ i - 1 \in Int /\ \A j \in 1 .. i - 1 : q[j] \in S
      BY <1>1
    <3> HIDE DEF front
    <3> QED BY <3>1, SubSeqProperties DEF front
  <2> HIDE DEF front
  <2> QED BY <2>1
<1>3. /\ back \in Seq(S)
      /\ Len(back) = Len(q) - i
      /\ \A j \in 1 .. Len(q) - i : back[j] = q[i + j]
  <2>1. /\ back \in Seq(S)
        /\ Len(back) = IF i + 1 <= Len(q) THEN Len(q) - (i + 1) + 1 ELSE 0
        /\ \A j \in 1 .. Len(q) - (i + 1) + 1 : back[j] = q[(i + 1) + j - 1]
    <3>1. i + 1 \in Int /\ Len(q) \in Int /\ \A j \in i + 1 .. Len(q) : q[j] \in S
      BY <1>1
    <3> HIDE DEF back
    <3> QED BY <3>1, SubSeqProperties DEF back
  <2> HIDE DEF back
  <2> QED BY <2>1, <1>1
<1> HIDE DEF front, back
<1> DEFINE r == front \o back
<1>4. /\ r \in Seq(S)
      /\ Len(r) = Len(front) + Len(back)
      /\ \A j \in 1 .. Len(front) + Len(back) :
            r[j] = IF j <= Len(front) THEN front[j] ELSE back[j - Len(front)]
  BY <1>2, <1>3, ConcatProperties
<1>5. RemoveAt(q, i) = r
  BY DEF RemoveAt, front, back
<1> HIDE DEF r
<1>6. Len(r) = Len(q) - 1
  BY <1>1, <1>2, <1>3, <1>4
<1>7. ASSUME NEW j \in 1 .. Len(q) - 1
      PROVE  r[j] = IF j < i THEN q[j] ELSE q[j + 1]
  <2>1. j \in 1 .. Len(front) + Len(back)
    BY <1>1, <1>2, <1>3
  <2>2. r[j] = IF j <= Len(front) THEN front[j] ELSE back[j - Len(front)]
    BY <2>1, <1>4
  <2>3. CASE j < i
    BY <2>2, <2>3, <1>1, <1>2
  <2>4. CASE ~(j < i)
    <3>1. ~(j <= Len(front)) /\ j - Len(front) = j - (i - 1) /\ j - (i - 1) \in 1 .. Len(q) - i
      BY <2>4, <1>1, <1>2
    <3>2. back[j - (i - 1)] = q[i + (j - (i - 1))] /\ i + (j - (i - 1)) = j + 1
      BY <3>1, <1>1, <1>3
    <3> QED BY <3>1, <3>2, <2>2, <2>4
  <2> QED BY <2>3, <2>4
<1> QED BY <1>4, <1>5, <1>6, <1>7

\* rt_list_remove takes its node off, and nothing else.
LEMMA UnlinkElements ==
    ASSUME NEW S, NEW q \in Seq(S), IsInjective(q), NEW n
    PROVE  /\ Unlink(q, n) \in Seq(S)
           /\ IsInjective(Unlink(q, n))
           /\ ToSet(Unlink(q, n)) = ToSet(q) \ {n}
<1>1. /\ Len(q) \in Nat /\ DOMAIN q = 1 .. Len(q)
      /\ \A a, b \in 1 .. Len(q) : q[a] = q[b] => a = b
  BY LenProperties DEF IsInjective
<1>2. CASE n \notin ToSet(q)
  BY <1>2 DEF Unlink
<1>3. CASE n \in ToSet(q)
  <2> DEFINE i == CHOOSE j \in DOMAIN q : q[j] = n
             r == RemoveAt(q, i)
  <2>1. i \in 1 .. Len(q) /\ q[i] = n
    BY <1>1, <1>3 DEF ToSet
  <2>2. Unlink(q, n) = r
    BY <1>3 DEF Unlink
  <2> HIDE DEF i
  <2>3. /\ r \in Seq(S) /\ Len(r) = Len(q) - 1
        /\ \A j \in 1 .. Len(q) - 1 : r[j] = IF j < i THEN q[j] ELSE q[j + 1]
    BY <2>1, RemoveAtElements
  <2> HIDE DEF r
  <2>4. DOMAIN r = 1 .. Len(q) - 1
    BY <2>3, LenProperties
  <2>5. IsInjective(r)
    <3> SUFFICES ASSUME NEW a \in 1 .. Len(q) - 1, NEW b \in 1 .. Len(q) - 1, r[a] = r[b]
                 PROVE  a = b
      BY <2>4 DEF IsInjective
    <3>1. r[a] = q[IF a < i THEN a ELSE a + 1] /\ r[b] = q[IF b < i THEN b ELSE b + 1]
      BY <2>3
    <3>2. (IF a < i THEN a ELSE a + 1) \in 1 .. Len(q) /\ (IF b < i THEN b ELSE b + 1) \in 1 .. Len(q)
      BY <1>1, <2>1
    <3>3. (IF a < i THEN a ELSE a + 1) = (IF b < i THEN b ELSE b + 1)
      BY <3>1, <3>2, <1>1
    <3> QED BY <3>3, <1>1, <2>1
  <2>6. ToSet(r) \subseteq ToSet(q) \ {n}
    <3> SUFFICES ASSUME NEW a \in 1 .. Len(q) - 1
                 PROVE  r[a] \in ToSet(q) \ {n}
      BY <2>4 DEF ToSet
    <3> DEFINE k == IF a < i THEN a ELSE a + 1
    <3>1. r[a] = q[k] /\ k \in 1 .. Len(q) /\ k # i
      BY <1>1, <2>1, <2>3
    <3>2. q[k] # n
      BY <3>1, <1>1, <2>1
    <3> QED BY <3>1, <3>2, <1>1 DEF ToSet
  <2>7. ToSet(q) \ {n} \subseteq ToSet(r)
    <3> SUFFICES ASSUME NEW k \in 1 .. Len(q), q[k] # n
                 PROVE  q[k] \in ToSet(r)
      BY <1>1 DEF ToSet
    <3> DEFINE a == IF k < i THEN k ELSE k - 1
    <3>1. a \in 1 .. Len(q) - 1 /\ r[a] = q[k]
      <4>1. k # i
        BY <2>1
      <4>2. CASE k < i
        BY <4>2, <1>1, <2>1, <2>3
      <4>3. CASE k > i
        <5>1. k - 1 \in 1 .. Len(q) - 1 /\ ~(k - 1 < i) /\ (k - 1) + 1 = k
          BY <4>3, <1>1, <2>1
        <5> QED BY <5>1, <4>3, <1>1, <2>1, <2>3
      <4> QED BY <4>1, <4>2, <4>3, <1>1, <2>1
    <3> QED BY <3>1, <2>4 DEF ToSet
  <2> QED BY <2>2, <2>3, <2>5, <2>6, <2>7
<1> QED BY <1>2, <1>3

\* rt_list_insert_before adds its node, which is on no list, at the end.
LEMMA EnqueueElements ==
    ASSUME NEW S, NEW q \in Seq(S), NEW n \in S
    PROVE  /\ Enqueue(q, n) \in Seq(S)
           /\ ToSet(Enqueue(q, n)) = ToSet(q) \cup {n}
           /\ Enqueue(q, n) # <<>>
           /\ IsInjective(q) /\ n \notin ToSet(q) => IsInjective(Enqueue(q, n))
<1>1. /\ Len(q) \in Nat /\ DOMAIN q = 1 .. Len(q)
      /\ Append(q, n) \in Seq(S)
      /\ Len(Append(q, n)) = Len(q) + 1
      /\ DOMAIN Append(q, n) = 1 .. Len(q) + 1
      /\ \A j \in 1 .. Len(q) : Append(q, n)[j] = q[j]
      /\ Append(q, n)[Len(q) + 1] = n
  BY LenProperties
<1>2. Append(q, n) # <<>>
  BY <1>1
<1>3. ToSet(Append(q, n)) = ToSet(q) \cup {n}
  BY <1>1 DEF ToSet
<1>4. ASSUME IsInjective(q), n \notin ToSet(q)
      PROVE  IsInjective(Append(q, n))
  BY <1>1, <1>4 DEF IsInjective, ToSet
<1> QED BY <1>1, <1>2, <1>3, <1>4 DEF Enqueue

\* rt_list_insert_after adds its node, which is on no list, at the front.
LEMMA PushElements ==
    ASSUME NEW S, NEW q \in Seq(S), NEW n \in S
    PROVE  /\ Push(q, n) \in Seq(S)
           /\ ToSet(Push(q, n)) = ToSet(q) \cup {n}
           /\ IsInjective(q) /\ n \notin ToSet(q) => IsInjective(Push(q, n))
<1> DEFINE r == <<n>> \o q
<1>1. /\ Len(q) \in Nat /\ DOMAIN q = 1 .. Len(q)
      /\ <<n>> \in Seq(S) /\ Len(<<n>>) = 1 /\ <<n>>[1] = n
  BY LenProperties
<1>2. /\ r \in Seq(S)
      /\ Len(r) = 1 + Len(q)
      /\ r[1] = n
      /\ \A j \in 2 .. Len(q) + 1 : r[j] = q[j - 1]
      /\ DOMAIN r = 1 .. Len(q) + 1
  <2>1. /\ r \in Seq(S) /\ Len(r) = Len(<<n>>) + Len(q)
        /\ \A j \in 1 .. Len(<<n>>) + Len(q) :
              r[j] = IF j <= Len(<<n>>) THEN <<n>>[j] ELSE q[j - Len(<<n>>)]
    BY <1>1, ConcatProperties
  <2> HIDE DEF r
  <2>2. DOMAIN r = 1 .. Len(r)
    BY <2>1, LenProperties
  <2> QED BY <1>1, <2>1, <2>2
<1> HIDE DEF r
<1>3. ToSet(r) = ToSet(q) \cup {n}
  <2>1. ToSet(r) \subseteq ToSet(q) \cup {n}
    <3> SUFFICES ASSUME NEW j \in 1 .. Len(q) + 1, j # 1
                 PROVE  r[j] \in ToSet(q)
      BY <1>1, <1>2 DEF ToSet
    <3>1. j \in 2 .. Len(q) + 1 /\ j - 1 \in 1 .. Len(q)
      BY <1>1
    <3> QED BY <3>1, <1>1, <1>2 DEF ToSet
  <2>2. n \in ToSet(r)
    BY <1>1, <1>2 DEF ToSet
  <2>3. \A j \in 1 .. Len(q) : q[j] \in ToSet(r)
    <3> TAKE j \in 1 .. Len(q)
    <3>1. j + 1 \in 2 .. Len(q) + 1 /\ (j + 1) - 1 = j /\ j + 1 \in 1 .. Len(q) + 1
      BY <1>1
    <3> QED BY <3>1, <1>2 DEF ToSet
  <2> QED BY <2>1, <2>2, <2>3, <1>1 DEF ToSet
<1>4. ASSUME IsInjective(q), n \notin ToSet(q)
      PROVE  IsInjective(r)
  <2> SUFFICES ASSUME NEW a \in 1 .. Len(q) + 1, NEW b \in 1 .. Len(q) + 1, r[a] = r[b]
               PROVE  a = b
    BY <1>2 DEF IsInjective
  <2>1. \A j \in 2 .. Len(q) + 1 : j - 1 \in 1 .. Len(q) /\ r[j] = q[j - 1] /\ r[j] # n
    BY <1>1, <1>2, <1>4 DEF ToSet
  <2>2. \A j, k \in 1 .. Len(q) : q[j] = q[k] => j = k
    BY <1>1, <1>4 DEF IsInjective
  <2> QED BY <1>1, <1>2, <2>1, <2>2
<1> QED BY <1>2, <1>3, <1>4 DEF Push, r

\* Taking the first node off a list.
LEMMA TailElements ==
    ASSUME NEW S, NEW q \in Seq(S), q # <<>>
    PROVE  /\ Tail(q) \in Seq(S) /\ Head(q) \in ToSet(q)
           /\ IsInjective(q) => /\ IsInjective(Tail(q))
                                /\ ToSet(Tail(q)) = ToSet(q) \ {Head(q)}
<1> DEFINE r == Tail(q)
<1>1. /\ Len(q) \in Nat /\ DOMAIN q = 1 .. Len(q) /\ Len(q) >= 1 /\ Head(q) = q[1]
      /\ r \in Seq(S) /\ Len(r) = Len(q) - 1 /\ DOMAIN r = 1 .. Len(q) - 1
      /\ \A j \in 1 .. Len(q) - 1 : r[j] = q[j + 1]
  BY LenProperties, HeadTailProperties
<1> HIDE DEF r
<1>2. Head(q) \in ToSet(q)
  BY <1>1 DEF ToSet
<1>3. ASSUME IsInjective(q) PROVE IsInjective(r) /\ ToSet(r) = ToSet(q) \ {Head(q)}
  <2>1. \A j, k \in 1 .. Len(q) : q[j] = q[k] => j = k
    BY <1>1, <1>3 DEF IsInjective
  <2>2. \A j \in 1 .. Len(q) - 1 : j + 1 \in 1 .. Len(q) /\ j + 1 # 1
    BY <1>1
  <2>3. IsInjective(r)
    BY <1>1, <2>1, <2>2 DEF IsInjective
  <2>4. ToSet(r) \subseteq ToSet(q) \ {Head(q)}
    <3> SUFFICES ASSUME NEW j \in 1 .. Len(q) - 1 PROVE r[j] \in ToSet(q) /\ r[j] # Head(q)
      BY <1>1 DEF ToSet
    <3>1. r[j] = q[j + 1] /\ j + 1 \in 1 .. Len(q) /\ j + 1 # 1 /\ 1 \in 1 .. Len(q)
      BY <1>1, <2>2
    <3>2. q[j + 1] # q[1]
      BY <2>1, <3>1
    <3> QED BY <1>1, <3>1, <3>2 DEF ToSet
  <2>5. \A j \in 1 .. Len(q) : q[j] # Head(q) => q[j] \in ToSet(r)
    <3> SUFFICES ASSUME NEW j \in 1 .. Len(q), j # 1 PROVE q[j] \in ToSet(r)
      BY <1>1
    <3>1. j - 1 \in 1 .. Len(q) - 1 /\ (j - 1) + 1 = j
      BY <1>1
    <3> QED BY <1>1, <3>1 DEF ToSet
  <2>6. ToSet(q) \ {Head(q)} \subseteq ToSet(r)
    <3> SUFFICES ASSUME NEW j \in 1 .. Len(q), q[j] # Head(q) PROVE q[j] \in ToSet(r)
      BY <1>1 DEF ToSet
    <3> QED BY <2>5
  <2> QED BY <2>3, <2>4, <2>6
<1> QED BY <1>1, <1>2, <1>3 DEF r

\* The elements of a list are those of its type.
LEMMA ListMembers ==
    ASSUME NEW S, NEW q \in Seq(S)
    PROVE  ToSet(q) \subseteq S
<1>1. DOMAIN q = 1 .. Len(q)
  BY LenProperties
<1> QED BY <1>1, ElementOfSeq DEF ToSet

\* Min of the places of a list that meet a condition is one of them, and the first.
LEMMA LeastPlace ==
    ASSUME NEW T \in SUBSET Nat, T # {}
    PROVE  Min(T) \in T /\ \A y \in T : Min(T) <= y
<1> DEFINE R == OpToRel(<, Nat)
<1>1. IsWellFoundedOn(R, Nat)
  BY NatLessThanWellFounded
<1>2. \A x, y \in Nat : x < y => <<x, y>> \in R
  BY DEF OpToRel
<1> HIDE DEF R
<1>3. PICK x \in T : \A y \in T : ~(<<y, x>> \in R)
  BY <1>1, WFMin
<1>4. ASSUME NEW y \in T
      PROVE  x <= y
  <2>1. x \in Nat /\ y \in Nat /\ ~(y < x)
    BY <1>2, <1>3
  <2> QED BY <2>1
<1> QED BY <1>4 DEF Min

\* The element at each place once n has been put in front of the i-th.
LEMMA InsertAtElements ==
    ASSUME NEW S, NEW q \in Seq(S), NEW i \in 1 .. Len(q) + 1, NEW n \in S
    PROVE  /\ InsertAt(q, i, n) \in Seq(S)
           /\ Len(InsertAt(q, i, n)) = Len(q) + 1
           /\ InsertAt(q, i, n)[i] = n
           /\ \A j \in 1 .. Len(q) :
                 InsertAt(q, i, n)[IF j < i THEN j ELSE j + 1] = q[j]
<1> DEFINE front == SubSeq(q, 1, i - 1)
           mid == front \o <<n>>
           back == SubSeq(q, i, Len(q))
           r == mid \o back
<1>1. /\ Len(q) \in Nat
      /\ \A j \in 1 .. Len(q) : q[j] \in S
      /\ <<n>> \in Seq(S) /\ Len(<<n>>) = 1 /\ <<n>>[1] = n
  BY LenProperties, ElementOfSeq
<1>2. /\ front \in Seq(S) /\ Len(front) = i - 1
      /\ \A j \in 1 .. i - 1 : front[j] = q[j]
  <2>1. \A j \in 1 .. i - 1 : q[j] \in S
    BY <1>1
  <2>2. /\ 1 \in Int /\ i - 1 \in Int
        /\ IF 1 <= i - 1 THEN 1 \in 1 .. Len(q) /\ i - 1 \in 1 .. Len(q) ELSE TRUE
    BY <1>1
  <2> QED BY <2>1, <2>2, <1>1, SubSeqProperties
<1>3. /\ back \in Seq(S) /\ Len(back) = Len(q) + 1 - i
      /\ \A j \in 1 .. Len(q) + 1 - i : back[j] = q[i + j - 1]
  BY <1>1, SubSeqProperties
<1> HIDE DEF front, back
<1>4. /\ mid \in Seq(S) /\ Len(mid) = i
      /\ \A j \in 1 .. i : mid[j] = IF j <= i - 1 THEN front[j] ELSE <<n>>[j - (i - 1)]
  BY <1>1, <1>2, ConcatProperties
<1>5. mid[i] = n /\ \A j \in 1 .. i - 1 : mid[j] = q[j]
  <2>1. i \in 1 .. i /\ ~(i <= i - 1) /\ i - (i - 1) = 1
    BY <1>1
  <2>2. mid[i] = n
    BY <2>1, <1>1, <1>4
  <2>3. ASSUME NEW j \in 1 .. i - 1
        PROVE  mid[j] = q[j]
    <3>1. j \in 1 .. i /\ j <= i - 1
      BY <1>1
    <3> QED BY <3>1, <1>2, <1>4
  <2> QED BY <2>2, <2>3
<1> HIDE DEF mid
<1>6. /\ r \in Seq(S) /\ Len(r) = Len(q) + 1
      /\ \A j \in 1 .. Len(q) + 1 : r[j] = IF j <= i THEN mid[j] ELSE back[j - i]
  <2>1. i + (Len(q) + 1 - i) = Len(q) + 1
    BY <1>1
  <2>2. /\ r \in Seq(S) /\ Len(r) = Len(mid) + Len(back)
        /\ \A j \in 1 .. Len(mid) + Len(back) :
              r[j] = IF j <= Len(mid) THEN mid[j] ELSE back[j - Len(mid)]
    BY <1>3, <1>4, ConcatProperties
  <2> HIDE DEF r
  <2> QED BY <2>1, <2>2, <1>3, <1>4
<1>7. r[i] = n
  BY <1>1, <1>5, <1>6
<1>8. ASSUME NEW j \in 1 .. Len(q)
      PROVE  r[IF j < i THEN j ELSE j + 1] = q[j]
  <2>1. CASE j < i
    BY <2>1, <1>1, <1>5, <1>6
  <2>2. CASE ~(j < i)
    <3>1. /\ j + 1 \in 1 .. Len(q) + 1 /\ ~(j + 1 <= i)
          /\ j + 1 - i \in 1 .. Len(q) + 1 - i /\ i + (j + 1 - i) - 1 = j
      BY <2>2, <1>1
    <3>2. r[j + 1] = back[j + 1 - i]
      BY <3>1, <1>6
    <3>3. back[j + 1 - i] = q[i + (j + 1 - i) - 1]
      BY <3>1, <1>3
    <3>4. back[j + 1 - i] = q[j]
      BY <3>1, <3>3
    <3> QED BY <2>2, <3>2, <3>4
  <2> QED BY <2>1, <2>2
<1> QED BY <1>6, <1>7, <1>8 DEF InsertAt, r, mid, front, back

\* Putting a node into a list, anywhere.
LEMMA InsertElements ==
    ASSUME NEW S, NEW q \in Seq(S), NEW i \in 1 .. Len(q) + 1, NEW n \in S
    PROVE  /\ InsertAt(q, i, n) \in Seq(S)
           /\ InsertAt(q, i, n) # <<>>
           /\ ToSet(InsertAt(q, i, n)) = ToSet(q) \cup {n}
           /\ IsInjective(q) /\ n \notin ToSet(q) => IsInjective(InsertAt(q, i, n))
<1> DEFINE r == InsertAt(q, i, n)
           at(j) == IF j < i THEN j ELSE j + 1
           from(k) == IF k < i THEN k ELSE k - 1
<1>1. /\ r \in Seq(S) /\ Len(r) = Len(q) + 1 /\ r[i] = n
      /\ \A j \in 1 .. Len(q) : r[at(j)] = q[j]
  BY InsertAtElements
<1> HIDE DEF r
<1>2. /\ Len(q) \in Nat /\ DOMAIN q = 1 .. Len(q) /\ DOMAIN r = 1 .. Len(q) + 1
  BY <1>1, LenProperties
<1>3. \A j \in 1 .. Len(q) : at(j) \in 1 .. Len(q) + 1
  BY <1>2
<1>4. \A k \in 1 .. Len(q) + 1 : k # i => from(k) \in 1 .. Len(q) /\ at(from(k)) = k
  BY <1>2
<1>5. \A k \in 1 .. Len(q) + 1 : k # i => from(k) \in 1 .. Len(q) /\ r[k] = q[from(k)]
  BY <1>1, <1>4
<1> HIDE DEF at
<1>6. ToSet(r) = ToSet(q) \cup {n}
  <2>1. ToSet(r) \subseteq ToSet(q) \cup {n}
    BY <1>1, <1>2, <1>5 DEF ToSet
  <2>2. n \in ToSet(r)
    BY <1>1, <1>2 DEF ToSet
  <2>3. ToSet(q) \subseteq ToSet(r)
    BY <1>1, <1>2, <1>3 DEF ToSet
  <2> QED BY <2>1, <2>2, <2>3
<1>7. ASSUME IsInjective(q), n \notin ToSet(q), NEW a \in 1 .. Len(q) + 1,
             NEW b \in 1 .. Len(q) + 1, r[a] = r[b]
      PROVE  a = b
  <2>1. \A k \in 1 .. Len(q) + 1 : k # i => r[k] # n
    BY <1>2, <1>5, <1>7 DEF ToSet
  <2>2. CASE a = i \/ b = i
    BY <2>1, <2>2, <1>1, <1>7
  <2>3. CASE a # i /\ b # i
    <3>1. from(a) = from(b)
      BY <2>3, <1>2, <1>5, <1>7 DEF IsInjective
    <3> QED BY <3>1, <2>3, <1>2
  <2> QED BY <2>2, <2>3
<1>8. r # <<>>
  BY <1>1, <1>2
<1> QED BY <1>1, <1>2, <1>6, <1>7, <1>8 DEF IsInjective, r

=============================================================================
