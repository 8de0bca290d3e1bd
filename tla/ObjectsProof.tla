---------------------------- MODULE ObjectsProof ----------------------------
(* Proofs about the other objects that threads wait for, on what IpcProof    *)
(* says of the waiting threads: the receive ring of a serial device, the     *)
(* data queue and the DMA transmission on it, the message queue, the         *)
(* completion, the event and the work queue; then what is said of all kinds   *)
(* of objects: the detaching and the types.                                  *)
EXTENDS IpcProof

-----------------------------------------------------------------------------
(* The ring of received characters.                                         *)

\* The place that is k behind rx_get.
Round(k, n) == IF k < n THEN k ELSE k - n
RxPlace(k) == Round(rx_get + k, bufsz)

RxTypeOK ==
    /\ buffer \in [0 .. bufsz - 1 -> Value \cup {Nothing}]
    /\ rx_put \in Nat /\ rx_put < bufsz
    /\ rx_get \in Nat /\ rx_get < bufsz
    /\ is_full \in BOOLEAN
    /\ expected \in Seq(Value)

\* With interrupts one place is always left, with the DMA a ring that is marked as full
\* is full.
RxInv ==
    /\ RxTypeOK
    /\ Len(expected) = RecvedLen
    /\ \A i \in 1 .. Len(expected) : buffer[RxPlace(i - 1)] = expected[i]
    /\ kind = "int_rx" => (rx_put = rx_get => ~is_full)
    /\ kind = "dma_rx" => (is_full => rx_put = rx_get)

LEMMA WrapBack ==
    ASSUME NEW n \in Nat, n > 0, NEW x \in Int, -n < x, x < n
    PROVE  x % n = IF x < 0 THEN x + n ELSE x
OBVIOUS

\* How many there are.
RxCount == IF rx_put = rx_get THEN IF is_full THEN bufsz ELSE 0
           ELSE IF rx_put < rx_get THEN rx_put - rx_get + bufsz
           ELSE rx_put - rx_get

LEMMA RxLen == RxTypeOK => RecvedLen = RxCount
<1> SUFFICES ASSUME RxTypeOK PROVE RecvedLen = RxCount
  OBVIOUS
<1>1. PICK n \in Nat : n = bufsz /\ n > 1
  BY SerialAssumption
<1>2. PICK x \in Int : x = rx_put - rx_get
  BY DEF RxTypeOK
<1>3. n > 0 /\ -n < x /\ x < n
  BY <1>1, <1>2 DEF RxTypeOK
<1>4. x % n = IF x < 0 THEN x + n ELSE x
  BY ONLY <1>3, n \in Nat, x \in Int, WrapBack
<1>5. rx_put < rx_get <=> x < 0
  BY <1>2 DEF RxTypeOK
<1> QED BY <1>1, <1>2, <1>4, <1>5 DEF RecvedLen, RxCount

\* Where the characters are, and how many.
LEMMA RxFacts ==
    ASSUME RxInv
    PROVE  /\ bufsz \in Nat /\ bufsz > 1 /\ RxTypeOK
           /\ Len(expected) \in Nat /\ Len(expected) = RecvedLen /\ Len(expected) <= bufsz
           /\ rx_put = RxPlace(Len(expected))
           /\ \A k \in Nat : k <= bufsz => /\ RxPlace(k) \in 0 .. bufsz - 1
                                           /\ (rx_get + k) % bufsz = RxPlace(k)
<1>1. /\ bufsz \in Nat /\ bufsz > 1 /\ RxTypeOK
      /\ Len(expected) = RecvedLen
  BY SerialAssumption DEF RxInv
<1>2. /\ rx_put \in Nat /\ rx_put < bufsz /\ rx_get \in Nat /\ rx_get < bufsz
  BY <1>1 DEF RxTypeOK
<1>3. Len(expected) \in Nat /\ Len(expected) <= bufsz /\ rx_put = RxPlace(Len(expected))
  BY <1>1, <1>2, RxLen DEF RxPlace, Round, RxCount
<1>4. ASSUME NEW k \in Nat, k <= bufsz
      PROVE  RxPlace(k) \in 0 .. bufsz - 1 /\ (rx_get + k) % bufsz = RxPlace(k)
  <2>1. PICK n \in Nat : n = bufsz /\ n > 0
    BY <1>1
  <2>2. PICK x \in Nat : x = rx_get + k /\ x < 2 * n
    BY <1>2, <1>4, <2>1
  <2>3. x % n = IF x < n THEN x ELSE x - n
    BY ONLY <2>1, <2>2, n \in Nat, x \in Nat, WrapAround
  <2>4. RxPlace(k) \in 0 .. bufsz - 1
    BY <1>1, <1>2, <1>4 DEF RxPlace, Round
  <2>5. (rx_get + k) % bufsz = RxPlace(k)
    BY <1>1, <1>2, <2>1, <2>2, <2>3 DEF RxPlace, Round
  <2> QED BY <2>4, <2>5
<1> QED BY <1>1, <1>3, <1>4

LEMMA RxSays == RxInv => RxKeepsLatest
<1> SUFFICES ASSUME RxInv PROVE RxKeepsLatest
  OBVIOUS
<1>1. \A i \in 1 .. RecvedLen : /\ i \in 1 .. Len(expected) /\ i - 1 \in Nat
                                /\ i - 1 <= bufsz /\ rx_get + i - 1 = rx_get + (i - 1)
  BY RxFacts DEF RxTypeOK
<1>2. \A i \in 1 .. RecvedLen : (rx_get + i - 1) % bufsz = RxPlace(i - 1)
  BY <1>1, RxFacts
<1> QED BY <1>1, <1>2, RxFacts DEF RxKeepsLatest, RxInv

LEMMA RxStarts == RxInit => RxInv
<1> SUFFICES ASSUME RxInit PROVE RxInv
  OBVIOUS
<1>1. bufsz \in Nat /\ bufsz > 1
  BY SerialAssumption
<1>2. RxTypeOK
  <2>1. buffer \in [0 .. bufsz - 1 -> Value \cup {Nothing}]
    BY DEF RxInit
  <2>2. <<>> \in Seq(Value)
    OBVIOUS
  <2>3. rx_put = 0 /\ rx_get = 0 /\ expected = <<>>
    BY DEF RxInit
  <2>4. is_full \in BOOLEAN
    BY DEF RxInit
  <2> QED BY <1>1, <2>1, <2>2, <2>3, <2>4 DEF RxTypeOK
<1>3. expected = <<>> /\ Len(expected) = 0 /\ RecvedLen = 0
  BY DEF RxInit, RecvedLen
<1> QED BY <1>2, <1>3 DEF RxInv, RxInit

\* The character is written behind the last one, and no other place changes.
LEMMA WritesBehind ==
    ASSUME RxInv, Len(expected) < bufsz, NEW ch
    PROVE  /\ [buffer EXCEPT ![rx_put] = ch][RxPlace(Len(expected))] = ch
           /\ \A i \in 1 .. Len(expected) :
                 [buffer EXCEPT ![rx_put] = ch][RxPlace(i - 1)] = expected[i]
<1>1. /\ bufsz \in Nat /\ rx_get \in Nat /\ rx_get < bufsz /\ Len(expected) \in Nat
      /\ rx_put = RxPlace(Len(expected)) /\ rx_put \in 0 .. bufsz - 1
      /\ buffer \in [0 .. bufsz - 1 -> Value \cup {Nothing}]
  BY RxFacts DEF RxTypeOK
<1>2. ASSUME NEW i \in 1 .. Len(expected)
      PROVE  RxPlace(i - 1) \in 0 .. bufsz - 1 /\ RxPlace(i - 1) # rx_put
             /\ buffer[RxPlace(i - 1)] = expected[i]
  BY <1>1 DEF RxInv, RxPlace, Round
<1> QED BY <1>1, <1>2

\* One character, of int_rx: the oldest one goes when there is no room for another.
LEMMA IntRxStep ==
    ASSUME RxInv, kind = "int_rx", kind' = kind, NEW ch \in Value, IntRx(ch)
    PROVE  RxInv'
<1>1. /\ bufsz \in Nat /\ bufsz > 1 /\ rx_get \in Nat /\ rx_get < bufsz
      /\ rx_put \in Nat /\ rx_put < bufsz
      /\ Len(expected) \in Nat /\ Len(expected) <= bufsz /\ expected \in Seq(Value)
      /\ rx_put = RxPlace(Len(expected))
      /\ (rx_put = rx_get => ~is_full)
      /\ buffer \in [0 .. bufsz - 1 -> Value \cup {Nothing}]
  BY RxFacts DEF RxTypeOK, RxInv
<1>2. PICK n \in Nat : n = Len(expected)
  BY <1>1
<1>3. n < bufsz
  <2>1. RxCount < bufsz
    <3>1. CASE rx_put = rx_get
      BY <1>1, <3>1 DEF RxCount
    <3>2. CASE rx_put # rx_get
      BY <1>1, <3>2 DEF RxCount
    <3> QED BY <3>1, <3>2
  <2> QED BY <1>2, <2>1, RxFacts, RxLen
<1>4. (rx_put + 1) % bufsz = IF rx_put + 1 < bufsz THEN rx_put + 1 ELSE 0
  <2>1. PICK m \in Nat : m = bufsz /\ m > 0
    BY <1>1
  <2>2. PICK x \in Nat : x = rx_put + 1 /\ x < 2 * m
    BY <1>1, <2>1
  <2>3. x % m = IF x < m THEN x ELSE x - m
    BY ONLY <2>1, <2>2, m \in Nat, x \in Nat, WrapAround
  <2> QED BY <1>1, <2>1, <2>2, <2>3
<1>5. (rx_get + 1) % bufsz = IF rx_get + 1 < bufsz THEN rx_get + 1 ELSE 0
  <2>1. PICK m \in Nat : m = bufsz /\ m > 0
    BY <1>1
  <2>2. PICK x \in Nat : x = rx_get + 1 /\ x < 2 * m
    BY <1>1, <2>1
  <2>3. x % m = IF x < m THEN x ELSE x - m
    BY ONLY <2>1, <2>2, m \in Nat, x \in Nat, WrapAround
  <2> QED BY <1>1, <2>1, <2>2, <2>3
<1>6. /\ buffer' = [buffer EXCEPT ![rx_put] = ch]
      /\ rx_put' = IF rx_put + 1 < bufsz THEN rx_put + 1 ELSE 0
      /\ rx_get' = IF rx_put' # rx_get THEN rx_get
                   ELSE IF rx_get + 1 < bufsz THEN rx_get + 1 ELSE 0
      /\ is_full' = (is_full \/ rx_put' = rx_get)
      /\ expected' = Latest(Append(expected, ch), bufsz - 1)
  BY <1>4, <1>5 DEF IntRx
<1>7. PICK q : q = Append(expected, ch)
  OBVIOUS
<1>8. /\ q \in Seq(Value) /\ Len(q) = n + 1 /\ q[n + 1] = ch
      /\ \A i \in 1 .. n : q[i] = expected[i]
  BY <1>1, <1>2, <1>7, AppendProperties
<1>9. \A i \in 1 .. n + 1 : buffer'[RxPlace(i - 1)] = q[i]
  <2>1. /\ buffer'[RxPlace(n)] = ch
        /\ \A i \in 1 .. n : buffer'[RxPlace(i - 1)] = expected[i]
    BY <1>2, <1>3, <1>6, WritesBehind
  <2> SUFFICES ASSUME NEW i \in 1 .. n + 1 PROVE buffer'[RxPlace(i - 1)] = q[i]
    OBVIOUS
  <2>2. CASE i = n + 1
    BY <1>8, <2>1, <2>2
  <2>3. CASE i \in 1 .. n
    BY <1>8, <2>1, <2>3
  <2> QED BY <2>2, <2>3
<1>10. buffer' \in [0 .. bufsz - 1 -> Value \cup {Nothing}]
  BY <1>1, <1>6
<1>11. is_full' \in BOOLEAN
  BY <1>6
<1>12. CASE n + 1 < bufsz
  <2>1. expected' = q
    BY <1>1, <1>6, <1>7, <1>8, <1>12 DEF Latest
  <2>2. rx_put' # rx_get /\ rx_get' = rx_get /\ rx_put' = RxPlace(n + 1)
    BY <1>1, <1>2, <1>6, <1>12 DEF RxPlace, Round
  <2>3. RxTypeOK'
    BY <1>1, <1>2, <1>6, <1>8, <1>10, <1>11, <2>1, <2>2 DEF RxTypeOK
  <2>4. RecvedLen' = n + 1
    <3>1. (RecvedLen = RxCount)'
      BY <2>3, RxLen, PTL
    <3> QED BY <1>1, <1>2, <1>12, <2>2, <3>1 DEF RxPlace, Round, RxCount
  <2>5. \A k \in Nat : RxPlace(k)' = RxPlace(k)
    BY <2>2 DEF RxPlace, Round
  <2>6. \A i \in 1 .. Len(expected') : buffer'[RxPlace(i - 1)'] = expected'[i]
    BY <1>8, <1>9, <2>1, <2>5
  <2> QED BY <1>8, <2>1, <2>2, <2>3, <2>4, <2>6 DEF RxInv
<1>13. CASE n + 1 = bufsz
  <2>1. rx_put' = rx_get /\ rx_get' = IF rx_get + 1 < bufsz THEN rx_get + 1 ELSE 0
    BY <1>1, <1>2, <1>6, <1>13 DEF RxPlace, Round
  <2>2. expected' = SubSeq(q, 2, n + 1)
    <3>1. Len(q) - (bufsz - 1) + 1 = 2 /\ ~(Len(q) <= bufsz - 1)
      BY <1>1, <1>8, <1>13
    <3> QED BY <1>6, <1>7, <1>8, <3>1 DEF Latest
  <2>3. /\ expected' \in Seq(Value) /\ Len(expected') = n
        /\ \A i \in 1 .. n : expected'[i] = q[i + 1]
    <3>1. 2 \in 1 .. Len(q) + 1 /\ n + 1 \in 1 .. Len(q)
      BY <1>1, <1>8, <1>13
    <3>2. /\ SubSeq(q, 2, n + 1) \in Seq(Value) /\ Len(SubSeq(q, 2, n + 1)) = n
          /\ \A i \in 1 .. n : SubSeq(q, 2, n + 1)[i] = q[i + 1]
      BY <1>1, <1>8, <1>13, <3>1
    <3> QED BY <2>2, <3>2
  <2>4. RxTypeOK'
    BY <1>1, <1>10, <1>11, <2>1, <2>3 DEF RxTypeOK
  <2>5. RecvedLen' = n
    <3>1. (RecvedLen = RxCount)'
      BY <2>4, RxLen, PTL
    <3> QED BY <1>1, <1>2, <1>13, <2>1, <3>1 DEF RxCount
  <2>6. \A i \in 1 .. n : RxPlace(i - 1)' = RxPlace(i)
    BY <1>1, <1>13, <2>1 DEF RxPlace, Round
  <2>7. \A i \in 1 .. Len(expected') : buffer'[RxPlace(i - 1)'] = expected'[i]
    <3> SUFFICES ASSUME NEW i \in 1 .. n PROVE buffer'[RxPlace(i - 1)'] = expected'[i]
      BY <2>3
    <3>1. i + 1 \in 1 .. n + 1 /\ (i + 1) - 1 = i
      OBVIOUS
    <3> QED BY <1>9, <2>3, <2>6, <3>1
  <2>8. rx_put' # rx_get'
    BY <1>1, <2>1
  <2> QED BY <2>3, <2>4, <2>5, <2>7, <2>8 DEF RxInv
<1> QED BY <1>1, <1>3, <1>12, <1>13

\* The m oldest characters are read.
LEMMA ReadsOldest ==
    ASSUME RxInv, kind' = kind, NEW m \in 1 .. Len(expected),
           rx_get' = (rx_get + m) % bufsz, is_full' = FALSE, UNCHANGED <<buffer, rx_put>>,
           expected' = SubSeq(expected, m + 1, Len(expected))
    PROVE  RxInv'
<1>1. /\ bufsz \in Nat /\ bufsz > 1 /\ rx_get \in Nat /\ rx_get < bufsz
      /\ rx_put \in Nat /\ rx_put < bufsz /\ rx_put = RxPlace(Len(expected))
      /\ Len(expected) \in Nat /\ Len(expected) <= bufsz /\ expected \in Seq(Value)
      /\ buffer \in [0 .. bufsz - 1 -> Value \cup {Nothing}]
  BY RxFacts DEF RxTypeOK
<1>2. PICK n \in Nat : n = Len(expected) /\ m \in Nat /\ m > 0 /\ m <= n
  BY <1>1
<1>0. buffer' = buffer /\ rx_put' = rx_put /\ is_full' = FALSE
  OBVIOUS
<1>3. rx_get' = RxPlace(m) /\ rx_get' \in Nat /\ rx_get' < bufsz
  <2>1. m <= bufsz
    BY <1>1, <1>2
  <2> QED BY <1>1, <1>2, <2>1, RxFacts
<1>4. /\ expected' \in Seq(Value) /\ Len(expected') = n - m
      /\ \A i \in 1 .. n - m : expected'[i] = expected[m + i]
  BY <1>1, <1>2
<1>5. RxTypeOK'
  BY <1>0, <1>1, <1>3, <1>4 DEF RxTypeOK
<1>6. RecvedLen' = n - m
  <2>1. (RecvedLen = RxCount)'
    BY <1>5, RxLen, PTL
  <2>2. CASE n = m
    <3>1. rx_put' = rx_get'
      BY <1>0, <1>1, <1>2, <1>3, <2>2
    <3> QED BY <1>0, <1>2, <2>1, <2>2, <3>1 DEF RxCount
  <2>3. CASE m < n
    <3>1. rx_put' = Round(rx_get + n, bufsz) /\ rx_get' = Round(rx_get + m, bufsz)
      BY <1>0, <1>1, <1>2, <1>3 DEF RxPlace
    <3>3. /\ bufsz \in Nat /\ rx_get \in Nat /\ rx_get < bufsz /\ m \in Nat /\ n \in Nat
          /\ m > 0 /\ m < n /\ n <= bufsz
      BY <1>1, <1>2, <2>3
    <3>2. /\ rx_put' # rx_get'
          /\ rx_put' < rx_get' => rx_put' - rx_get' + bufsz = n - m
          /\ rx_put' > rx_get' => rx_put' - rx_get' = n - m
      <4>1. CASE rx_get + m < bufsz
        BY ONLY <3>1, <3>3, <4>1 DEF Round
      <4>2. CASE rx_get + m >= bufsz
        BY ONLY <3>1, <3>3, <4>2 DEF Round
      <4> QED BY <1>1, <1>2, <4>1, <4>2
    <3> QED BY <1>0, <1>1, <1>3, <2>1, <3>2 DEF RxCount
  <2> QED BY <1>2, <2>2, <2>3
<1>7. ASSUME NEW i \in 1 .. n - m PROVE buffer'[RxPlace(i - 1)'] = expected'[i]
  <2>1. RxPlace(i - 1)' = RxPlace(m + i - 1)
    <3>1. i - 1 \in Nat /\ m + (i - 1) < bufsz /\ m + (i - 1) = m + i - 1
      BY <1>1, <1>2
    <3>2. Round(Round(rx_get + m, bufsz) + (i - 1), bufsz) = Round(rx_get + (m + (i - 1)), bufsz)
      <4>1. /\ bufsz \in Nat /\ rx_get \in Nat /\ rx_get < bufsz /\ m \in Nat
        BY <1>1, <1>2
      <4>2. CASE rx_get + m < bufsz
        BY ONLY <3>1, <4>1, <4>2 DEF Round
      <4>3. CASE rx_get + m >= bufsz
        BY ONLY <3>1, <4>1, <4>3 DEF Round
      <4> QED BY <1>1, <1>2, <4>2, <4>3
    <3> QED BY <1>3, <3>1, <3>2 DEF RxPlace
  <2>2. m + i \in 1 .. Len(expected)
    BY <1>2
  <2>3. buffer[RxPlace(m + i - 1)] = expected[m + i]
    BY <2>2 DEF RxInv
  <2> QED BY <1>0, <1>4, <2>1, <2>3
<1> QED BY <1>4, <1>5, <1>6, <1>7 DEF RxInv

LEMMA IntReadStep ==
    ASSUME RxInv, kind' = kind, IntRead
    PROVE  RxInv'
<1>1. /\ Len(expected) \in Nat /\ expected \in Seq(Value) /\ RecvedLen = RxCount
      /\ RecvedLen = Len(expected) /\ bufsz \in Nat /\ bufsz > 1
      /\ rx_put \in Nat /\ rx_get \in Nat /\ rx_put < bufsz /\ rx_get < bufsz
  BY RxFacts, RxLen DEF RxTypeOK
<1>2. Len(expected) > 0
  <2>1. CASE rx_put = rx_get
    BY <1>1, <2>1 DEF RxCount, IntRead
  <2>2. CASE rx_put # rx_get
    BY <1>1, <2>2 DEF RxCount
  <2> QED BY <2>1, <2>2
<1>3. 1 \in 1 .. Len(expected)
  BY <1>1, <1>2
<1>4. expected' = SubSeq(expected, 1 + 1, Len(expected))
  BY <1>1, <1>2 DEF IntRead
<1>5. rx_get' = (rx_get + 1) % bufsz /\ is_full' = FALSE /\ UNCHANGED <<buffer, rx_put>>
  BY DEF IntRead
<1> QED BY <1>3, <1>4, <1>5, ReadsOldest

LEMMA MinOfTwo ==
    ASSUME NEW a \in Int, NEW b \in Int
    PROVE  Min({a, b}) \in {a, b} /\ Min({a, b}) <= a /\ Min({a, b}) <= b
<1>1. \E x \in {a, b} : \A y \in {a, b} : x <= y
  <2>1. CASE a <= b
    BY <2>1
  <2>2. CASE b <= a
    BY <2>2
  <2> QED BY <2>1, <2>2
<1>2. /\ Min({a, b}) \in {a, b}
      /\ \A y \in {a, b} : Min({a, b}) <= y
  BY <1>1 DEF Min
<1> QED BY <1>2

LEMMA DmaReadStep ==
    ASSUME RxInv, kind' = kind, NEW length \in 1 .. bufsz, DmaRead(length)
    PROVE  RxInv'
<1>1. Len(expected) \in Nat /\ Len(expected) = RecvedLen /\ bufsz \in Nat
  BY RxFacts
<1>2. PICK m : m = Min({length, RecvedLen})
  OBVIOUS
<1>3. m \in 1 .. Len(expected)
  <2>1. m \in {length, RecvedLen} /\ m <= RecvedLen
    <3>1. length \in Int /\ RecvedLen \in Int
      BY <1>1
    <3> QED BY <1>2, <3>1, MinOfTwo
  <2> QED BY <1>1, <1>2, <2>1 DEF DmaRead
<1>4. /\ rx_get' = (rx_get + m) % bufsz /\ is_full' = FALSE /\ UNCHANGED <<buffer, rx_put>>
      /\ expected' = SubSeq(expected, m + 1, Len(expected))
  BY <1>2 DEF DmaRead
<1> QED BY <1>3, <1>4, ReadsOldest

\* The DMA writes from rx_put on, and nothing else.
LEMMA DmaWrites ==
    ASSUME RxInv, NEW n \in 1 .. bufsz, NEW chars \in [1 .. n -> Value], DmaRx(chars),
           NEW d \in 0 .. bufsz - 1
    PROVE  LET p == Round(rx_put + d, bufsz)
           IN  p \in 0 .. bufsz - 1 /\ buffer'[p] = IF d < n THEN chars[d + 1] ELSE buffer[p]
<1>1. PICK b \in Nat : b = bufsz /\ b > 0
  BY RxFacts
<1>2. PICK u \in Nat : u = rx_put /\ u < b
  BY <1>1, RxFacts DEF RxTypeOK
<1>3. PICK p \in Int : p = Round(rx_put + d, bufsz)
  <2>1. d \in Int /\ d >= 0 /\ d < b
    BY <1>1
  <2>2. Round(u + d, b) \in Int
    BY <2>1 DEF Round
  <2> QED BY <1>1, <1>2, <2>2
<1>4. p \in 0 .. b - 1 /\ -b < p - u /\ p - u < b
  BY <1>1, <1>2, <1>3 DEF Round
<1>5. (p - u) % b = IF p - u < 0 THEN p - u + b ELSE p - u
  <2>1. PICK x \in Int : x = p - u
    OBVIOUS
  <2>2. b > 0 /\ -b < x /\ x < b
    BY <1>1, <1>4, <2>1
  <2>3. x % b = IF x < 0 THEN x + b ELSE x
    BY ONLY <2>2, b \in Nat, x \in Int, WrapBack
  <2> QED BY <2>1, <2>3
<1>6. (p - u) % b = d
  BY <1>1, <1>2, <1>3, <1>5 DEF Round
<1>7. Len(chars) = n
  OBVIOUS
<1>8. buffer'[p] = LET k == ((p - rx_put) % bufsz) + 1
                   IN  IF k <= Len(chars) THEN chars[k] ELSE buffer[p]
  BY <1>1, <1>4 DEF DmaRx
<1>9. buffer'[p] = IF d + 1 <= n THEN chars[d + 1] ELSE buffer[p]
  BY <1>1, <1>2, <1>6, <1>7, <1>8
<1>10. d + 1 <= n <=> d < n
  OBVIOUS
<1> QED BY <1>1, <1>3, <1>4, <1>9, <1>10

\* The DMA overtakes the reader exactly when there is no room for what it writes.
LEMMA DmaFills ==
    ASSUME RxInv, kind = "dma_rx", NEW n \in 1 .. bufsz
    PROVE  \/ is_full
           \/ rx_get <= rx_put /\ rx_put + n >= bufsz /\ (rx_put + n) % bufsz >= rx_get
           \/ rx_get > rx_put /\ rx_put + n >= rx_get
           <=> Len(expected) + n >= bufsz
<1>1. /\ bufsz \in Nat /\ rx_get \in Nat /\ rx_get < bufsz /\ rx_put \in Nat /\ rx_put < bufsz
      /\ Len(expected) = RxCount /\ is_full \in BOOLEAN
  BY RxFacts, RxLen DEF RxTypeOK
<1>2. (rx_put + n) % bufsz = Round(rx_put + n, bufsz)
  <2>1. PICK b \in Nat : b = bufsz /\ b > 0
    BY <1>1
  <2>2. PICK x \in Nat : x = rx_put + n /\ x < 2 * b
    BY <1>1, <2>1
  <2>3. x % b = IF x < b THEN x ELSE x - b
    BY ONLY <2>1, <2>2, b \in Nat, x \in Nat, WrapAround
  <2> QED BY <2>1, <2>2, <2>3 DEF Round
<1>3. CASE rx_put = rx_get /\ is_full
  BY <1>1, <1>3 DEF RxCount
<1>4. CASE rx_put = rx_get /\ ~is_full
  BY <1>1, <1>2, <1>4 DEF RxCount, Round
<1>5. CASE rx_put # rx_get
  <2>1. ~is_full
    BY <1>5 DEF RxInv
  <2>2. CASE rx_put < rx_get
    BY <1>1, <2>1, <2>2 DEF RxCount
  <2>3. CASE rx_put > rx_get
    BY <1>1, <1>2, <2>1, <2>3 DEF RxCount, Round
  <2> QED BY <1>1, <1>5, <2>2, <2>3
<1> QED BY <1>3, <1>4, <1>5

\* A block of characters from the DMA: the oldest ones go when there is no room for it.
LEMMA DmaRxStep ==
    ASSUME RxInv, kind = "dma_rx", kind' = kind,
           NEW n \in 1 .. bufsz, NEW chars \in [1 .. n -> Value], DmaRx(chars)
    PROVE  RxInv'
<1>1. /\ bufsz \in Nat /\ bufsz > 1 /\ rx_get \in Nat /\ rx_get < bufsz
      /\ rx_put \in Nat /\ rx_put < bufsz /\ rx_put = RxPlace(Len(expected))
      /\ Len(expected) \in Nat /\ Len(expected) <= bufsz /\ expected \in Seq(Value)
      /\ buffer \in [0 .. bufsz - 1 -> Value \cup {Nothing}]
  BY RxFacts DEF RxTypeOK
<1>2. PICK l \in Nat : l = Len(expected)
  BY <1>1
<1>3. n \in Nat /\ n > 0 /\ n <= bufsz /\ l <= bufsz
  BY <1>1, <1>2
<1>4. /\ rx_put' = Round(rx_put + n, bufsz)
      /\ rx_get' = IF l + n >= bufsz THEN Round(rx_put + n, bufsz) ELSE rx_get
      /\ is_full' = IF l + n >= bufsz THEN TRUE ELSE FALSE
      /\ expected' = Latest(expected \o chars, bufsz)
  <2>1. chars \in Seq(Value) /\ Len(chars) = n
    OBVIOUS
  <2>2. (rx_put + n) % bufsz = Round(rx_put + n, bufsz)
    <3>1. PICK b \in Nat : b = bufsz /\ b > 0
      BY <1>1
    <3>2. PICK x \in Nat : x = rx_put + n /\ x < 2 * b
      BY <1>1, <1>3, <3>1
    <3>3. x % b = IF x < b THEN x ELSE x - b
      BY ONLY <3>1, <3>2, b \in Nat, x \in Nat, WrapAround
    <3> QED BY <3>1, <3>2, <3>3 DEF Round
  <2>3. PICK full \in BOOLEAN :
          full = (\/ is_full
                  \/ rx_get <= rx_put /\ rx_put + n >= bufsz /\ (rx_put + n) % bufsz >= rx_get
                  \/ rx_get > rx_put /\ rx_put + n >= rx_get)
    OBVIOUS
  <2>4. full <=> l + n >= bufsz
    BY <1>2, <2>3, DmaFills
  <2>5. /\ rx_put' = (rx_put + n) % bufsz
        /\ rx_get' = IF full THEN (rx_put + n) % bufsz ELSE rx_get
        /\ is_full' = full
        /\ expected' = Latest(expected \o chars, bufsz)
    BY <2>1, <2>3 DEF DmaRx
  <2> QED BY <2>2, <2>4, <2>5
<1>5. PICK q : q = expected \o chars
  OBVIOUS
<1>6. /\ q \in Seq(Value) /\ Len(q) = l + n
      /\ \A i \in 1 .. l : q[i] = expected[i]
      /\ \A i \in 1 .. n : q[l + i] = chars[i]
  <2>1. chars \in Seq(Value) /\ Len(chars) = n
    OBVIOUS
  <2>2. /\ q \in Seq(Value) /\ Len(q) = l + n
        /\ \A i \in 1 .. l + n : q[i] = IF i <= l THEN expected[i] ELSE chars[i - l]
    BY <1>1, <1>2, <1>5, <2>1, ConcatProperties
  <2>3. \A i \in 1 .. l : i \in 1 .. l + n /\ i <= l
    BY <1>3
  <2>4. \A i \in 1 .. n : l + i \in 1 .. l + n /\ ~(l + i <= l) /\ l + i - l = i
    BY <1>3
  <2> QED BY <2>2, <2>3, <2>4
<1>7. ASSUME NEW i \in 1 .. l, i > l + n - bufsz
      PROVE  buffer'[RxPlace(i - 1)] = q[i]
  <2>0. i \in Nat /\ i >= 1 /\ i <= l /\ bufsz \in Nat /\ bufsz >= l
    BY <1>1, <1>3
  <2>1. PICK d \in Nat : d = bufsz - l + i - 1
    BY ONLY <2>0, l \in Nat
  <2>2. d \in 0 .. bufsz - 1 /\ ~(d < n)
    BY <1>1, <1>2, <1>3, <1>7, <2>1
  <2>3. Round(rx_put + d, bufsz) = RxPlace(i - 1)
    <3>1. rx_put = Round(rx_get + l, bufsz) /\ rx_get \in Nat /\ rx_get < bufsz
      BY <1>1, <1>2 DEF RxPlace
    <3>2. CASE rx_get + l < bufsz
      BY ONLY <2>0, <2>1, <3>1, <3>2, l \in Nat DEF RxPlace, Round
    <3>3. CASE rx_get + l >= bufsz
      BY ONLY <2>0, <2>1, <3>1, <3>3, l \in Nat DEF RxPlace, Round
    <3> QED BY <2>0, <3>1, <3>2, <3>3
  <2>4. buffer'[RxPlace(i - 1)] = buffer[RxPlace(i - 1)]
    BY <2>2, <2>3, DmaWrites
  <2> QED BY <1>2, <1>6, <2>4 DEF RxInv
<1>8. ASSUME NEW i \in 1 .. n
      PROVE  buffer'[Round(rx_put + (i - 1), bufsz)] = q[l + i]
  <2>1. i - 1 \in 0 .. bufsz - 1 /\ i - 1 < n /\ (i - 1) + 1 = i
    BY <1>1, <1>3
  <2>2. buffer'[Round(rx_put + (i - 1), bufsz)] = chars[(i - 1) + 1]
    BY <2>1, DmaWrites
  <2> QED BY <1>6, <2>1, <2>2
<1>9. buffer' \in [0 .. bufsz - 1 -> Value \cup {Nothing}]
  <2>1. buffer' = [i \in 0 .. bufsz - 1 |-> buffer'[i]]
    BY DEF DmaRx
  <2>2. ASSUME NEW i \in 0 .. bufsz - 1 PROVE buffer'[i] \in Value \cup {Nothing}
    <3>1. PICK k \in Int : k = ((i - rx_put) % bufsz) + 1 /\ k >= 1
      BY <1>1
    <3>2. buffer'[i] = IF k <= Len(chars) THEN chars[k] ELSE buffer[i]
      BY <3>1 DEF DmaRx
    <3>3. Len(chars) = n
      OBVIOUS
    <3>4. CASE k <= n
      BY <3>1, <3>2, <3>3, <3>4
    <3>5. CASE k > n
      BY <1>1, <3>2, <3>3, <3>5
    <3> QED BY <1>3, <3>4, <3>5
  <2> QED BY <2>1, <2>2
<1>10. rx_put' \in Nat /\ rx_put' < bufsz /\ rx_get' \in Nat /\ rx_get' < bufsz
  BY <1>1, <1>3, <1>4 DEF Round
<1>11. CASE l + n < bufsz
  <2>1. expected' = q /\ rx_get' = rx_get /\ is_full' = FALSE
    <3>1. ~(l + n >= bufsz) /\ Len(q) <= bufsz
      BY <1>1, <1>3, <1>6, <1>11
    <3>2. Latest(q, bufsz) = q
      BY <3>1 DEF Latest
    <3>3. expected' = Latest(q, bufsz)
      BY <1>4, <1>5
    <3>4. rx_get' = rx_get
      BY <1>4, <3>1
    <3>5. is_full' = FALSE
      BY <1>4, <3>1
    <3> QED BY <3>2, <3>3, <3>4, <3>5
  <2>2. RxTypeOK'
    BY <1>6, <1>9, <1>10, <2>1 DEF RxTypeOK
  <2>3. rx_put' = RxPlace(l + n)
    BY <1>1, <1>2, <1>3, <1>4, <1>11 DEF RxPlace, Round
  <2>4. RecvedLen' = l + n
    <3>1. (RecvedLen = RxCount)'
      BY <2>2, RxLen, PTL
    <3> QED BY <1>1, <1>3, <1>11, <2>1, <2>3, <3>1 DEF RxPlace, RxCount, Round
  <2>5. ASSUME NEW i \in 1 .. l + n PROVE buffer'[RxPlace(i - 1)'] = expected'[i]
    <3>1. RxPlace(i - 1)' = RxPlace(i - 1)
      BY <2>1 DEF RxPlace
    <3>2. CASE i \in 1 .. l
      <4>1. i > l + n - bufsz
        BY <1>1, <1>3, <1>11, <3>2
      <4> QED BY <1>7, <2>1, <3>1, <3>2, <4>1
    <3>3. CASE i > l
      <4>1. PICK k \in 1 .. n : i = l + k
        BY <1>3, <3>3
      <4>2. Round(rx_put + (k - 1), bufsz) = RxPlace(i - 1)
        BY <1>1, <1>2, <1>3, <1>11, <4>1 DEF RxPlace, Round
      <4> QED BY <1>8, <2>1, <3>1, <4>1, <4>2
    <3> QED BY <3>2, <3>3
  <2> QED BY <1>6, <2>1, <2>2, <2>4, <2>5 DEF RxInv
<1>12. CASE l + n >= bufsz
  <2>1. PICK c \in Nat : c = l + n - bufsz
    BY <1>1, <1>3, <1>12
  <2>2. rx_get' = rx_put' /\ is_full' = TRUE
    BY <1>4, <1>12
  <2>3. /\ expected' \in Seq(Value) /\ Len(expected') = bufsz
        /\ \A i \in 1 .. bufsz : expected'[i] = q[c + i]
    <3>1. CASE l + n = bufsz
      <4>1. expected' = q /\ c = 0
        BY <1>1, <1>4, <1>5, <1>6, <2>1, <3>1 DEF Latest
      <4> QED BY <1>6, <3>1, <4>1
    <3>2. CASE l + n > bufsz
      <4>1. expected' = SubSeq(q, c + 1, l + n) /\ l + n = c + bufsz
        <5>1. Len(q) = l + n /\ expected' = Latest(q, bufsz) /\ bufsz \in Nat
          BY <1>1, <1>4, <1>5, <1>6
        <5>2. l + n = c + bufsz /\ (l + n) - bufsz + 1 = c + 1 /\ ~(l + n <= bufsz)
          BY ONLY <2>1, <3>2, <5>1, l \in Nat, n \in Nat, c \in Nat
        <5> QED BY ONLY <5>1, <5>2 DEF Latest
      <4>2. PICK m \in Int : m = l + n
        OBVIOUS
      <4>3. /\ SubSeq(q, c + 1, l + n) \in Seq(Value)
            /\ Len(SubSeq(q, c + 1, l + n)) = l + n - (c + 1) + 1
            /\ \A i \in 1 .. l + n - (c + 1) + 1 : SubSeq(q, c + 1, l + n)[i] = q[c + 1 + i - 1]
        <5>1. bufsz \in Nat /\ bufsz > 0
          BY <1>1
        <5>2. PICK b \in Int : b = c + 1
          OBVIOUS
        <5>3. b >= 1 /\ b <= m
          BY ONLY <4>1, <4>2, <5>1, <5>2, c \in Nat, b \in Int, m \in Int
        <5>4. \A i \in b .. m : q[i] \in Value
          <6>1. \A i \in 1 .. m : q[i] \in Value
            BY ONLY <1>6, <4>2
          <6>2. \A i \in b .. m : i \in 1 .. m
            BY ONLY <5>3, b \in Int, m \in Int
          <6> QED BY ONLY <6>1, <6>2
        <5>5. /\ SubSeq(q, b, m) \in Seq(Value)
              /\ Len(SubSeq(q, b, m)) = m - b + 1
              /\ \A i \in 1 .. m - b + 1 : SubSeq(q, b, m)[i] = q[b + i - 1]
          BY ONLY <5>3, <5>4, b \in Int, m \in Int, SubSeqProperties
        <5> QED BY ONLY <4>2, <5>2, <5>5
      <4>4. l + n - (c + 1) + 1 = bufsz /\ \A i \in 1 .. bufsz : c + 1 + i - 1 = c + i
        BY <1>1, <4>1
      <4>5. /\ expected' \in Seq(Value) /\ Len(expected') = bufsz
            /\ \A i \in 1 .. bufsz : expected'[i] = q[c + 1 + i - 1]
        BY <4>1, <4>3, <4>4
      <4> QED BY <4>4, <4>5
    <3>3. l + n = bufsz \/ l + n > bufsz
      BY <1>1, <1>3, <1>12
    <3> QED BY <3>1, <3>2, <3>3
  <2>4. RxTypeOK'
    BY <1>9, <1>10, <2>2, <2>3 DEF RxTypeOK
  <2>5. RecvedLen' = bufsz
    BY <2>2 DEF RecvedLen
  <2>6. ASSUME NEW i \in 1 .. bufsz PROVE buffer'[RxPlace(i - 1)'] = q[c + i]
    <3>1. RxPlace(i - 1)' = Round(Round(rx_put + n, bufsz) + (i - 1), bufsz)
      BY <1>4, <1>12 DEF RxPlace
    <3>2. CASE c + i <= l
      <4>1. PICK j \in 1 .. l : j = c + i
        BY <1>2, <2>1, <3>2
      <4>2. RxPlace(i - 1)' = RxPlace(j - 1)
        BY <1>1, <1>2, <1>3, <2>1, <3>1, <3>2, <4>1 DEF RxPlace, Round
      <4> QED BY <1>1, <1>3, <1>7, <2>1, <4>1, <4>2
    <3>3. CASE c + i > l
      <4>1. PICK k \in 1 .. n : c + i = l + k
        BY <1>1, <1>3, <2>1, <3>3
      <4>2. RxPlace(i - 1)' = Round(rx_put + (k - 1), bufsz)
        BY <1>1, <1>3, <2>1, <3>1, <4>1 DEF Round
      <4> QED BY <1>8, <4>1, <4>2
    <3> QED BY <1>3, <2>1, <3>2, <3>3
  <2> QED BY <2>2, <2>3, <2>4, <2>5, <2>6 DEF RxInv
<1> QED BY <1>1, <1>3, <1>11, <1>12

-----------------------------------------------------------------------------
(* The serial device, and all the other objects, which leave its ring alone. *)

LEMMA RxUnchanged == RxInv /\ UNCHANGED <<kind, rxVars>> => RxInv'
<1> SUFFICES ASSUME RxInv, UNCHANGED <<kind, rxVars>> PROVE RxInv'
  OBVIOUS
<1>1. /\ kind' = kind /\ buffer' = buffer /\ rx_put' = rx_put /\ rx_get' = rx_get
      /\ is_full' = is_full /\ expected' = expected
  BY DEF rxVars
<1>2. RxTypeOK' /\ RecvedLen' = RecvedLen /\ \A k : RxPlace(k)' = RxPlace(k)
  BY <1>1 DEF RxTypeOK, RecvedLen, RxPlace, RxInv
<1> QED BY <1>1, <1>2 DEF RxInv

LEMMA RxStep == RxInv /\ [Next]_vars => RxInv'
<1> SUFFICES ASSUME RxInv, [Next]_vars PROVE RxInv'
  OBVIOUS
<1>1. CASE UNCHANGED vars
  BY <1>1, RxUnchanged DEF vars
<1>2. CASE Next
  <2>1. \/ UNCHANGED rxVars
        \/ kind = "int_rx" /\ IntRxNext
        \/ kind = "dma_rx" /\ DmaRxNext
    BY <1>2 DEF Next
  <2>2. kind' = kind
    BY <1>2 DEF Next
  <2>3. CASE UNCHANGED rxVars
    BY <2>2, <2>3, RxUnchanged
  <2>4. CASE kind = "int_rx" /\ IntRxNext
    BY <2>2, <2>4, IntRxStep, IntReadStep DEF IntRxNext
  <2>5. CASE kind = "dma_rx" /\ DmaRxNext
    BY <2>2, <2>5, DmaRxStep, DmaReadStep DEF DmaRxNext
  <2> QED BY <2>1, <2>3, <2>4, <2>5
<1> QED BY <1>1, <1>2

\* The characters between the indices of a serial device are the latest ones that
\* arrived and that were not read, in their order, however the receive interrupt, one
\* character at a time or a block of DMA at once, and the readers overtake each other
\* round the ring (rt_hw_serial_isr, _serial_int_rx, _serial_dma_rx).
THEOREM ReceiveCorrect == Spec => []RxKeepsLatest
<1>1. Init => RxInv
  BY RxStarts DEF Init
<1> QED BY <1>1, RxStep, RxSays, PTL DEF Spec

-----------------------------------------------------------------------------
(* What a step of a call does to the lists and to who has been woken, for   *)
(* the other objects.                                                       *)

WaitSteps == ReceiverSteps \cup SenderSteps
StepsAt(l) == IF l = Receivers THEN ReceiverSteps ELSE SenderSteps

\* t, which is on no list, is put on l.
Joins(t, l, step, arg) ==
    /\ WaitInv' /\ UNCHANGED object
    /\ pc'[t].at = step /\ pc'[t].arg = arg
    /\ \A u \in Thread \ {t} : pc'[u] = pc[u]
    /\ Waiting(l)' = Waiting(l) \cup {t}
    /\ \A m \in List \ {l} : Waiting(m)' = Waiting(m)
    /\ \A x \in WaitSteps : Arriving(x)' = Arriving(x) \ {t}

\* t goes on, or an interrupt handler runs (t is Nothing), and nobody is woken.
Goes(t) ==
    /\ WaitInv' /\ UNCHANGED object
    /\ \A u \in Thread \ {t} : pc'[u] = pc[u]
    /\ \A m \in List : Waiting(m)' = Waiting(m)
    /\ \A x \in WaitSteps : Arriving(x)' = Arriving(x) \ {t}

\* The same, and the first waiter of l is woken, if there is one.
Wakes(t, l) ==
    /\ WaitInv' /\ UNCHANGED object
    /\ \A u \in Thread \ {t} : pc'[u] = pc[u]
    /\ \A m \in List \ {l} : Waiting(m)' = Waiting(m)
    /\ \/ /\ Waiting(l) = {} /\ Waiting(l)' = {}
          /\ \A x \in WaitSteps : Arriving(x)' = Arriving(x) \ {t}
       \/ \E h \in Waiting(l) :
             /\ Waiting(l)' = Waiting(l) \ {h} /\ h # t
             /\ \A x \in WaitSteps :
                   /\ h \notin Arriving(x)
                   /\ Arriving(x)' = (Arriving(x) \ {t}) \cup
                                     IF pc[h].at = x THEN {h} ELSE {}

LEMMA WaitJoins ==
    ASSUME WaitInv, NEW t \in Thread, t \notin Waiters, NEW l \in List,
           NEW step \in StepsAt(l), pc[t].at \in WaitSteps => pc[t].at = step,
           NEW arg \in Args, NEW timeout \in Timeouts,
           NEW list, list \in {ListSuspend(t, l), Enqueue(suspended[l], t)},
           Wait(t, l, list, step, arg, timeout), UNCHANGED object
    PROVE  Joins(t, l, step, arg)
<1>1. t \notin Waiting(l)
  BY WaitersAre DEF List
<1>2. /\ ListSuspend(t, l) \in Seq(Thread) /\ IsInjective(ListSuspend(t, l))
      /\ ToSet(ListSuspend(t, l)) = Waiting(l) \cup {t}
  BY <1>1, ListSuspendElements DEF WaitInv
<1>3. /\ Enqueue(suspended[l], t) \in Seq(Thread) /\ IsInjective(Enqueue(suspended[l], t))
      /\ ToSet(Enqueue(suspended[l], t)) = Waiting(l) \cup {t}
  <2>1. PICK q \in Seq(Thread) : q = suspended[l]
    BY DEF WaitInv, ListsOK
  <2>2. IsInjective(q) /\ t \notin ToSet(q) /\ ToSet(q) = Waiting(l)
    BY <1>1, <2>1 DEF WaitInv, ListsOK, List, Waiting
  <2>3. /\ Enqueue(q, t) \in Seq(Thread) /\ IsInjective(Enqueue(q, t))
        /\ ToSet(Enqueue(q, t)) = ToSet(q) \cup {t}
    BY ONLY <2>2, q \in Seq(Thread), t \in Thread, EnqueueElements
  <2> QED BY <2>1, <2>2, <2>3
<1>4. PICK q \in Seq(Thread) : q = list /\ IsInjective(q) /\ ToSet(q) = Waiting(l) \cup {t}
  BY <1>2, <1>3
<1>5. Wait(t, l, q, step, arg, timeout)
  BY <1>4
<1>6. step \in IF l = Receivers THEN ReceiverSteps ELSE SenderSteps
  BY DEF StepsAt
<1>7. /\ WaitInv' /\ Waiters' = Waiters \cup {t} /\ Enters(t, l)
      /\ pc'[t].at = step /\ pc'[t].arg = arg
      /\ \A u \in Thread \ {t} : pc'[u] = pc[u] /\ error'[u] = error[u]
  BY <1>4, <1>5, <1>6, WaitKeeps
<1>8. /\ Waiting(l)' = Waiting(l) \cup {t}
      /\ \A m \in List \ {l} : Waiting(m)' = Waiting(m)
  BY <1>7 DEF Enters, Waiting
<1>9. \A x \in WaitSteps : Arriving(x)' = Arriving(x) \ {t}
  BY <1>7 DEF Arriving
<1> QED BY <1>7, <1>8, <1>9 DEF Joins

LEMMA CallGoes ==
    ASSUME WaitInv, NEW t \in Thread, t \notin Waiters, NEW step \in BusySteps \cup {"run"},
           NEW arg \in Args,
           error' = [error EXCEPT ![t] = "ok"],
           pc' = [pc EXCEPT ![t] = [at |-> step, timeout |-> "none", arg |-> arg]],
           UNCHANGED <<suspended, timed, object>>
    PROVE  Goes(t) /\ pc'[t].at = step /\ pc'[t].arg = arg
<1>1. step \in Steps /\ step \notin {"test", "resume"} /\ step \notin WaitSteps
  BY DEF Steps, ReceiverSteps, SenderSteps, BusySteps, WaitSteps
<1>2. object' \in {"live", "locked", "detaching", "gone"} /\ UNCHANGED <<suspended, timed>>
  BY DEF WaitInv, PcOK
<1>3. /\ WaitInv' /\ pc'[t].at = step /\ pc'[t].arg = arg
      /\ \A u \in Thread \ {t} : pc'[u] = pc[u] /\ error'[u] = error[u]
      /\ Waiters' = Waiters
  BY <1>1, <1>2, GoesKeeps
<1>4. \A x \in WaitSteps : Arriving(x)' = Arriving(x) \ {t}
  BY <1>1, <1>3 DEF Arriving
<1>5. \A m \in List : Waiting(m)' = Waiting(m)
  BY DEF Waiting
<1> QED BY <1>3, <1>4, <1>5 DEF Goes

LEMMA CallWakes ==
    ASSUME WaitInv, NEW t \in Thread, t \notin Waiters, NEW step \in BusySteps \cup {"run"},
           NEW arg \in Args, NEW l \in List, ResumeIfAny(l), UNCHANGED object,
           error' = [error EXCEPT ![t] = "ok"],
           pc' = [pc EXCEPT ![t] = [at |-> step, timeout |-> "none", arg |-> arg]]
    PROVE  Wakes(t, l) /\ pc'[t].at = step /\ pc'[t].arg = arg
<1>1. t \notin Waiting(l)
  BY WaitersAre DEF List
<1>2. /\ WaitInv' /\ pc'[t].at = step /\ pc'[t].arg = arg
      /\ \A u \in Thread \ {t} : pc'[u] = pc[u]
      /\ \A m \in List \ {l} : Waiting(m)' = Waiting(m)
      /\ \/ /\ Waiting(l) = {} /\ Waiting(l)' = {}
            /\ \A x \in ReceiverSteps \cup SenderSteps : Arriving(x)' = Arriving(x) \ {t}
         \/ \E h \in Waiting(l) :
               /\ Waiting(l)' = Waiting(l) \ {h}
               /\ \A x \in ReceiverSteps \cup SenderSteps :
                     /\ h \notin Arriving(x)
                     /\ Arriving(x)' = (Arriving(x) \ {t}) \cup
                                       IF pc[h].at = x THEN {h} ELSE {}
  BY ResumeGoes
<1>3. \A h \in Waiting(l) : h # t
  BY <1>1
<1> QED BY <1>2, <1>3 DEF Wakes, WaitSteps

\* An interrupt handler.
LEMMA HandlerGoes ==
    ASSUME WaitInv, UNCHANGED <<suspended, timed, error, pc, object>>
    PROVE  Goes(Nothing) /\ pc' = pc
<1>1. \A x : Nothing \notin Arriving(x)
  BY IpcAssumption DEF Arriving
<1>2. /\ WaitInv' /\ \A m \in List : Waiting(m)' = Waiting(m)
      /\ \A x : Arriving(x)' = Arriving(x)
  BY DEF WaitInv, ListsOK, PcOK, WaitOK, Arriving, Waiters, Waiting
<1> QED BY <1>1, <1>2 DEF Goes

LEMMA HandlerWakes ==
    ASSUME WaitInv, NEW l \in List, ResumeIfAny(l), UNCHANGED <<error, pc, object>>
    PROVE  Wakes(Nothing, l) /\ pc' = pc
<1>1. Nothing \notin Thread
  BY IpcAssumption
<1>2. CASE suspended[l] = <<>>
  <2>1. UNCHANGED <<suspended, timed>>
    BY <1>2 DEF ResumeIfAny
  <2>2. /\ WaitInv' /\ \A m \in List : Waiting(m)' = Waiting(m)
        /\ \A x : Arriving(x)' = Arriving(x)
    BY <2>1 DEF WaitInv, ListsOK, PcOK, WaitOK, Arriving, Waiters, Waiting
  <2>3. Waiting(l) = {}
    BY <1>2, EmptyList
  <2>4. \A x : Nothing \notin Arriving(x)
    BY <1>1 DEF Arriving
  <2> QED BY <2>2, <2>3, <2>4 DEF Wakes
<1>3. CASE suspended[l] # <<>>
  <2>1. ListResume(l)
    BY <1>3 DEF ResumeIfAny
  <2>2. WaitInv'
    BY <1>3, <2>1, ResumeWakes
  <2>3. PICK h \in Waiting(l) :
           /\ Leaves(h, l) /\ h \in Thread /\ \A x : h \notin Arriving(x)
           /\ \A x : Arriving(x)' = Arriving(x) \cup IF pc[h].at = x THEN {h} ELSE {}
    BY <1>3, <2>1, ResumeWakes
  <2>4. \A x : Nothing \notin Arriving(x)
    BY <1>1 DEF Arriving
  <2>5. /\ Waiting(l)' = Waiting(l) \ {h} /\ h # Nothing
        /\ \A m \in List \ {l} : Waiting(m)' = Waiting(m)
    BY <1>1, <2>3 DEF Leaves, Waiting
  <2> QED BY <2>2, <2>3, <2>4, <2>5 DEF Wakes
<1> QED BY <1>2, <1>3

\* Of those who wait for x on l one more has been woken, but for t if t was one.
LEMMA WakesCounts ==
    ASSUME NEW t, NEW l \in List, Wakes(t, l), NEW x \in WaitSteps,
           \A u \in Waiting(l) : pc[u].at = x, Waiting(l)' # {}
    PROVE  Cardinality(Arriving(x)') = Cardinality(Arriving(x)) + IF t \in Arriving(x) THEN 0 ELSE 1
<1>1. PICK h \in Waiting(l) :
         h # t /\ h \notin Arriving(x) /\ Arriving(x)' = (Arriving(x) \ {t}) \cup {h}
  BY DEF Wakes
<1>2. PICK A, B : A = Arriving(x) /\ B = Arriving(x)'
  OBVIOUS
<1>3. IsFiniteSet(A) /\ h \notin A /\ h # t /\ B = (A \ {t}) \cup {h}
  BY <1>1, <1>2, ArrivingFinite
<1>4. Cardinality(B) = Cardinality(A) + IF t \in A THEN 0 ELSE 1
  BY ONLY <1>3, CountWoken
<1> QED BY <1>2, <1>4

\* The others are counted as before, but for t.
LEMMA GoneCounts ==
    ASSUME NEW t, NEW x, Arriving(x)' = Arriving(x) \ {t}
    PROVE  /\ Cardinality(Arriving(x)') =
                 Cardinality(Arriving(x)) - IF t \in Arriving(x) THEN 1 ELSE 0
           /\ Cardinality(Arriving(x)) \in Nat /\ Cardinality(Arriving(x)') \in Nat
<1>1. PICK A, B : A = Arriving(x) /\ B = Arriving(x)'
  OBVIOUS
<1>2. IsFiniteSet(A) /\ B = A \ {t}
  BY <1>1, ArrivingFinite
<1>3. /\ Cardinality(B) \in Nat /\ Cardinality(A) \in Nat
      /\ Cardinality(B) = Cardinality(A) - IF t \in A THEN 1 ELSE 0
  BY ONLY <1>2, CountGone
<1> QED BY <1>1, <1>3

-----------------------------------------------------------------------------
(* The ring of a data queue, as long as no index has wrapped.               *)

LEMMA DivMod ==
    ASSUME NEW n \in Nat, n > 0, NEW a \in Nat
    PROVE  a = n * (a \div n) + (a % n) /\ (a % n) \in 0 .. n - 1 /\ a \div n \in Nat
OBVIOUS

LEMMA NoMultiple ==
    ASSUME NEW n \in Int, n > 0, NEW p \in Int, NEW q \in Int,
           0 < n * p - n * q, n * p - n * q < n
    PROVE  FALSE
<1>1. n * (p - q) > 0 /\ n * (p - q) < n
  OBVIOUS
<1>2. CASE p - q >= 1
  BY <1>1, <1>2
<1>3. CASE p - q <= 0
  BY <1>1, <1>3
<1> QED BY <1>2, <1>3

\* Less than n apart, two indices have different places in a ring of n.
LEMMA PlacesDiffer ==
    ASSUME NEW n \in Nat, n > 0, NEW a \in Nat, NEW b \in Nat, a < b, b < a + n
    PROVE  a % n # b % n
<1> SUFFICES ASSUME a % n = b % n PROVE FALSE
  OBVIOUS
<1>1. PICK p \in Int : p = a \div n
  BY DivMod
<1>2. PICK q \in Int : q = b \div n
  BY DivMod
<1>3. PICK r \in Int : r = a % n
  BY DivMod
<1>4. a = n * p + r
  BY ONLY <1>1, <1>3, DivMod, n \in Nat, n > 0, a \in Nat
<1>5. b = n * q + r
  <2>1. r = b % n
    BY <1>3
  <2> QED BY ONLY <1>2, <2>1, DivMod, n \in Nat, n > 0, b \in Nat
<1>6. PICK x \in Int : x = n * p
  OBVIOUS
<1>7. PICK y \in Int : y = n * q
  OBVIOUS
<1>8. 0 < y - x /\ y - x < n
  BY ONLY <1>4, <1>5, <1>6, <1>7, a < b, b < a + n, a \in Nat, b \in Nat, n \in Nat,
          r \in Int, x \in Int, y \in Int
<1>9. 0 < n * q - n * p /\ n * q - n * p < n
  BY <1>6, <1>7, <1>8
<1> QED BY ONLY <1>9, NoMultiple, n \in Nat, n > 0, p \in Int, q \in Int

DqOrder ==
    /\ get_index \in Nat /\ put_index \in Nat
    /\ get_index <= put_index /\ put_index <= MaxPut + 1 /\ put_index <= get_index + DqSize
    /\ ring \in [0 .. DqSize - 1 -> Value \cup {Nothing}]
    /\ \A k \in Nat : get_index <= k /\ k < put_index => ring[k % DqSize] \in Value

\* No index has wrapped.
Early == MaxPut + 1 < IndexRange

LEMMA DqFacts ==
    ASSUME DqOrder, Early
    PROVE  /\ DqSize \in Nat /\ DqSize > 0 /\ IndexRange \in Nat /\ IndexRange > 0
           /\ MaxPut \in Nat /\ MaxPut + 1 < IndexRange
           /\ get_index \in Nat /\ put_index \in Nat
           /\ get_index <= put_index /\ put_index < IndexRange
           /\ put_index <= get_index + DqSize
           /\ ring \in [0 .. DqSize - 1 -> Value \cup {Nothing}]
<1>1. /\ DqSize \in Nat /\ DqSize > 0 /\ IndexRange \in Nat /\ IndexRange > 0
      /\ MaxPut \in Nat /\ MaxPut + 1 < IndexRange
  BY DqAssumption DEF Early
<1> QED BY <1>1 DEF DqOrder

LEMMA DqIndex ==
    ASSUME DqOrder, Early, NEW x \in Nat, x < IndexRange
    PROVE  x % IndexRange = x
<1>1. PICK n \in Nat : n = IndexRange /\ n > 0
  BY DqFacts
<1>2. x % n = x
  <2>1. x < n
    BY <1>1
  <2> QED BY ONLY <1>1, <2>1, n \in Nat, x \in Nat, n > 0
<1> QED BY <1>1, <1>2

LEMMA DqPlace ==
    ASSUME DqOrder, Early, NEW k \in Nat
    PROVE  k % DqSize \in 0 .. DqSize - 1
<1>1. DqSize \in Nat /\ DqSize > 0
  BY DqFacts
<1> QED BY ONLY <1>1, k \in Nat, DivMod

LEMMA DqNoWrap ==
    ASSUME DqOrder, Early
    PROVE  /\ (put_index - get_index) % IndexRange = put_index - get_index
           /\ (get_index < put_index => (get_index + 1) % IndexRange = get_index + 1)
           /\ (put_index <= MaxPut => (put_index + 1) % IndexRange = put_index + 1)
<1>1. PICK x \in Nat : x = put_index - get_index /\ x < IndexRange
  BY DqFacts
<1>2. x % IndexRange = x
  BY <1>1, DqIndex
<1>3. get_index < put_index => (get_index + 1) % IndexRange = get_index + 1
  <2> SUFFICES ASSUME get_index < put_index
               PROVE  (get_index + 1) % IndexRange = get_index + 1
    OBVIOUS
  <2>1. PICK y \in Nat : y = get_index + 1 /\ y < IndexRange
    BY DqFacts
  <2> QED BY <2>1, DqIndex
<1>4. put_index <= MaxPut => (put_index + 1) % IndexRange = put_index + 1
  <2> SUFFICES ASSUME put_index <= MaxPut
               PROVE  (put_index + 1) % IndexRange = put_index + 1
    OBVIOUS
  <2>1. PICK y \in Nat : y = put_index + 1 /\ y < IndexRange
    BY DqFacts
  <2> QED BY <2>1, DqIndex
<1> QED BY <1>1, <1>2, <1>3, <1>4

ItemsOK ==
    /\ Items \in Seq(Value) /\ Len(Items) = put_index - get_index
    /\ \A i \in 1 .. put_index - get_index : Items[i] = ring[(get_index + (i - 1)) % DqSize]

LEMMA ItemsAre == DqOrder /\ Early => ItemsOK
<1> SUFFICES ASSUME DqOrder, Early PROVE ItemsOK
  OBVIOUS
<1>1. PICK n \in Nat : n = put_index - get_index /\ n = (put_index - get_index) % IndexRange
  <2>1. put_index - get_index \in Nat
    BY DqFacts
  <2> QED BY <2>1, DqNoWrap
<1>2. Items = [i \in 1 .. n |-> ring[((get_index + i - 1) % IndexRange) % DqSize]]
  BY <1>1 DEF Items
<1>3. ASSUME NEW i \in 1 .. n
      PROVE  Items[i] = ring[(get_index + (i - 1)) % DqSize] /\ Items[i] \in Value
  <2>1. PICK k \in Nat : k = get_index + (i - 1)
    BY DqFacts
  <2>2. PICK g \in Nat, p \in Nat : g = get_index /\ p = put_index
    BY DqFacts
  <2>3. k = g + i - 1 /\ g <= k /\ k < p
    BY <1>1, <2>1, <2>2
  <2>4. k % IndexRange = k
    <3>1. k < IndexRange
      BY <2>2, <2>3, DqFacts
    <3> QED BY <3>1, DqIndex
  <2>5. Items[i] = ring[k % DqSize]
    BY <1>2, <2>2, <2>3, <2>4
  <2> QED BY <2>1, <2>2, <2>3, <2>5 DEF DqOrder
<1>4. Items \in [1 .. n -> Value]
  BY <1>2, <1>3
<1>5. Items \in Seq(Value) /\ Len(Items) = n
  BY <1>4
<1> QED BY <1>1, <1>3, <1>5 DEF ItemsOK

\* A value is stored behind the others.
LEMMA DqStores ==
    ASSUME DqOrder, Early, ~DqFull, put_index <= MaxPut, NEW v \in Value,
           ring' = [ring EXCEPT ![put_index % DqSize] = v],
           put_index' = (put_index + 1) % IndexRange, get_index' = get_index
    PROVE  /\ DqOrder' /\ Items' = Append(Items, v) /\ Len(Items) < DqSize
           /\ put_index' = put_index + 1 /\ ring'[put_index % DqSize] = v
           /\ \A k \in Nat : get_index <= k /\ k < put_index
                             => ring'[k % DqSize] = ring[k % DqSize]
<1>1. put_index' = put_index + 1 /\ put_index - get_index < DqSize
  <2>1. put_index - get_index < DqSize
    BY DqFacts DEF DqFull
  <2> QED BY <2>1, DqNoWrap
<1>2. ring'[put_index % DqSize] = v
  BY DqFacts, DqPlace
<1>3. ASSUME NEW k \in Nat, get_index <= k, k < put_index
      PROVE  ring'[k % DqSize] = ring[k % DqSize]
  <2>1. k % DqSize # put_index % DqSize
    <3>1. put_index < k + DqSize /\ DqSize \in Nat /\ DqSize > 0 /\ put_index \in Nat
      BY <1>1, <1>3, DqFacts
    <3> QED BY ONLY <1>3, <3>1, k \in Nat, PlacesDiffer
  <2>2. k % DqSize \in 0 .. DqSize - 1 /\ put_index % DqSize \in 0 .. DqSize - 1
    BY DqFacts, DqPlace
  <2> QED BY <2>1, <2>2, DqFacts
<1>4. DqOrder'
  <2>1. ring' \in [0 .. DqSize - 1 -> Value \cup {Nothing}]
    BY DqFacts
  <2>2. ASSUME NEW k \in Nat, get_index <= k, k < put_index + 1
        PROVE  ring'[k % DqSize] \in Value
    <3>1. CASE k = put_index
      BY <1>2, <3>1
    <3>2. CASE k < put_index
      BY <1>3, <2>2, <3>2 DEF DqOrder
    <3> QED BY <2>2, <3>1, <3>2, DqFacts
  <2>3. get_index \in Nat /\ put_index + 1 \in Nat /\ get_index <= put_index + 1
        /\ put_index + 1 <= MaxPut + 1 /\ put_index + 1 <= get_index + DqSize
    BY <1>1, DqFacts
  <2> QED BY <1>1, <2>1, <2>2, <2>3 DEF DqOrder
<1>5. PICK n \in Nat : n = put_index - get_index
  BY DqFacts
<1>6. PICK q \in Seq(Value) : q = Items
  BY ItemsAre DEF ItemsOK
<1>7. Len(q) = n /\ \A i \in 1 .. n : q[i] = ring[(get_index + (i - 1)) % DqSize]
  BY <1>5, <1>6, ItemsAre DEF ItemsOK
<1>8. /\ Append(q, v) \in Seq(Value) /\ Len(Append(q, v)) = n + 1
      /\ \A i \in 1 .. n : Append(q, v)[i] = q[i]
      /\ Append(q, v)[n + 1] = v
  BY <1>7, AppendProperties
<1>9. ItemsOK'
  BY <1>4, ItemsAre, PTL DEF Early
<1>10. PICK p \in Seq(Value) : p = Items'
  BY <1>9 DEF ItemsOK
<1>11. Len(p) = n + 1 /\ \A i \in 1 .. n + 1 : p[i] = ring'[(get_index + (i - 1)) % DqSize]
  <2>1. put_index' - get_index' = n + 1
    BY <1>1, <1>5, DqFacts
  <2> QED BY <1>9, <1>10, <2>1 DEF ItemsOK
<1>12. \A i \in 1 .. Len(p) : p[i] = Append(q, v)[i]
  <2> SUFFICES ASSUME NEW i \in 1 .. n + 1 PROVE p[i] = Append(q, v)[i]
    BY <1>11
  <2>1. PICK k \in Nat : k = get_index + (i - 1)
    BY DqFacts
  <2>2. CASE i = n + 1
    <3>1. k = put_index
      BY <1>5, <2>1, <2>2, DqFacts
    <3> QED BY <1>2, <1>8, <1>11, <2>1, <2>2, <3>1
  <2>3. CASE i \in 1 .. n
    <3>1. get_index <= k /\ k < put_index
      <4>1. get_index \in Nat /\ put_index \in Nat
        BY DqFacts
      <4> QED BY ONLY <1>5, <2>1, <2>3, <4>1, n \in Nat, k \in Nat
    <3>2. ring'[k % DqSize] = ring[k % DqSize]
      BY <1>3, <3>1
    <3>3. p[i] = ring'[k % DqSize]
      BY <1>11, <2>1
    <3>4. Append(q, v)[i] = ring[k % DqSize]
      BY <1>7, <1>8, <2>1, <2>3
    <3> QED BY <3>2, <3>3, <3>4
  <2>4. i = n + 1 \/ i \in 1 .. n
    BY ONLY n \in Nat, i \in 1 .. n + 1
  <2> QED BY <2>2, <2>3, <2>4
<1>13. p = Append(q, v)
  <2>1. Len(p) = Len(Append(q, v)) /\ Append(q, v) \in Seq(Value)
    BY <1>8, <1>11
  <2> QED BY ONLY <1>12, <2>1, p \in Seq(Value), SeqEqual
<1> QED BY <1>1, <1>2, <1>3, <1>4, <1>5, <1>6, <1>7, <1>10, <1>13

\* The first value is taken.
LEMMA DqTakes ==
    ASSUME DqOrder, Early, ~DqEmpty, get_index' = (get_index + 1) % IndexRange,
           ring' = ring, put_index' = put_index
    PROVE  /\ DqOrder' /\ Items # <<>> /\ Items' = Tail(Items)
           /\ Head(Items) = ring[get_index % DqSize] /\ ring[get_index % DqSize] \in Value
           /\ get_index' = get_index + 1
<1>1. get_index < put_index /\ get_index' = get_index + 1
  <2>1. get_index < put_index
    BY DqFacts DEF DqEmpty
  <2> QED BY <2>1, DqNoWrap
<1>2. ring[get_index % DqSize] \in Value
  BY <1>1, DqFacts DEF DqOrder
<1>3. DqOrder'
  <2>1. get_index + 1 \in Nat /\ get_index + 1 <= put_index
        /\ put_index <= (get_index + 1) + DqSize
        /\ \A k \in Nat : get_index + 1 <= k => get_index <= k
    BY <1>1, DqFacts
  <2> QED BY <1>1, <2>1 DEF DqOrder
<1>4. PICK n \in Nat : n = put_index - get_index /\ n > 0
  BY <1>1, DqFacts
<1>5. PICK q \in Seq(Value) : q = Items
  BY ItemsAre DEF ItemsOK
<1>6. Len(q) = n /\ \A i \in 1 .. n : q[i] = ring[(get_index + (i - 1)) % DqSize]
  BY <1>4, <1>5, ItemsAre DEF ItemsOK
<1>7. q # <<>>
  BY <1>4, <1>6
<1>8. Head(q) = ring[get_index % DqSize]
  <2>1. Head(q) = q[1]
    BY <1>7
  <2>2. get_index + (1 - 1) = get_index /\ 1 \in 1 .. n
    BY <1>4, DqFacts
  <2> QED BY <1>6, <2>1, <2>2
<1>9. /\ Tail(q) \in Seq(Value) /\ Len(Tail(q)) = n - 1
      /\ \A i \in 1 .. n - 1 : Tail(q)[i] = q[i + 1]
  BY <1>4, <1>6, <1>7, HeadTailProperties
<1>10. ItemsOK'
  BY <1>3, ItemsAre, PTL DEF Early
<1>11. PICK p \in Seq(Value) : p = Items'
  BY <1>10 DEF ItemsOK
<1>12. /\ Len(p) = n - 1
       /\ \A i \in 1 .. n - 1 : p[i] = ring[((get_index + 1) + (i - 1)) % DqSize]
  <2>1. put_index' - get_index' = n - 1
    BY <1>1, <1>4, DqFacts
  <2> QED BY <1>1, <1>10, <1>11, <2>1 DEF ItemsOK
<1>13. \A i \in 1 .. Len(p) : p[i] = Tail(q)[i]
  <2> SUFFICES ASSUME NEW i \in 1 .. n - 1 PROVE p[i] = Tail(q)[i]
    BY <1>12
  <2>1. /\ i + 1 \in 1 .. n
        /\ (get_index + 1) + (i - 1) = get_index + ((i + 1) - 1)
    <3>1. get_index \in Nat
      BY DqFacts
    <3> QED BY ONLY <1>4, <3>1, n \in Nat, i \in 1 .. n - 1
  <2>2. q[i + 1] = ring[(get_index + ((i + 1) - 1)) % DqSize]
    BY <1>6, <2>1
  <2> QED BY <1>9, <1>12, <2>1, <2>2
<1>14. p = Tail(q)
  <2>1. Len(p) = Len(Tail(q)) /\ Tail(q) \in Seq(Value)
    BY <1>9, <1>12
  <2> QED BY ONLY <1>13, <2>1, p \in Seq(Value), SeqEqual
<1> QED BY <1>1, <1>2, <1>3, <1>5, <1>7, <1>8, <1>11, <1>14

-----------------------------------------------------------------------------
(* The waiters of a data queue, be it popped by threads or by an interrupt. *)

DqStep(l) == IF l = Receivers THEN "popping" ELSE "pushing"

DqPcOK ==
    /\ \A l \in List : \A u \in Waiting(l) : pc[u].at = DqStep(l)
    /\ \A u \in Thread : pc[u].at \in {"pushing", "pushed", "starting", "popped"} => pc[u].arg \in Value

DqWakeOK ==
    /\ Waiting(Receivers) # {} => put_index - get_index <= Cardinality(Arriving("popping"))
    /\ Waiting(Senders) # {} /\ DqEmpty => Arriving("pushing") # {}

DqInv == WaitInv /\ DqOrder /\ DqPcOK /\ DqWakeOK

LEMMA TwoLists ==
    /\ Receivers # Senders /\ Receivers \in List /\ Senders \in List
    /\ \A l \in List : l = Receivers \/ l = Senders
    /\ DqStep(Receivers) = "popping" /\ DqStep(Senders) = "pushing"
    /\ "popping" \in WaitSteps /\ "pushing" \in WaitSteps /\ "pushing" \in StepsAt(Senders)
    /\ "popping" \in StepsAt(Receivers)
    /\ Nothing \in Args /\ Value \subseteq Args
BY DEF Receivers, Senders, List, DqStep, WaitSteps, ReceiverSteps, SenderSteps, StepsAt, Args

LEMMA DqSays ==
    ASSUME DqInv, Early
    PROVE  DqNoLostWakeup
<1>1. \A l \in List : suspended[l] = <<>> <=> Waiting(l) = {}
  BY EmptyList DEF DqInv
<1>2. (put_index - get_index) % IndexRange = put_index - get_index
  BY DqNoWrap DEF DqInv
<1> QED BY <1>1, <1>2, TwoLists DEF DqInv, DqWakeOK, DqNoLostWakeup

\* Who waits, and what those who push or have popped hold, after any step.
LEMMA DqPcKeeps ==
    ASSUME DqPcOK,
           \A l \in List : \A u \in Waiting(l)' :
               (u \in Waiting(l) /\ pc'[u].at = pc[u].at) \/ pc'[u].at = DqStep(l),
           \A u \in Thread :
               \/ pc'[u].at = pc[u].at /\ pc'[u].arg = pc[u].arg
               \/ pc'[u].at \in {"pushing", "pushed", "starting", "popped"} => pc'[u].arg \in Value
    PROVE  DqPcOK'
<1>1. \A l \in List : \A u \in Waiting(l)' : pc'[u].at = DqStep(l)
  BY DEF DqPcOK
<1>2. \A u \in Thread : pc'[u].at \in {"pushing", "pushed", "starting", "popped"} => pc'[u].arg \in Value
  BY DEF DqPcOK
<1> QED BY <1>1, <1>2 DEF DqPcOK, DqStep

LEMMA DqMakes ==
    ASSUME WaitInv', DqOrder', DqPcOK',
           Waiting(Receivers)' # {} => put_index' - get_index' <= Cardinality(Arriving("popping")'),
           Waiting(Senders)' # {} /\ get_index' = put_index' => Arriving("pushing")' # {}
    PROVE  DqInv'
<1>1. DqWakeOK'
  BY DEF DqWakeOK, DqEmpty
<1> QED BY <1>1 DEF DqInv

LEMMA DqSame ==
    ASSUME DqOrder, UNCHANGED dqVars
    PROVE  DqOrder' /\ Items' = Items /\ put_index' = put_index /\ get_index' = get_index
<1>1. ring' = ring /\ put_index' = put_index /\ get_index' = get_index
  BY DEF dqVars
<1> QED BY <1>1 DEF DqOrder, Items

\* What a step of t, or of an interrupt handler, leaves as it was.
LEMMA StepLeaves ==
    ASSUME WaitInv, DqPcOK, NEW t \in Thread \cup {Nothing}, t \notin Waiters,
           t \in Thread /\ pc'[t].at \in {"pushed", "starting", "popped"} => pc'[t].arg \in Value,
           t \in Thread => pc'[t].at \in {"run", "pushed", "starting", "popped"},
           Goes(t) \/ \E l \in List : Wakes(t, l)
    PROVE  WaitInv' /\ DqPcOK' /\ \A l \in List : Waiting(l)' \subseteq Waiting(l)
<1>1. /\ WaitInv' /\ \A u \in Thread \ {t} : pc'[u] = pc[u]
      /\ \A l \in List : Waiting(l)' \subseteq Waiting(l)
  <2>1. CASE Goes(t)
    BY <2>1 DEF Goes
  <2>2. ASSUME NEW l \in List, Wakes(t, l)
        PROVE  /\ WaitInv' /\ \A u \in Thread \ {t} : pc'[u] = pc[u]
               /\ \A m \in List : Waiting(m)' \subseteq Waiting(m)
    <3>1. Waiting(l)' \subseteq Waiting(l)
      BY <2>2 DEF Wakes
    <3> QED BY <2>2, <3>1 DEF Wakes
  <2> QED BY <2>1, <2>2
<1>2. \A l \in List : Waiting(l) \subseteq Thread /\ t \notin Waiting(l)
  BY WaitersType, WaitersAre, TwoLists DEF WaitInv
<1>3. \A l \in List : \A u \in Waiting(l)' : u \in Waiting(l) /\ pc'[u].at = pc[u].at
  BY <1>1, <1>2
<1>4. \A u \in Thread :
         \/ pc'[u].at = pc[u].at /\ pc'[u].arg = pc[u].arg
         \/ pc'[u].at \in {"pushing", "pushed", "starting", "popped"} => pc'[u].arg \in Value
  BY <1>1
<1> QED BY <1>1, <1>3, <1>4, DqPcKeeps

\* A call begins to wait, or waits again.
LEMMA DqWaitStep ==
    ASSUME DqInv, Early, NEW t \in Thread, t \notin Waiters, NEW l \in List,
           Joins(t, l, DqStep(l), pc'[t].arg), l = Senders => pc'[t].arg \in Value,
           pc[t].at \in {"run", DqStep(l)}, IF l = Receivers THEN DqEmpty ELSE DqFull,
           UNCHANGED dqVars
    PROVE  DqInv'
<1>1. DqOrder' /\ put_index' = put_index /\ get_index' = get_index
  BY DqSame DEF DqInv
<1>2. /\ WaitInv' /\ pc'[t].at = DqStep(l)
      /\ \A u \in Thread \ {t} : pc'[u] = pc[u]
      /\ Waiting(l)' = Waiting(l) \cup {t}
      /\ \A m \in List \ {l} : Waiting(m)' = Waiting(m)
      /\ \A x \in WaitSteps : Arriving(x)' = Arriving(x) \ {t}
  BY DEF Joins
<1>3. DqPcOK'
  <2>1. \A m \in List : Waiting(m) \subseteq Thread /\ t \notin Waiting(m)
    BY WaitersType, WaitersAre, TwoLists DEF DqInv, WaitInv
  <2>2. \A m \in List : \A u \in Waiting(m)' :
            (u \in Waiting(m) /\ pc'[u].at = pc[u].at) \/ pc'[u].at = DqStep(m)
    BY <1>2, <2>1
  <2>3. pc'[t].at \in {"pushing", "pushed", "starting", "popped"} => pc'[t].arg \in Value
    BY <1>2, TwoLists
  <2> QED BY <1>2, <2>2, <2>3, DqPcKeeps DEF DqInv
<1>4. CASE l = Receivers
  <2>1. t \notin Arriving("pushing")
    BY <1>4, TwoLists DEF Arriving
  <2>2. Arriving("pushing")' = Arriving("pushing") /\ Waiting(Senders)' = Waiting(Senders)
    BY <1>2, <1>4, <2>1, TwoLists
  <2>3. put_index' - get_index' = 0 /\ DqEmpty
    BY <1>1, <1>4, DqFacts DEF DqInv, DqEmpty
  <2>4. Cardinality(Arriving("popping")') \in Nat
    BY <1>2, GoneCounts, TwoLists
  <2>5. Waiting(Senders)' # {} => Arriving("pushing")' # {}
    BY <2>2, <2>3 DEF DqInv, DqWakeOK
  <2>6. put_index' - get_index' <= Cardinality(Arriving("popping")')
    BY <2>3, <2>4
  <2> QED BY <1>1, <1>2, <1>3, <2>5, <2>6, DqMakes
<1>5. CASE l = Senders
  <2>1. t \notin Arriving("popping")
    BY <1>5, TwoLists DEF Arriving
  <2>2. Arriving("popping")' = Arriving("popping") /\ Waiting(Receivers)' = Waiting(Receivers)
    BY <1>2, <1>5, <2>1, TwoLists
  <2>3. get_index' # put_index'
    BY <1>1, <1>5, DqFacts, TwoLists DEF DqInv, DqFull
  <2>4. Waiting(Receivers)' # {} => put_index' - get_index' <= Cardinality(Arriving("popping")')
    BY <1>1, <2>2 DEF DqInv, DqWakeOK
  <2> QED BY <1>1, <1>2, <1>3, <2>3, <2>4, DqMakes
<1> QED BY <1>4, <1>5, TwoLists

\* A value is stored, and a thread that waits to pop is woken.
LEMMA DqStoreStep ==
    ASSUME DqInv, Early, NEW t \in Thread \cup {Nothing}, t \notin Waiters,
           t \in Thread => pc[t].at # "popping",
           t \in Thread /\ pc'[t].at \in {"pushed", "starting", "popped"} => pc'[t].arg \in Value,
           t \in Thread => pc'[t].at \in {"run", "pushed", "starting", "popped"},
           Wakes(t, Receivers), NEW v \in Value, ~DqFull, put_index <= MaxPut,
           ring' = [ring EXCEPT ![put_index % DqSize] = v],
           put_index' = (put_index + 1) % IndexRange, get_index' = get_index
    PROVE  DqInv'
<1>1. DqOrder' /\ put_index' = put_index + 1
  BY DqStores DEF DqInv
<1>2. WaitInv' /\ DqPcOK' /\ Waiting(Receivers)' \subseteq Waiting(Receivers)
  BY StepLeaves, TwoLists DEF DqInv
<1>3. get_index' # put_index'
  BY <1>1, DqFacts DEF DqInv
<1>4. ASSUME Waiting(Receivers)' # {}
      PROVE  put_index' - get_index' <= Cardinality(Arriving("popping")')
  <2>1. t \notin Arriving("popping")
    BY DEF Arriving
  <2>2. \A u \in Waiting(Receivers) : pc[u].at = "popping"
    BY TwoLists DEF DqInv, DqPcOK
  <2>3. Cardinality(Arriving("popping")') = Cardinality(Arriving("popping")) + 1
    BY <1>4, <2>1, <2>2, WakesCounts, TwoLists
  <2>4. put_index - get_index <= Cardinality(Arriving("popping"))
    BY <1>2, <1>4 DEF DqInv, DqWakeOK
  <2>5. Cardinality(Arriving("popping")) \in Nat
    BY ArrivingFinite, FS_CardinalityType
  <2> QED BY <1>1, <2>3, <2>4, <2>5, DqFacts DEF DqInv
<1> QED BY <1>1, <1>2, <1>3, <1>4, DqMakes

\* A value is taken, and a thread that waits to push is woken if no more than lwm are
\* left.
LEMMA DqTakeStep ==
    ASSUME DqInv, Early, NEW t \in Thread \cup {Nothing}, t \notin Waiters,
           t \in Thread /\ pc'[t].at \in {"pushed", "starting", "popped"} => pc'[t].arg \in Value,
           t \in Thread => pc'[t].at \in {"run", "pushed", "starting", "popped"},
           IF put_index - get_index' <= Lwm THEN Wakes(t, Senders) ELSE Goes(t),
           ~DqEmpty, get_index' = (get_index + 1) % IndexRange,
           ring' = ring, put_index' = put_index
    PROVE  DqInv'
<1>1. DqOrder' /\ get_index' = get_index + 1
  BY DqTakes DEF DqInv
<1>2. WaitInv' /\ DqPcOK' /\ \A l \in List : Waiting(l)' \subseteq Waiting(l)
  BY StepLeaves, TwoLists DEF DqInv
<1>3. ASSUME Waiting(Receivers)' # {}
      PROVE  put_index' - get_index' <= Cardinality(Arriving("popping")')
  <2>1. put_index - get_index <= Cardinality(Arriving("popping"))
    BY <1>2, <1>3, TwoLists DEF DqInv, DqWakeOK
  <2>2. Cardinality(Arriving("popping")') >= Cardinality(Arriving("popping")) - 1
        /\ Cardinality(Arriving("popping")) \in Nat /\ Cardinality(Arriving("popping")') \in Nat
    <3>1. Arriving("popping")' = Arriving("popping") \ {t}
      <4>1. CASE Wakes(t, Senders)
        <5>1. \A u \in Waiting(Senders) : pc[u].at # "popping"
          BY TwoLists DEF DqInv, DqPcOK
        <5> QED BY <4>1, <5>1, TwoLists DEF Wakes
      <4> QED BY <4>1, TwoLists DEF Goes
    <3>2. PICK a, b : a = Cardinality(Arriving("popping")) /\ b = Cardinality(Arriving("popping")')
      OBVIOUS
    <3>3. a \in Nat /\ b \in Nat /\ b = a - IF t \in Arriving("popping") THEN 1 ELSE 0
      BY <3>1, <3>2, GoneCounts
    <3>4. b >= a - 1
      BY <3>3
    <3> QED BY <3>2, <3>3, <3>4
  <2>3. get_index \in Nat /\ put_index \in Nat
    BY DqFacts DEF DqInv
  <2> QED BY <1>1, <2>1, <2>2, <2>3
<1>4. ASSUME Waiting(Senders)' # {}, get_index' = put_index' PROVE Arriving("pushing")' # {}
  <2>1. Wakes(t, Senders)
    <3>1. put_index - get_index' <= Lwm
      BY <1>1, <1>4, DqFacts, DqAssumption DEF DqInv
    <3> QED BY <3>1
  <2>2. PICK h \in Waiting(Senders) :
            Arriving("pushing")' = (Arriving("pushing") \ {t}) \cup
                                   IF pc[h].at = "pushing" THEN {h} ELSE {}
    BY <1>4, <2>1, TwoLists DEF Wakes
  <2>3. pc[h].at = "pushing"
    BY TwoLists DEF DqInv, DqPcOK
  <2> QED BY <2>2, <2>3
<1> QED BY <1>1, <1>2, <1>3, <1>4, DqMakes

\* A call returns, or goes on, that was not woken for anything.
LEMMA DqReturnStep ==
    ASSUME DqInv, Early, NEW t \in Thread, t \notin Waiters, Goes(t),
           pc'[t].at = "run" \/ (pc'[t].at = "starting" /\ pc'[t].arg \in Value),
           t \notin Arriving("popping"), t \notin Arriving("pushing"), UNCHANGED dqVars
    PROVE  DqInv'
<1>1. DqOrder' /\ put_index' = put_index /\ get_index' = get_index
  BY DqSame DEF DqInv
<1>2. WaitInv' /\ DqPcOK'
  BY StepLeaves DEF DqInv
<1>3. /\ Arriving("popping")' = Arriving("popping") /\ Arriving("pushing")' = Arriving("pushing")
      /\ Waiting(Receivers)' = Waiting(Receivers) /\ Waiting(Senders)' = Waiting(Senders)
  BY TwoLists DEF Goes
<1> QED BY <1>1, <1>2, <1>3, DqMakes DEF DqInv, DqWakeOK, DqEmpty

\* A timeout, or a step of a reset.
LEMMA DqQuietStep ==
    ASSUME DqInv, WaitInv', Quiet, UNCHANGED dqVars
    PROVE  DqInv'
<1>1. DqOrder' /\ put_index' = put_index /\ get_index' = get_index
  BY DqSame DEF DqInv
<1>2. /\ \A l \in List : Waiting(l)' \subseteq Waiting(l) /\ Waiting(l) \subseteq Thread
      /\ \A u \in Thread : pc[u].at \in CallSteps \/ pc'[u].at \in CallSteps
                           => pc'[u].at = pc[u].at /\ pc'[u].arg = pc[u].arg
      /\ \A x \in WaitSteps : Arriving(x)' = Arriving(x)
  BY WaitersType, TwoLists DEF Quiet, WaitSteps, DqInv, WaitInv
<1>3. {"popping", "pushing", "pushed", "starting", "popped"} \subseteq CallSteps
  BY DEF CallSteps, ReceiverSteps, SenderSteps, BusySteps
<1>4. \A l \in List : \A u \in Waiting(l) : pc[u].at = DqStep(l) /\ DqStep(l) \in CallSteps
  BY <1>3, TwoLists DEF DqInv, DqPcOK
<1>5. DqPcOK'
  <2>1. \A l \in List : \A u \in Waiting(l)' :
            (u \in Waiting(l) /\ pc'[u].at = pc[u].at) \/ pc'[u].at = DqStep(l)
    BY <1>2, <1>4
  <2>2. \A u \in Thread :
            \/ pc'[u].at = pc[u].at /\ pc'[u].arg = pc[u].arg
            \/ pc'[u].at \in {"pushing", "pushed", "starting", "popped"} => pc'[u].arg \in Value
    BY <1>2, <1>3
  <2> QED BY <2>1, <2>2, DqPcKeeps DEF DqInv
<1> QED BY <1>1, <1>2, <1>5, DqMakes, TwoLists DEF DqInv, DqWakeOK, DqEmpty

-----------------------------------------------------------------------------
(* Each step of a data queue is a step of a queue, or changes nothing of it. *)

DqQueueStep ==
    kind = "dq" /\ kind' = "dq" => DataQueueQueue!Next \/ UNCHANGED <<Items, DqHeld>>

LEMMA DqHeldSame ==
    ASSUME \A u \in Thread : pc[u].at = "popped" \/ pc'[u].at = "popped"
                             => pc'[u].at = pc[u].at /\ pc'[u].arg = pc[u].arg
    PROVE  DqHeld' = DqHeld
<1>1. \A u \in Thread : (IF pc'[u].at = "popped" THEN pc'[u].arg ELSE Nothing)
                        = (IF pc[u].at = "popped" THEN pc[u].arg ELSE Nothing)
  OBVIOUS
<1> QED BY <1>1 DEF DqHeld

LEMMA DqWaitsStep ==
    ASSUME DqInv, Early, NEW t \in Thread, NEW l \in List, NEW arg \in Args,
           l = Senders => arg \in Value, NEW timeout \in Timeouts,
           t \notin Waiters, pc[t].at \in {"run", DqStep(l)},
           IF l = Receivers THEN DqEmpty ELSE DqFull,
           Wait(t, l, Enqueue(suspended[l], t), DqStep(l), arg, timeout),
           UNCHANGED object, UNCHANGED dqVars
    PROVE  DqInv' /\ UNCHANGED <<Items, DqHeld>>
<1>1. DqStep(l) \in StepsAt(l) /\ (pc[t].at \in WaitSteps => pc[t].at = DqStep(l))
  <2>1. DqStep(l) \in StepsAt(l)
    BY TwoLists
  <2>2. "run" \notin WaitSteps
    BY DEF WaitSteps, ReceiverSteps, SenderSteps
  <2> QED BY <2>1, <2>2
<1>2. PICK step \in StepsAt(l) : step = DqStep(l)
  BY <1>1
<1>3. PICK list : list = Enqueue(suspended[l], t)
  OBVIOUS
<1>4. Joins(t, l, step, arg)
  <2>1. /\ Wait(t, l, list, step, arg, timeout)
        /\ list \in {ListSuspend(t, l), Enqueue(suspended[l], t)}
    BY <1>2, <1>3
  <2>2. WaitInv /\ (pc[t].at \in WaitSteps => pc[t].at = step)
    BY <1>1, <1>2 DEF DqInv
  <2> QED BY ONLY <2>1, <2>2, t \in Thread, t \notin Waiters, l \in List, step \in StepsAt(l),
                  arg \in Args, timeout \in Timeouts, UNCHANGED object, WaitJoins
<1>5. pc'[t].arg = arg /\ pc'[t].at = DqStep(l) /\ \A u \in Thread \ {t} : pc'[u] = pc[u]
  BY <1>2, <1>4 DEF Joins
<1>6. Joins(t, l, DqStep(l), pc'[t].arg)
  BY <1>2, <1>4, <1>5
<1>7. DqInv'
  BY <1>5, <1>6, DqWaitStep
<1>8. pc[t].at # "popped" /\ pc'[t].at # "popped"
  BY <1>5, TwoLists
<1> QED BY <1>5, <1>7, <1>8, DqHeldSame, DqSame DEF DqInv

LEMMA DqPushStep ==
    ASSUME DqInv, Early, NEW v \in Value, DqPush(v)
    PROVE  DqInv' /\ DqQueueStep
<1>1. /\ ~DqFull /\ put_index <= MaxPut /\ ring' = [ring EXCEPT ![put_index % DqSize] = v]
      /\ put_index' = (put_index + 1) % IndexRange /\ get_index' = get_index
      /\ ResumeIfAny(Receivers) /\ UNCHANGED <<error, pc, object>>
  BY DEF DqPush, DqStore
<1>2. Wakes(Nothing, Receivers) /\ pc' = pc
  BY <1>1, HandlerWakes, TwoLists DEF DqInv
<1>3. Nothing \notin Thread /\ Nothing \notin Waiters
  BY IpcAssumption, WaitersType, WaitersAre DEF DqInv, WaitInv
<1>4. DqInv'
  BY <1>1, <1>2, <1>3, DqStoreStep
<1>5. Items' = Append(Items, v) /\ Len(Items) < DqSize
  BY <1>1, DqStores DEF DqInv
<1>6. DqHeld' = DqHeld
  BY <1>2 DEF DqHeld
<1>7. kind = "dq" /\ kind' = "dq" => DataQueueQueue!Send(v)
  BY <1>5, <1>6 DEF DataQueueQueue!Send
<1> QED BY <1>4, <1>7 DEF DqQueueStep, DataQueueQueue!Next

\* A thread that was woken stores its value.
LEMMA DqPushReturnsStep ==
    ASSUME DqInv, Early, NEW t \in Thread, DqPushReturns(t)
    PROVE  DqInv' /\ DqQueueStep
<1>1. /\ Woken(t, "pushing") /\ ~DqFull /\ put_index <= MaxPut
      /\ ring' = [ring EXCEPT ![put_index % DqSize] = pc[t].arg]
      /\ put_index' = (put_index + 1) % IndexRange /\ get_index' = get_index
      /\ ResumeIfAny(Receivers) /\ UNCHANGED object
      /\ error' = [error EXCEPT ![t] = "ok"]
      /\ pc' = [pc EXCEPT ![t] = [at |-> "run", timeout |-> "none", arg |-> Nothing]]
  BY DEF DqPushReturns, DqStore, Return, Running
<1>2. t \notin Waiters /\ pc[t].at = "pushing"
  BY <1>1 DEF Woken, At
<1>3. PICK v \in Value : v = pc[t].arg
  BY <1>2 DEF DqInv, DqPcOK
<1>4. Wakes(t, Receivers) /\ pc'[t].at = "run" /\ \A u \in Thread \ {t} : pc'[u] = pc[u]
  <2>1. Wakes(t, Receivers) /\ pc'[t].at = "run" /\ pc'[t].arg = Nothing
    BY <1>1, <1>2, CallWakes, TwoLists DEF DqInv
  <2> QED BY <2>1 DEF Wakes
<1>5. DqInv'
  BY <1>1, <1>2, <1>3, <1>4, DqStoreStep
<1>6. Items' = Append(Items, v) /\ Len(Items) < DqSize
  BY <1>1, <1>3, DqStores DEF DqInv
<1>7. DqHeld' = DqHeld
  BY <1>2, <1>4, DqHeldSame
<1>8. kind = "dq" /\ kind' = "dq" => DataQueueQueue!Send(v)
  BY <1>6, <1>7 DEF DataQueueQueue!Send
<1> QED BY <1>5, <1>8 DEF DqQueueStep, DataQueueQueue!Next

LEMMA DqPopStep ==
    ASSUME DqInv, Early, NEW t \in Thread, DqPop(t)
    PROVE  DqInv' /\ DqQueueStep
<1>1. /\ ~DqEmpty /\ get_index' = (get_index + 1) % IndexRange
      /\ ring' = ring /\ put_index' = put_index /\ UNCHANGED object
      /\ error' = [error EXCEPT ![t] = "ok"]
      /\ pc' = [pc EXCEPT ![t] = [at |-> "popped", timeout |-> "none",
                                  arg |-> ring[get_index % DqSize]]]
      /\ IF put_index - get_index' <= Lwm THEN ResumeIfAny(Senders)
                                          ELSE UNCHANGED <<suspended, timed>>
  BY DEF DqPop, DqTake, Goto
<1>2. t \notin Waiters /\ pc[t].at \in {"run", "popping"}
  BY DEF DqPop, May, Woken, At
<1>3. /\ Items # <<>> /\ Items' = Tail(Items)
      /\ Head(Items) = ring[get_index % DqSize] /\ ring[get_index % DqSize] \in Value
  BY <1>1, DqTakes DEF DqInv
<1>4. PICK v \in Value : v = ring[get_index % DqSize]
  BY <1>3
<1>5. v \in Args /\ "popped" \in BusySteps \cup {"run"}
  BY TwoLists DEF BusySteps
<1>6. /\ IF put_index - get_index' <= Lwm THEN Wakes(t, Senders) ELSE Goes(t)
      /\ pc'[t].at = "popped" /\ pc'[t].arg = v
  <2>1. CASE put_index - get_index' <= Lwm
    <3>1. ResumeIfAny(Senders)
      BY <1>1, <2>1
    <3>2. Wakes(t, Senders) /\ pc'[t].at = "popped" /\ pc'[t].arg = v
      BY <1>1, <1>2, <1>4, <1>5, <3>1, CallWakes, TwoLists DEF DqInv
    <3> QED BY <2>1, <3>2
  <2>2. CASE ~(put_index - get_index' <= Lwm)
    <3>1. UNCHANGED <<suspended, timed, object>>
      BY <1>1, <2>2
    <3>2. Goes(t) /\ pc'[t].at = "popped" /\ pc'[t].arg = v
      BY <1>1, <1>2, <1>4, <1>5, <3>1, CallGoes DEF DqInv
    <3> QED BY <2>2, <3>2
  <2> QED BY <2>1, <2>2
<1>7. DqInv'
  BY <1>1, <1>2, <1>6, DqTakeStep
<1>8. \A u \in Thread \ {t} : pc'[u] = pc[u]
  BY <1>6 DEF Wakes, Goes
<1>9. DqHeld' = [DqHeld EXCEPT ![t] = v] /\ DqHeld[t] = Nothing
  <2>1. DqHeld = [u \in Thread |-> IF pc[u].at = "popped" THEN pc[u].arg ELSE Nothing]
    BY DEF DqHeld
  <2>2. DqHeld' = [u \in Thread |-> IF pc'[u].at = "popped" THEN pc'[u].arg ELSE Nothing]
    BY DEF DqHeld
  <2> QED BY <1>2, <1>6, <1>8, <2>1, <2>2
<1>10. kind = "dq" /\ kind' = "dq" => DataQueueQueue!Recv(t)
  BY <1>3, <1>4, <1>9 DEF DataQueueQueue!Recv
<1> QED BY <1>7, <1>10 DEF DqQueueStep, DataQueueQueue!Next

LEMMA DqReturnsStep ==
    ASSUME DqInv, Early, NEW t \in Thread, t \notin Waiters, Return(t),
           pc[t].at = "popped" \/ error[t] # "ok",
           UNCHANGED <<suspended, timed, object>>, UNCHANGED dqVars
    PROVE  DqInv' /\ DqQueueStep
<1>1. Goes(t) /\ pc'[t].at = "run" /\ pc'[t].arg = Nothing
  <2>1. /\ error' = [error EXCEPT ![t] = "ok"]
        /\ pc' = [pc EXCEPT ![t] = [at |-> "run", timeout |-> "none", arg |-> Nothing]]
    BY DEF Return, Running
  <2> QED BY <2>1, CallGoes, TwoLists DEF DqInv
<1>2. t \notin Arriving("popping") /\ t \notin Arriving("pushing")
  BY DEF Arriving
<1>3. DqInv'
  BY <1>1, <1>2, DqReturnStep
<1>4. Items' = Items
  BY DqSame DEF DqInv
<1>5. \A u \in Thread \ {t} : pc'[u] = pc[u]
  BY <1>1 DEF Goes
<1>6. CASE pc[t].at # "popped"
  <2>1. DqHeld' = DqHeld
    BY <1>1, <1>5, <1>6, DqHeldSame
  <2> QED BY <1>3, <1>4, <2>1 DEF DqQueueStep
<1>7. CASE pc[t].at = "popped"
  <2>1. pc[t].arg # Nothing
    BY <1>7, IpcAssumption DEF DqInv, DqPcOK
  <2>2. DqHeld' = [DqHeld EXCEPT ![t] = Nothing] /\ DqHeld[t] # Nothing
    <3>1. DqHeld = [u \in Thread |-> IF pc[u].at = "popped" THEN pc[u].arg ELSE Nothing]
      BY DEF DqHeld
    <3>2. DqHeld' = [u \in Thread |-> IF pc'[u].at = "popped" THEN pc'[u].arg ELSE Nothing]
      BY DEF DqHeld
    <3> QED BY <1>1, <1>5, <1>7, <2>1, <3>1, <3>2
  <2>3. kind = "dq" /\ kind' = "dq" => DataQueueQueue!Return(t)
    BY <1>4, <2>2 DEF DataQueueQueue!Return
  <2> QED BY <1>3, <2>3 DEF DqQueueStep, DataQueueQueue!Next
<1> QED BY <1>6, <1>7

LEMMA DqResets ==
    ASSUME DqInv, Early, NEW t \in Thread, DqReset(t) \/ (Timeout(t) /\ UNCHANGED dqVars)
    PROVE  DqInv' /\ DqQueueStep
<1>1. WaitInv' /\ Quiet /\ UNCHANGED dqVars
  <2>1. CASE DqReset(t)
    <3>1. /\ Detach(t, "locked") \/ DetachTest(t) \/ DetachResume(t) \/ DetachEnds(t, "live")
          /\ UNCHANGED dqVars
      BY <2>1 DEF DqReset
    <3> QED BY <3>1, DetachesQuiet DEF DqInv
  <2> QED BY <2>1, TimeoutQuiet DEF DqInv
<1>2. DqInv'
  BY <1>1, DqQuietStep
<1>3. DqHeld' = DqHeld
  <2>1. "popped" \in CallSteps
    BY DEF CallSteps, BusySteps
  <2> QED BY <1>1, <2>1, DqHeldSame DEF Quiet
<1> QED BY <1>1, <1>2, <1>3, DqSame DEF DqInv, DqQueueStep

LEMMA DqStepKeeps ==
    ASSUME DqInv, Early, DqNext
    PROVE  DqInv' /\ DqQueueStep
<1>1. ASSUME NEW t \in Thread, NEW v \in Value, DqPushWaits(t, v)
      PROVE  DqInv' /\ DqQueueStep
  <2>1. PICK timeout \in {"ticks", "forever"} :
            Wait(t, Senders, Enqueue(suspended[Senders], t), "pushing", v, timeout)
    BY <1>1 DEF DqPushWaits, Blocks
  <2>2. /\ t \notin Waiters /\ pc[t].at = "run" /\ DqFull /\ UNCHANGED object
        /\ UNCHANGED dqVars
    BY <1>1 DEF DqPushWaits, Blocks, May, At
  <2>3. timeout \in Timeouts /\ v \in Args
    BY TwoLists DEF Timeouts
  <2>4. DqInv' /\ UNCHANGED <<Items, DqHeld>>
    BY <2>1, <2>2, <2>3, DqWaitsStep, TwoLists
  <2> QED BY <2>4 DEF DqQueueStep
<1>2. ASSUME NEW t \in Thread, DqPopWaits(t)
      PROVE  DqInv' /\ DqQueueStep
  <2>1. PICK timeout \in {"ticks", "forever"} :
            Wait(t, Receivers, Enqueue(suspended[Receivers], t), "popping", Nothing, timeout)
    BY <1>2 DEF DqPopWaits, Blocks
  <2>2. /\ t \notin Waiters /\ pc[t].at = "run" /\ DqEmpty /\ UNCHANGED object
        /\ UNCHANGED dqVars
    BY <1>2 DEF DqPopWaits, Blocks, May, At
  <2>3. timeout \in Timeouts
    BY DEF Timeouts
  <2>4. DqInv' /\ UNCHANGED <<Items, DqHeld>>
    BY <2>1, <2>2, <2>3, DqWaitsStep, TwoLists
  <2> QED BY <2>4 DEF DqQueueStep
<1>3. ASSUME NEW t \in Thread, DqPushWaitsAgain(t) PROVE DqInv' /\ DqQueueStep
  <2>1. /\ Wait(t, Senders, Enqueue(suspended[Senders], t), "pushing", pc[t].arg, pc[t].timeout)
        /\ t \notin Waiters /\ pc[t].at = "pushing" /\ DqFull /\ UNCHANGED object
        /\ UNCHANGED dqVars
    BY <1>3 DEF DqPushWaitsAgain, Woken, At
  <2>2. pc[t].timeout \in Timeouts /\ pc[t].arg \in Value /\ pc[t].arg \in Args
    BY <2>1, TwoLists DEF DqInv, WaitInv, PcOK, DqPcOK
  <2>3. DqInv' /\ UNCHANGED <<Items, DqHeld>>
    BY <2>1, <2>2, DqWaitsStep, TwoLists
  <2> QED BY <2>3 DEF DqQueueStep
<1>4. ASSUME NEW t \in Thread, DqPopWaitsAgain(t) PROVE DqInv' /\ DqQueueStep
  <2>1. /\ Wait(t, Receivers, Enqueue(suspended[Receivers], t), "popping", Nothing,
                pc[t].timeout)
        /\ t \notin Waiters /\ pc[t].at = "popping" /\ DqEmpty /\ UNCHANGED object
        /\ UNCHANGED dqVars
    BY <1>4 DEF DqPopWaitsAgain, Woken, At
  <2>2. pc[t].timeout \in Timeouts
    BY DEF DqInv, WaitInv, PcOK
  <2>3. DqInv' /\ UNCHANGED <<Items, DqHeld>>
    BY <2>1, <2>2, DqWaitsStep, TwoLists
  <2> QED BY <2>3 DEF DqQueueStep
<1>5. ASSUME NEW t \in Thread, DqPushFails(t) \/ DqPopFails(t) \/ DqPopReturns(t)
      PROVE  DqInv' /\ DqQueueStep
  <2>1. /\ t \notin Waiters /\ Return(t) /\ (pc[t].at = "popped" \/ error[t] # "ok")
        /\ UNCHANGED <<suspended, timed, object>> /\ UNCHANGED dqVars
    BY <1>5 DEF DqPushFails, DqPopFails, DqPopReturns, Fails, At
  <2> QED BY <2>1, DqReturnsStep
<1> QED BY <1>1, <1>2, <1>3, <1>4, <1>5, DqPushStep, DqPushReturnsStep, DqPopStep, DqResets
        DEF DqNext

LEMMA DqStarts == IpcInit /\ DqInit => DqInv /\ Items = <<>> /\ DqHeld = [t \in Thread |-> Nothing]
<1> SUFFICES ASSUME IpcInit, DqInit
             PROVE  DqInv /\ Items = <<>> /\ DqHeld = [t \in Thread |-> Nothing]
  OBVIOUS
<1>1. WaitInv
  BY WaitStarts
<1>2. \A l \in List : Waiting(l) = {}
  BY EmptyList, <1>1 DEF IpcInit
<1>3. \A t \in Thread : pc[t].at = "run"
  BY DEF IpcInit, Running
<1>4. put_index = 0 /\ get_index = 0 /\ ring = [i \in 0 .. DqSize - 1 |-> Nothing]
  BY DEF DqInit
<1>5. DqOrder
  BY <1>4, DqAssumption DEF DqOrder
<1>6. DqPcOK
  BY <1>2, <1>3 DEF DqPcOK
<1>7. DqWakeOK
  BY <1>2, TwoLists DEF DqWakeOK
<1>8. Items = <<>>
  <2>1. (put_index - get_index) % IndexRange = 0
    BY <1>4, DqAssumption
  <2>2. Items = [i \in 1 .. 0 |-> ring[((get_index + i - 1) % IndexRange) % DqSize]]
    BY <2>1 DEF Items
  <2> QED BY <2>2
<1>9. DqHeld = [t \in Thread |-> Nothing]
  BY <1>3 DEF DqHeld
<1> QED BY <1>1, <1>5, <1>6, <1>7, <1>8, <1>9 DEF DqInv

LEMMA DqStutters ==
    ASSUME DqInv, Early, UNCHANGED <<ipcVars, dqVars>>
    PROVE  DqInv' /\ UNCHANGED <<Items, DqHeld>>
<1>1. UNCHANGED <<suspended, error, timed, pc, object>> /\ UNCHANGED dqVars
  BY DEF ipcVars, waitVars
<1>2. /\ WaitInv' /\ \A l : Waiting(l)' = Waiting(l)
      /\ \A x : Arriving(x)' = Arriving(x)
  BY <1>1 DEF DqInv, WaitInv, ListsOK, PcOK, WaitOK, Waiters, Waiting, Arriving
<1>3. Quiet
  BY <1>1, <1>2 DEF Quiet
<1>4. DqHeld' = DqHeld
  BY <1>1, DqHeldSame
<1> QED BY <1>1, <1>2, <1>3, <1>4, DqQuietStep, DqSame DEF DqInv

-----------------------------------------------------------------------------
(* What is written to a serial device, whoever else writes and whatever ends *)
(* between a push and the start of the DMA.                                  *)

\* The DMA is marked as activated from the region that finds it idle to the interrupt
\* that finds nothing more to send.  One thread at most is about to start it, and before
\* that it sends nothing.  Who has pushed looks at the mark in its next region.
TxOrder ==
    /\ activated <=> dma # Nothing \/ Starting # {}
    /\ \A t \in Starting : Starting = {t} /\ dma = Nothing
    /\ activated \/ Pushed # {} \/ DqEmpty

TxInv == DqInv /\ TxOrder

LEMMA TxSays ==
    ASSUME TxInv, Early
    PROVE  TxNoLostWakeup
BY DqSays DEF TxInv, TxOrder, TxNoLostWakeup, DqNoLostWakeup

\* A step of t that leaves the others where they are in their calls.
LEMMA TxPlaces ==
    ASSUME NEW t \in Thread, \A u \in Thread \ {t} : pc'[u] = pc[u]
    PROVE  /\ Starting' = IF pc'[t].at = "starting" THEN Starting \cup {t} ELSE Starting \ {t}
           /\ Pushed' = IF pc'[t].at = "pushed" THEN Pushed \cup {t} ELSE Pushed \ {t}
BY DEF Starting, Pushed

LEMMA TxPushStep ==
    ASSUME TxInv, Early, NEW t \in Thread, t \notin Waiters, pc[t].at \in {"run", "pushing"},
           NEW v \in Value, ~DqFull, DqStore(v), Goto(t, "pushed", v),
           UNCHANGED object, UNCHANGED txVars
    PROVE  TxInv'
<1>1. /\ put_index <= MaxPut /\ ring' = [ring EXCEPT ![put_index % DqSize] = v]
      /\ put_index' = (put_index + 1) % IndexRange /\ get_index' = get_index
      /\ ResumeIfAny(Receivers) /\ activated' = activated /\ dma' = dma
      /\ error' = [error EXCEPT ![t] = "ok"]
      /\ pc' = [pc EXCEPT ![t] = [at |-> "pushed", timeout |-> "none", arg |-> v]]
  BY DEF DqStore, Goto, txVars
<1>2. /\ Wakes(t, Receivers) /\ pc'[t].at = "pushed" /\ pc'[t].arg = v
      /\ \A u \in Thread \ {t} : pc'[u] = pc[u]
  <2>1. "pushed" \in BusySteps \cup {"run"} /\ v \in Args
    BY TwoLists DEF BusySteps
  <2>2. Wakes(t, Receivers) /\ pc'[t].at = "pushed" /\ pc'[t].arg = v
    BY <1>1, <2>1, CallWakes, TwoLists DEF TxInv, DqInv
  <2> QED BY <2>2 DEF Wakes
<1>3. DqInv'
  BY <1>1, <1>2, DqStoreStep DEF TxInv
<1>4. Starting' = Starting /\ Pushed' # {}
  <2>1. t \notin Starting
    BY DEF Starting
  <2> QED BY <1>2, <2>1, TxPlaces
<1>5. TxOrder'
  BY <1>1, <1>4 DEF TxInv, TxOrder
<1> QED BY <1>3, <1>5 DEF TxInv

\* The region behind a push.
LEMMA TxActivateStep ==
    ASSUME TxInv, Early, NEW t \in Thread, TxActivate(t)
    PROVE  TxInv'
<1>1. /\ t \notin Waiters /\ pc[t].at = "pushed" /\ activated' = TRUE /\ dma' = dma
      /\ error' = [error EXCEPT ![t] = "ok"]
      /\ IF activated
         THEN pc' = [pc EXCEPT ![t] = [at |-> "run", timeout |-> "none", arg |-> Nothing]]
         ELSE pc' = [pc EXCEPT ![t] = [at |-> "starting", timeout |-> "none", arg |-> pc[t].arg]]
      /\ UNCHANGED <<suspended, timed, object>> /\ UNCHANGED dqVars
  BY DEF TxActivate, At, Return, Running, Goto
<1>2. pc[t].arg \in Value /\ pc[t].arg \in Args
  BY <1>1, TwoLists DEF TxInv, DqInv, DqPcOK
<1>3. /\ Goes(t) /\ pc'[t].arg \in Value \cup {Nothing}
      /\ IF activated THEN pc'[t].at = "run" ELSE pc'[t].at = "starting" /\ pc'[t].arg \in Value
  <2>1. CASE activated
    <3>1. Goes(t) /\ pc'[t].at = "run" /\ pc'[t].arg = Nothing
      BY <1>1, <2>1, CallGoes, TwoLists DEF TxInv, DqInv
    <3> QED BY <2>1, <3>1
  <2>2. CASE ~activated
    <3>1. "starting" \in BusySteps \cup {"run"}
      BY DEF BusySteps
    <3>2. Goes(t) /\ pc'[t].at = "starting" /\ pc'[t].arg = pc[t].arg
      BY <1>1, <1>2, <2>2, <3>1, CallGoes DEF TxInv, DqInv
    <3> QED BY <1>2, <2>2, <3>2
  <2> QED BY <2>1, <2>2
<1>4. DqInv'
  <2>1. t \notin Arriving("popping") /\ t \notin Arriving("pushing")
    BY <1>1 DEF Arriving
  <2>2. pc'[t].at = "run" \/ (pc'[t].at = "starting" /\ pc'[t].arg \in Value)
    BY <1>3
  <2> QED BY <1>1, <1>3, <2>1, <2>2, DqReturnStep DEF TxInv
<1>5. Starting' = IF pc'[t].at = "starting" THEN Starting \cup {t} ELSE Starting \ {t}
  BY <1>3, TxPlaces DEF Goes
<1>6. t \notin Starting
  BY <1>1 DEF Starting
<1>7. TxOrder'
  <2>1. CASE activated
    <3>1. Starting' = Starting
      BY <1>3, <1>5, <1>6, <2>1
    <3> QED BY <1>1, <2>1, <3>1 DEF TxInv, TxOrder
  <2>2. CASE ~activated
    <3>1. Starting' = {t} /\ dma' = Nothing
      BY <1>1, <1>3, <1>5, <2>2 DEF TxInv, TxOrder
    <3> QED BY <1>1, <3>1 DEF TxOrder
  <2> QED BY <2>1, <2>2
<1> QED BY <1>4, <1>7 DEF TxInv

\* The start of the DMA.
LEMMA TxTransmitStep ==
    ASSUME TxInv, Early, NEW t \in Thread, TxTransmit(t)
    PROVE  TxInv'
<1>1. /\ t \notin Waiters /\ pc[t].at = "starting" /\ dma' = pc[t].arg
      /\ activated' = activated /\ error' = [error EXCEPT ![t] = "ok"]
      /\ pc' = [pc EXCEPT ![t] = [at |-> "run", timeout |-> "none", arg |-> Nothing]]
      /\ UNCHANGED <<suspended, timed, object>> /\ UNCHANGED dqVars
  BY DEF TxTransmit, At, Return, Running
<1>2. Goes(t) /\ pc'[t].at = "run"
  BY <1>1, CallGoes, TwoLists DEF TxInv, DqInv
<1>3. t \notin Arriving("popping") /\ t \notin Arriving("pushing")
  BY <1>1 DEF Arriving
<1>4. DqInv'
  BY <1>1, <1>2, <1>3, DqReturnStep DEF TxInv
<1>5. t \in Starting /\ Starting = {t} /\ activated
  BY <1>1 DEF Starting, TxInv, TxOrder
<1>6. Starting' = {}
  BY <1>2, <1>5, TxPlaces DEF Goes
<1>7. dma' # Nothing
  BY <1>1, IpcAssumption DEF TxInv, DqInv, DqPcOK
<1>8. TxOrder'
  BY <1>1, <1>5, <1>6, <1>7 DEF TxOrder
<1> QED BY <1>4, <1>8 DEF TxInv

\* The interrupt at the end of a transfer, of which nothing may be queued any more.
LEMMA TxDoneStep ==
    ASSUME TxInv, Early, TxDone
    PROVE  TxInv'
<1>1. /\ dma # Nothing /\ TxPop /\ activated' = (get_index' # put_index)
      /\ dma' = IF get_index' = put_index THEN Nothing ELSE ring[get_index' % DqSize]
      /\ ring' = ring /\ put_index' = put_index /\ UNCHANGED <<error, pc, object>>
  BY DEF TxDone
<1>2. Starting' = {}
  <2>1. Starting = {}
    BY <1>1 DEF TxInv, TxOrder
  <2> QED BY <1>1, <2>1 DEF Starting
<1>3. CASE DqEmpty
  <2>1. UNCHANGED <<suspended, timed, get_index>>
    BY <1>1, <1>3 DEF TxPop
  <2>2. UNCHANGED <<ipcVars, dqVars>>
    BY <1>1, <2>1, <1>3 DEF TxDone, ipcVars, waitVars, dqVars
  <2>3. activated' = FALSE /\ dma' = Nothing /\ DqEmpty'
    BY <1>1, <1>3, <2>1 DEF DqEmpty
  <2>4. TxOrder'
    BY <1>2, <2>3 DEF TxOrder
  <2> QED BY <2>2, <2>4, DqStutters DEF TxInv
<1>4. CASE ~DqEmpty
  <2>1. /\ get_index' = (get_index + 1) % IndexRange
        /\ IF put_index - get_index' <= Lwm THEN ResumeIfAny(Senders)
                                            ELSE UNCHANGED <<suspended, timed>>
    BY <1>1, <1>4 DEF TxPop
  <2>2. IF put_index - get_index' <= Lwm THEN Wakes(Nothing, Senders) ELSE Goes(Nothing)
    <3>1. CASE put_index - get_index' <= Lwm
      <4>1. ResumeIfAny(Senders)
        BY <2>1, <3>1
      <4>2. Wakes(Nothing, Senders)
        BY <1>1, <4>1, HandlerWakes, TwoLists DEF TxInv, DqInv
      <4> QED BY <3>1, <4>2
    <3>2. CASE ~(put_index - get_index' <= Lwm)
      <4>1. UNCHANGED <<suspended, timed, error, pc, object>>
        BY <1>1, <2>1, <3>2
      <4>2. Goes(Nothing)
        BY <4>1, HandlerGoes DEF TxInv, DqInv
      <4> QED BY <3>2, <4>2
    <3> QED BY <3>1, <3>2
  <2>3. Nothing \notin Thread /\ Nothing \notin Waiters
    BY IpcAssumption, WaitersType, WaitersAre DEF TxInv, DqInv, WaitInv
  <2>4. DqInv'
    BY <1>1, <1>4, <2>1, <2>2, <2>3, DqTakeStep DEF TxInv
  <2>5. get_index' # put_index' => ring'[get_index' % DqSize] \in Value
    <3>1. get_index' = get_index + 1 /\ DqOrder'
      BY <1>1, <1>4, <2>1, DqTakes DEF TxInv, DqInv
    <3> QED BY <3>1 DEF DqOrder
  <2>6. TxOrder'
    BY <1>1, <1>2, <2>5, IpcAssumption DEF TxOrder, DqEmpty
  <2> QED BY <2>4, <2>6 DEF TxInv
<1> QED BY <1>3, <1>4

LEMMA TxWaitStep ==
    ASSUME TxInv, Early, NEW t \in Thread, TxPushWaitsAgain(t) \/ \E v \in Value : TxPushWaits(t, v)
    PROVE  TxInv'
<1>1. PICK arg \in Value, timeout \in Timeouts :
          Wait(t, Senders, Enqueue(suspended[Senders], t), "pushing", arg, timeout)
  <2>1. CASE TxPushWaitsAgain(t)
    <3>1. Wait(t, Senders, Enqueue(suspended[Senders], t), "pushing", pc[t].arg, pc[t].timeout)
          /\ pc[t].at = "pushing"
      BY <2>1 DEF TxPushWaitsAgain, DqPushWaitsAgain, Woken, At
    <3>2. pc[t].arg \in Value /\ pc[t].timeout \in Timeouts
      BY <3>1 DEF TxInv, DqInv, DqPcOK, WaitInv, PcOK
    <3> QED BY <3>1, <3>2
  <2>2. CASE \E v \in Value : TxPushWaits(t, v)
    BY <2>2 DEF TxPushWaits, Blocks, Timeouts
  <2> QED BY <2>1, <2>2
<1>2. /\ t \notin Waiters /\ pc[t].at \in {"run", "pushing"} /\ DqFull
      /\ UNCHANGED object /\ UNCHANGED dqVars /\ UNCHANGED txVars
  BY DEF TxPushWaitsAgain, DqPushWaitsAgain, TxPushWaits, Blocks, Woken, May, At
<1>3. arg \in Args
  BY TwoLists
<1>4. DqInv'
  BY <1>1, <1>2, <1>3, DqWaitsStep, TwoLists DEF TxInv
<1>5. Pushed' = Pushed /\ Starting' = Starting
  <2>1. DOMAIN pc = Thread
    BY DEF TxInv, DqInv, WaitInv, PcOK
  <2>2. pc'[t].at = "pushing" /\ \A u \in Thread \ {t} : pc'[u] = pc[u]
    BY <1>1, <2>1 DEF Wait
  <2>3. t \notin Pushed /\ t \notin Starting
    BY <1>2 DEF Pushed, Starting
  <2>4. Pushed' = Pushed \ {t} /\ Starting' = Starting \ {t}
    BY <2>2, TxPlaces
  <2> QED BY <2>3, <2>4
<1>6. /\ put_index' = put_index /\ get_index' = get_index
      /\ activated' = activated /\ dma' = dma
  BY <1>2 DEF dqVars, txVars
<1>7. TxOrder'
  BY <1>5, <1>6 DEF TxInv, TxOrder, DqEmpty
<1> QED BY <1>4, <1>7 DEF TxInv

LEMMA TxStepKeeps ==
    ASSUME TxInv, Early, TxNext
    PROVE  TxInv'
<1>1. ASSUME NEW t \in Thread, NEW v \in Value, TxPush(t, v) PROVE TxInv'
  <2>1. /\ t \notin Waiters /\ pc[t].at = "run" /\ ~DqFull /\ DqStore(v)
        /\ Goto(t, "pushed", v) /\ UNCHANGED object /\ UNCHANGED txVars
    BY <1>1 DEF TxPush, May, At
  <2> QED BY <2>1, TxPushStep
<1>2. ASSUME NEW t \in Thread, TxPushReturns(t) PROVE TxInv'
  <2>1. /\ t \notin Waiters /\ pc[t].at = "pushing" /\ ~DqFull
        /\ DqStore(pc[t].arg) /\ Goto(t, "pushed", pc[t].arg) /\ UNCHANGED object
        /\ UNCHANGED txVars
    BY <1>2 DEF TxPushReturns, Woken, At
  <2>2. PICK v \in Value : v = pc[t].arg
    BY <2>1 DEF TxInv, DqInv, DqPcOK
  <2>3. DqStore(v) /\ Goto(t, "pushed", v)
    BY <2>1, <2>2
  <2> QED BY <2>1, <2>3, TxPushStep
<1> QED BY <1>1, <1>2, TxDoneStep, TxActivateStep, TxTransmitStep, TxWaitStep DEF TxNext

LEMMA TxStarts == IpcInit /\ DqInit /\ TxInit => TxInv
<1>1. IpcInit => Starting = {}
  BY DEF IpcInit, Running, Starting
<1>2. IpcInit /\ DqInit /\ TxInit => TxOrder
  BY <1>1 DEF TxInit, DqInit, TxOrder, DqEmpty
<1> QED BY <1>2, DqStarts DEF TxInv

LEMMA TxStutters ==
    ASSUME TxInv, Early, UNCHANGED <<ipcVars, dqVars, txVars>>
    PROVE  TxInv'
<1>1. /\ put_index' = put_index /\ get_index' = get_index
      /\ activated' = activated /\ dma' = dma /\ pc' = pc
  BY DEF dqVars, txVars, ipcVars, waitVars
<1>2. TxOrder'
  BY <1>1 DEF TxInv, TxOrder, DqEmpty, Pushed, Starting
<1> QED BY <1>2, DqStutters DEF TxInv

-----------------------------------------------------------------------------
(* The data queue and the serial device, as objects.                        *)

\* The invariant of a data queue and of a serial device that transmits; of another
\* object the DMA never sends.
QueuesInv ==
    /\ kind = "dq" => DqInv
    /\ kind = "tx" => TxInv
    /\ kind # "tx" => activated = FALSE /\ dma = Nothing

LEMMA QueuesStart == Init => QueuesInv /\ (kind = "dq" => DataQueueQueue!Init)
BY DqStarts, TxStarts DEF Init, QueuesInv, TxInit, DataQueueQueue!Init

LEMMA QueuesStep ==
    ASSUME QueuesInv, Early, [Next]_vars
    PROVE  QueuesInv' /\ kind' = kind /\ DqQueueStep
<1>1. CASE UNCHANGED vars
  <2>1. /\ kind' = kind /\ UNCHANGED <<ipcVars, dqVars>> /\ UNCHANGED <<ipcVars, dqVars, txVars>>
        /\ activated' = activated /\ dma' = dma
    BY <1>1 DEF vars, txVars
  <2> QED BY <2>1, DqStutters, TxStutters DEF QueuesInv, DqQueueStep
<1>2. CASE Next
  <2>1. kind' = kind
    BY <1>2 DEF Next
  <2>2. CASE kind = "dq"
    <3>1. DqNext
      BY <1>2, <2>2 DEF Next
    <3>2. UNCHANGED txVars
      BY <1>2, <2>2 DEF Next
    <3>3. DqInv' /\ DqQueueStep
      BY <2>2, <3>1, DqStepKeeps DEF QueuesInv
    <3> QED BY <2>1, <2>2, <3>2, <3>3 DEF QueuesInv, txVars
  <2>3. CASE kind = "tx"
    <3>1. TxNext
      BY <1>2, <2>3 DEF Next
    <3> QED BY <2>1, <2>3, <3>1, TxStepKeeps DEF QueuesInv, DqQueueStep
  <2>4. CASE kind \notin {"dq", "tx"}
    <3>1. UNCHANGED txVars
      BY <1>2, <2>4 DEF Next
    <3> QED BY <2>1, <2>4, <3>1 DEF QueuesInv, txVars, DqQueueStep
  <2> QED BY <2>2, <2>3, <2>4
<1> QED BY <1>1, <1>2

\* As long as the index of a data queue has not wrapped it implements a bounded queue:
\* however pushes of threads and of interrupts, pops, timeouts and resets race, what is
\* popped was pushed, in that order, once (rt_data_queue_push, rt_data_queue_pop).
THEOREM DataQueueCorrect == Early => (Spec /\ kind = "dq" => DataQueueIsQueue)
<1> SUFFICES ASSUME Early PROVE Spec /\ kind = "dq" => DataQueueIsQueue
  OBVIOUS
<1>1. Init => QueuesInv /\ (kind = "dq" => DataQueueQueue!Init)
  BY QueuesStart
<1>2. QueuesInv /\ kind = "dq" /\ [Next]_vars => QueuesInv' /\ (kind = "dq")' /\ DqQueueStep
  BY QueuesStep
<1>3. kind = "dq" /\ (kind = "dq")' /\ DqQueueStep =>
          [DataQueueQueue!Next]_<<IF kind = "dq" THEN Items ELSE <<>>, DqHeld>>
  BY DEF DqQueueStep
<1> QED BY <1>1, <1>2, <1>3, PTL DEF Spec, DataQueueIsQueue, DataQueueQueue!Spec

-----------------------------------------------------------------------------
(* The lists of a message queue.                                            *)

\* From i on, nx leads through the items of q and ends.
Chain(nx, i, q) ==
    /\ i = IF q = <<>> THEN Nothing ELSE q[1]
    /\ \A k \in 1 .. Len(q) : nx[q[k]] = IF k = Len(q) THEN Nothing ELSE q[k + 1]

FromStep(i, h) ==
    [k \in 0 .. Cardinality(Item) |->
        IF k = 0 THEN i ELSE IF h[k - 1] = Nothing THEN Nothing ELSE next[h[k - 1]]]

LEMMA FromDef ==
    ASSUME NEW i, NEW g, g = FromStep(i, g)
    PROVE  \E h : /\ h = FromStep(i, h)
                  /\ From(i) = [k \in 1 .. Cardinality({j \in 0 .. Cardinality(Item) :
                                                        h[j] # Nothing})
                                 |-> h[k - 1]]
<1>1. PICK h : h = CHOOSE x : x = FromStep(i, x)
  OBVIOUS
<1>2. h = FromStep(i, h)
  BY <1>1
<1>3. From(i) =
          [k \in 1 .. Cardinality({j \in 0 .. Cardinality(Item) : h[j] # Nothing}) |-> h[k - 1]]
  BY <1>1 DEF From, FromStep
<1> QED BY <1>2, <1>3

LEMMA FromUnique ==
    ASSUME NEW i, NEW g, NEW h, g = FromStep(i, g), h = FromStep(i, h)
    PROVE  g = h
<1>1. PICK n \in Nat : n = Cardinality(Item)
  BY MqAssumption, FS_CardinalityType
<1>2. /\ g = [k \in 0 .. n |-> IF k = 0 THEN i ELSE IF g[k - 1] = Nothing THEN Nothing
                                                   ELSE next[g[k - 1]]]
      /\ h = [k \in 0 .. n |-> IF k = 0 THEN i ELSE IF h[k - 1] = Nothing THEN Nothing
                                                   ELSE next[h[k - 1]]]
  BY <1>1 DEF FromStep
<1>3. ASSUME NEW T \in SUBSET Nat, T = {k \in 0 .. n : g[k] # h[k]}, T # {} PROVE FALSE
  <2>1. PICK m \in Nat : m \in T /\ \A y \in T : m <= y
    BY <1>3, LeastPlace
  <2>2. m \in 0 .. n /\ g[m] # h[m]
    BY <1>3, <2>1
  <2>3. g[0] = i /\ h[0] = i
    BY <1>2
  <2>4. m # 0 /\ m - 1 \in 0 .. n /\ m - 1 \notin T
    BY <2>1, <2>2, <2>3
  <2>5. g[m - 1] = h[m - 1]
    BY <1>3, <2>4
  <2>6. /\ g[m] = IF g[m - 1] = Nothing THEN Nothing ELSE next[g[m - 1]]
        /\ h[m] = IF h[m - 1] = Nothing THEN Nothing ELSE next[h[m - 1]]
    BY <1>2, <2>2, <2>4
  <2> QED BY <2>2, <2>5, <2>6
<1>4. {k \in 0 .. n : g[k] # h[k]} \in SUBSET Nat
  OBVIOUS
<1>5. \A k \in 0 .. n : g[k] = h[k]
  BY <1>3, <1>4
<1> QED BY <1>2, <1>5

\* An injective sequence of the elements of a finite set is no longer than the set.
LEMMA NoLonger ==
    ASSUME NEW S, IsFiniteSet(S), NEW q \in Seq(S), IsInjective(q)
    PROVE  Len(q) \in 0 .. Cardinality(S)
<1>1. PICK m \in Nat : m = Len(q)
  BY LenProperties
<1>2. q \in [1 .. m -> S]
  BY <1>1, LenProperties
<1>3. q \in Injection(1 .. m, S)
  BY <1>2 DEF Injection
<1>4. Cardinality(1 .. m) = m
  BY FS_Interval
<1>5. Cardinality(1 .. m) <= Cardinality(S) /\ Cardinality(S) \in Nat
  BY <1>3, FS_Injection, FS_CardinalityType
<1> QED BY <1>1, <1>4, <1>5

\* An injective sequence of items is no longer than there are items.
LEMMA ShortList ==
    ASSUME NEW q \in Seq(Item), IsInjective(q)
    PROVE  Len(q) <= Cardinality(Item)
<1>1. Len(q) \in 0 .. Cardinality(Item)
  BY MqAssumption, NoLonger
<1> QED BY <1>1, MqAssumption, FS_CardinalityType

\* What From walks through is the sequence that next chains.
LEMMA FromIs ==
    ASSUME NEW i, NEW q \in Seq(Item), IsInjective(q), Chain(next, i, q)
    PROVE  From(i) = q
<1>1. PICK n \in Nat : n = Cardinality(Item)
  BY MqAssumption, FS_CardinalityType
<1>2. PICK m \in Nat : m = Len(q) /\ m <= n
  BY <1>1, LenProperties, ShortList
<1>3. Nothing \notin Item
  BY MqAssumption
<1>4. \A k \in 1 .. m : q[k] \in Item
  BY <1>2
<1>5. PICK g : g = [k \in 0 .. n |-> IF k < m THEN q[k + 1] ELSE Nothing]
  OBVIOUS
<1>6. g = FromStep(i, g)
  <2>1. ASSUME NEW k \in 0 .. n
        PROVE  g[k] = IF k = 0 THEN i
                      ELSE IF g[k - 1] = Nothing THEN Nothing ELSE next[g[k - 1]]
    <3>1. CASE k = 0
      <4>1. g[0] = IF 0 < m THEN q[1] ELSE Nothing
        BY <1>5
      <4>2. q = <<>> <=> m = 0
        BY <1>2, EmptySeq
      <4> QED BY <1>2, <3>1, <4>1, <4>2 DEF Chain
    <3>2. CASE k # 0
      <4>1. k - 1 \in 0 .. n /\ (k - 1) + 1 = k
        BY <3>2
      <4>2. g[k - 1] = IF k - 1 < m THEN q[k] ELSE Nothing
        BY <1>5, <4>1
      <4>3. g[k] = IF k < m THEN q[k + 1] ELSE Nothing
        BY <1>5
      <4>4. CASE k - 1 < m
        <5>1. k \in 1 .. m /\ (k = m <=> ~(k < m))
          BY <3>2, <4>4
        <5>2. next[q[k]] = IF k = m THEN Nothing ELSE q[k + 1]
          BY <1>2, <5>1 DEF Chain
        <5>3. q[k] # Nothing
          BY <1>3, <1>4, <5>1
        <5> QED BY <3>2, <4>2, <4>3, <4>4, <5>1, <5>2, <5>3
      <4>5. CASE ~(k - 1 < m)
        <5>1. ~(k < m)
          BY <4>5
        <5> QED BY <3>2, <4>2, <4>3, <4>5, <5>1
      <4> QED BY <4>4, <4>5
    <3> QED BY <3>1, <3>2
  <2> QED BY <1>1, <1>5, <2>1 DEF FromStep
<1>7. From(i) = [k \in 1 .. Cardinality({j \in 0 .. n : g[j] # Nothing}) |-> g[k - 1]]
  <2>1. PICK h : /\ h = FromStep(i, h)
                 /\ From(i) = [k \in 1 .. Cardinality({j \in 0 .. Cardinality(Item) :
                                                       h[j] # Nothing}) |-> h[k - 1]]
    BY ONLY <1>6, FromDef
  <2>2. h = g
    BY ONLY <1>6, <2>1, FromUnique
  <2> QED BY <1>1, <2>1, <2>2
<1>8. {j \in 0 .. n : g[j] # Nothing} = 0 .. m - 1
  <2>1. ASSUME NEW j \in 0 .. n PROVE g[j] # Nothing <=> j < m
    <3>1. j < m => j + 1 \in 1 .. m
      OBVIOUS
    <3> QED BY <1>3, <1>4, <1>5, <3>1
  <2> QED BY <1>2, <2>1
<1>9. Cardinality(0 .. m - 1) = m
  BY FS_Interval
<1>10. From(i) = [k \in 1 .. m |-> g[k - 1]]
  BY <1>7, <1>8, <1>9
<1>11. \A k \in 1 .. m : g[k - 1] = q[k]
  <2> SUFFICES ASSUME NEW k \in 1 .. m PROVE g[k - 1] = q[k]
    OBVIOUS
  <2>1. k - 1 \in 0 .. n /\ k - 1 < m /\ (k - 1) + 1 = k
    BY <1>2
  <2> QED BY <1>5, <2>1
<1>12. q = [k \in 1 .. m |-> q[k]]
  BY <1>2, LenProperties
<1> QED BY <1>10, <1>11, <1>12

LEMMA SeqFacts ==
    ASSUME NEW S, NEW q \in Seq(S)
    PROVE  /\ Len(q) \in Nat /\ DOMAIN q = 1 .. Len(q) /\ (q = <<>> <=> Len(q) = 0)
           /\ \A k \in 1 .. Len(q) : q[k] \in S /\ q[k] \in ToSet(q)
           /\ \A x \in ToSet(q) : \E k \in 1 .. Len(q) : x = q[k]
<1>1. Len(q) \in Nat /\ DOMAIN q = 1 .. Len(q) /\ (q = <<>> <=> Len(q) = 0)
  BY LenProperties, EmptySeq
<1> QED BY <1>1, ElementOfSeq DEF ToSet

LEMMA ChainSame ==
    ASSUME NEW S, NEW q \in Seq(S), NEW nx, NEW ny, NEW i, Chain(nx, i, q),
           \A x \in ToSet(q) : ny[x] = nx[x]
    PROVE  Chain(ny, i, q)
BY SeqFacts DEF Chain

LEMMA EmptyChain ==
    ASSUME NEW nx
    PROVE  Chain(nx, Nothing, <<>>)
<1>1. Len(<<>>) = 0 /\ 1 .. 0 = {}
  OBVIOUS
<1> QED BY <1>1 DEF Chain

\* The first item is taken off.
LEMMA ChainTail ==
    ASSUME NEW S, NEW q \in Seq(S), IsInjective(q), NEW nx, NEW i, Chain(nx, i, q), q # <<>>
    PROVE  /\ i = q[1] /\ i = Head(q) /\ i \in ToSet(q) /\ Chain(nx, nx[i], Tail(q))
           /\ Tail(q) \in Seq(S) /\ IsInjective(Tail(q)) /\ ToSet(Tail(q)) = ToSet(q) \ {i}
           /\ Len(Tail(q)) = Len(q) - 1 /\ \A k \in 1 .. Len(q) - 1 : Tail(q)[k] = q[k + 1]
<1>1. PICK n \in Nat : n = Len(q) /\ n > 0
  BY SeqFacts
<1>2. i = q[1] /\ q[1] = Head(q)
  BY DEF Chain
<1>3. PICK r : r = Tail(q)
  OBVIOUS
<1>4. r \in Seq(S) /\ Len(r) = n - 1 /\ \A k \in 1 .. n - 1 : r[k] = q[k + 1]
  BY <1>1, <1>3, HeadTailProperties
<1>5. i \in ToSet(q) /\ IsInjective(r) /\ ToSet(r) = ToSet(q) \ {i}
  BY <1>2, <1>3, TailElements
<1>6. Chain(nx, nx[i], r)
  <2>1. \A k \in 1 .. n : nx[q[k]] = IF k = n THEN Nothing ELSE q[k + 1]
    BY <1>1 DEF Chain
  <2>2. nx[i] = IF r = <<>> THEN Nothing ELSE r[1]
    <3>1. r = <<>> <=> n = 1
      BY <1>1, <1>4, EmptySeq
    <3>2. nx[i] = IF 1 = n THEN Nothing ELSE q[2]
      BY <1>1, <1>2, <2>1
    <3>3. n # 1 => r[1] = q[2]
      BY <1>1, <1>4
    <3> QED BY <3>1, <3>2, <3>3
  <2>3. ASSUME NEW k \in 1 .. n - 1
        PROVE  nx[r[k]] = IF k = n - 1 THEN Nothing ELSE r[k + 1]
    <3>1. k + 1 \in 1 .. n /\ (k + 1 = n <=> k = n - 1) /\ (k # n - 1 => k + 1 \in 1 .. n - 1)
      BY <1>1
    <3>2. r[k] = q[k + 1] /\ (k # n - 1 => r[k + 1] = q[(k + 1) + 1])
      BY <1>4, <3>1
    <3> QED BY <2>1, <3>1, <3>2
  <2> QED BY <1>4, <2>2, <2>3 DEF Chain
<1> QED BY <1>1, <1>2, <1>3, <1>4, <1>5, <1>6

\* An item is put in front of the others.
LEMMA ChainFirst ==
    ASSUME NEW S, NEW q \in Seq(S), IsInjective(q), NEW nx, NEW ny, NEW i, Chain(nx, i, q),
           NEW x \in S, x \notin ToSet(q), ny[x] = i, \A y \in ToSet(q) : ny[y] = nx[y]
    PROVE  /\ Push(q, x) \in Seq(S) /\ IsInjective(Push(q, x)) /\ Chain(ny, x, Push(q, x))
           /\ ToSet(Push(q, x)) = ToSet(q) \cup {x} /\ Push(q, x) # <<>>
           /\ Len(Push(q, x)) = Len(q) + 1 /\ Push(q, x)[1] = x
           /\ \A k \in 1 .. Len(q) : Push(q, x)[k + 1] = q[k]
<1>1. PICK n \in Nat : n = Len(q)
  BY SeqFacts
<1>2. PICK r : r = Push(q, x)
  OBVIOUS
<1>3. r \in Seq(S) /\ IsInjective(r) /\ ToSet(r) = ToSet(q) \cup {x}
  BY <1>2, PushElements
<1>4. Len(r) = n + 1 /\ r[1] = x /\ \A k \in 1 .. n : r[k + 1] = q[k]
  <2>1. <<x>> \in Seq(S) /\ Len(<<x>>) = 1 /\ <<x>>[1] = x
    OBVIOUS
  <2>2. r = <<x>> \o q
    BY <1>2 DEF Push
  <2>3. /\ Len(r) = 1 + n
        /\ \A k \in 1 .. 1 + n : r[k] = IF k <= 1 THEN <<x>>[k] ELSE q[k - 1]
    BY <1>1, <2>1, <2>2, ConcatProperties
  <2>4. \A k \in 1 .. n : k + 1 \in 1 .. 1 + n /\ ~(k + 1 <= 1) /\ (k + 1) - 1 = k
    OBVIOUS
  <2> QED BY <2>1, <2>3, <2>4
<1>5. r # <<>>
  BY <1>4, EmptySeq
<1>6. \A k \in 1 .. n : ny[q[k]] = IF k = n THEN Nothing ELSE q[k + 1]
  BY <1>1, SeqFacts DEF Chain
<1>7. i = IF n = 0 THEN Nothing ELSE q[1]
  BY <1>1, SeqFacts DEF Chain
<1>8. ASSUME NEW k \in 1 .. n + 1 PROVE ny[r[k]] = IF k = n + 1 THEN Nothing ELSE r[k + 1]
  <2>1. CASE k = 1
    <3>1. n # 0 => r[2] = q[1]
      BY <1>4
    <3> QED BY <1>4, <1>7, <2>1, <3>1
  <2>2. CASE k # 1
    <3>1. PICK j \in 1 .. n : k = j + 1
      BY <2>2
    <3>2. r[k] = q[j] /\ (j # n => j + 1 \in 1 .. n) /\ (j = n <=> k = n + 1)
      BY <1>4, <3>1
    <3>3. j # n => r[k + 1] = q[j + 1]
      BY <1>4, <3>1, <3>2
    <3> QED BY <1>6, <3>2, <3>3
  <2> QED BY <2>1, <2>2
<1>9. Chain(ny, x, r)
  BY <1>4, <1>5, <1>8 DEF Chain
<1> QED BY <1>1, <1>2, <1>3, <1>4, <1>5, <1>9

\* An item is put behind the others.
LEMMA ChainLast ==
    ASSUME NEW S, NEW q \in Seq(S), IsInjective(q), NEW nx, NEW ny, NEW i, Chain(nx, i, q),
           NEW x \in S, x \notin ToSet(q), ny[x] = Nothing, Nothing \notin S,
           \A k \in 1 .. Len(q) : ny[q[k]] = IF k = Len(q) THEN x ELSE nx[q[k]]
    PROVE  /\ Enqueue(q, x) \in Seq(S) /\ IsInjective(Enqueue(q, x))
           /\ Chain(ny, IF i = Nothing THEN x ELSE i, Enqueue(q, x))
           /\ ToSet(Enqueue(q, x)) = ToSet(q) \cup {x} /\ Enqueue(q, x) # <<>>
           /\ Len(Enqueue(q, x)) = Len(q) + 1 /\ Enqueue(q, x)[Len(q) + 1] = x
           /\ \A k \in 1 .. Len(q) : Enqueue(q, x)[k] = q[k]
<1>1. PICK n \in Nat : n = Len(q)
  BY SeqFacts
<1>2. PICK r : r = Enqueue(q, x)
  OBVIOUS
<1>3. r \in Seq(S) /\ IsInjective(r) /\ ToSet(r) = ToSet(q) \cup {x} /\ r # <<>>
  BY <1>2, EnqueueElements
<1>4. Len(r) = n + 1 /\ r[n + 1] = x /\ \A k \in 1 .. n : r[k] = q[k]
  BY <1>1, <1>2, AppendProperties DEF Enqueue
<1>5. \A k \in 1 .. n : /\ ny[q[k]] = IF k = n THEN x ELSE nx[q[k]]
                        /\ nx[q[k]] = IF k = n THEN Nothing ELSE q[k + 1]
  BY <1>1 DEF Chain
<1>6. (IF i = Nothing THEN x ELSE i) = r[1]
  <2>1. CASE n = 0
    <3>1. q = <<>>
      BY <1>1, <2>1, SeqFacts
    <3>2. i = Nothing
      BY <3>1 DEF Chain
    <3>3. r[1] = x
      BY <1>4, <2>1
    <3> QED BY <3>2, <3>3
  <2>2. CASE n # 0
    <3>1. 1 \in 1 .. n /\ q # <<>>
      BY <1>1, <2>2, SeqFacts
    <3>2. i = q[1] /\ q[1] \in S /\ r[1] = q[1]
      BY <1>1, <1>4, <3>1, SeqFacts DEF Chain
    <3> QED BY <3>2
  <2> QED BY <2>1, <2>2
<1>7. ASSUME NEW k \in 1 .. n + 1 PROVE ny[r[k]] = IF k = n + 1 THEN Nothing ELSE r[k + 1]
  <2>1. CASE k = n + 1
    BY <1>4, <2>1
  <2>2. CASE k = n /\ n # 0
    <3>1. n \in 1 .. n /\ n # n + 1
      BY <2>2
    <3> QED BY <1>4, <1>5, <2>2, <3>1
  <2>3. CASE k \in 1 .. n - 1
    <3>1. k \in 1 .. n /\ k # n /\ k + 1 \in 1 .. n /\ k # n + 1
      BY <2>3
    <3> QED BY <1>4, <1>5, <3>1
  <2> QED BY <2>1, <2>2, <2>3
<1>8. Chain(ny, IF i = Nothing THEN x ELSE i, r)
  BY <1>3, <1>4, <1>6, <1>7 DEF Chain
<1> QED BY <1>1, <1>2, <1>3, <1>4, <1>8

\* ny turns the chain q round, and leads on to the chain f, which starts at i.
Turns(q, f, nx, ny, i) ==
    /\ IsInjective(q) /\ IsInjective(f) /\ ToSet(q) \cap ToSet(f) = {} /\ Chain(nx, i, f)
    /\ \A k \in 1 .. Len(q) : ny[q[k]] = IF k = 1 THEN i ELSE q[k - 1]
    /\ \A y \in ToSet(f) : ny[y] = nx[y]

LEMMA ChainTurned ==
    ASSUME NEW q \in Seq(Item), NEW f \in Seq(Item), NEW nx, NEW ny, NEW i,
           Turns(q, f, nx, ny, i)
    PROVE  \E r \in Seq(Item) :
              /\ IsInjective(r) /\ ToSet(r) = ToSet(q) \cup ToSet(f)
              /\ Chain(ny, IF Len(q) = 0 THEN i ELSE q[Len(q)], r)
<1> USE DEF Turns
<1>1. PICK n \in Nat : n = Len(q)
  BY SeqFacts
<1>2. PICK m \in Nat : m = Len(f)
  BY SeqFacts
<1>3. /\ \A k \in 1 .. n : q[k] \in Item /\ q[k] \in ToSet(q)
      /\ \A k \in 1 .. m : f[k] \in Item /\ f[k] \in ToSet(f)
      /\ \A x \in ToSet(q) : \E k \in 1 .. n : x = q[k]
      /\ \A x \in ToSet(f) : \E k \in 1 .. m : x = f[k]
  BY <1>1, <1>2, SeqFacts
<1>4. PICK r : r = [k \in 1 .. n + m |-> IF k <= n THEN q[n + 1 - k] ELSE f[k - n]]
  OBVIOUS
<1>5. /\ \A k \in 1 .. n : n + 1 - k \in 1 .. n /\ n + 1 - (n + 1 - k) = k
                           /\ k \in 1 .. n + m /\ n + k \notin 1 .. n
      /\ \A k \in 1 .. m : n + k \in 1 .. n + m /\ ~(n + k <= n) /\ (n + k) - n = k
      /\ \A k \in 1 .. n + m : k \in 1 .. n \/ (k > n /\ k - n \in 1 .. m)
  OBVIOUS
<1>6. /\ \A k \in 1 .. n : r[n + 1 - k] = q[k] /\ r[k] = q[n + 1 - k]
      /\ \A k \in 1 .. m : r[n + k] = f[k]
  <2>1. \A k \in 1 .. n : r[k] = q[n + 1 - k]
    BY <1>4, <1>5
  <2>2. ASSUME NEW k \in 1 .. n PROVE r[n + 1 - k] = q[k]
    <3>1. PICK j \in 1 .. n : j = n + 1 - k /\ n + 1 - j = k
      BY <1>5
    <3> QED BY <2>1, <3>1
  <2>3. ASSUME NEW k \in 1 .. m PROVE r[n + k] = f[k]
    <3>1. PICK j \in 1 .. n + m : j = n + k /\ ~(j <= n) /\ j - n = k
      BY <1>5
    <3> QED BY <1>4, <3>1
  <2> QED BY <2>1, <2>2, <2>3
<1>7. \A k \in 1 .. n + m : \/ k <= n /\ n + 1 - k \in 1 .. n /\ r[k] = q[n + 1 - k]
                            \/ k > n /\ k - n \in 1 .. m /\ r[k] = f[k - n]
  BY <1>4, <1>5
<1>8. r \in Seq(Item) /\ Len(r) = n + m /\ DOMAIN r = 1 .. n + m
  <2>1. \A k \in 1 .. n + m : r[k] \in Item
    BY <1>3, <1>7
  <2>2. PICK l \in Nat : l = n + m
    OBVIOUS
  <2>3. r \in [1 .. l -> Item]
    BY <1>4, <2>1, <2>2
  <2>4. r \in Seq(Item) /\ Len(r) = l /\ DOMAIN r = 1 .. l
    BY ONLY <2>3, l \in Nat
  <2> QED BY <2>2, <2>4
<1>9. ToSet(r) = ToSet(q) \cup ToSet(f)
  <2>1. ASSUME NEW x \in ToSet(r) PROVE x \in ToSet(q) \cup ToSet(f)
    <3>1. PICK k \in 1 .. n + m : x = r[k]
      BY <1>8 DEF ToSet
    <3> QED BY <1>3, <1>7, <3>1
  <2>2. ASSUME NEW x \in ToSet(q) PROVE x \in ToSet(r)
    <3>1. PICK k \in 1 .. n : x = q[k]
      BY <1>3
    <3>2. n + 1 - k \in DOMAIN r /\ r[n + 1 - k] = x
      BY <1>5, <1>6, <1>8, <3>1
    <3> QED BY <3>2 DEF ToSet
  <2>3. ASSUME NEW x \in ToSet(f) PROVE x \in ToSet(r)
    <3>1. PICK k \in 1 .. m : x = f[k]
      BY <1>3
    <3>2. n + k \in DOMAIN r /\ r[n + k] = x
      BY <1>5, <1>6, <1>8, <3>1
    <3> QED BY <3>2 DEF ToSet
  <2> QED BY <2>1, <2>2, <2>3
<1>10. IsInjective(r)
  <2>1. /\ \A a, b \in 1 .. n : q[a] = q[b] => a = b
        /\ \A a, b \in 1 .. m : f[a] = f[b] => a = b
    <3>1. DOMAIN q = 1 .. n /\ DOMAIN f = 1 .. m
      BY <1>1, <1>2, SeqFacts
    <3> QED BY <3>1 DEF IsInjective
  <2>2. ASSUME NEW a \in 1 .. n + m, NEW b \in 1 .. n + m, r[a] = r[b] PROVE a = b
    <3>1. CASE a <= n /\ b <= n
      <4>1. /\ n + 1 - a \in 1 .. n /\ n + 1 - b \in 1 .. n
            /\ q[n + 1 - a] = q[n + 1 - b]
        BY <1>7, <2>2, <3>1
      <4>2. n + 1 - a = n + 1 - b
        BY <2>1, <4>1
      <4> QED BY ONLY <4>2, n \in Nat, a \in 1 .. n + m, b \in 1 .. n + m, m \in Nat
    <3>2. CASE a > n /\ b > n
      <4>1. a - n \in 1 .. m /\ b - n \in 1 .. m /\ f[a - n] = f[b - n]
        BY <1>7, <2>2, <3>2
      <4>2. a - n = b - n
        BY <2>1, <4>1
      <4> QED BY ONLY <4>2, n \in Nat, a \in 1 .. n + m, b \in 1 .. n + m, m \in Nat
    <3>3. CASE a <= n /\ b > n
      <4>1. r[a] \in ToSet(q) /\ r[b] \in ToSet(f)
        BY <1>3, <1>7, <3>3
      <4> QED BY <2>2, <4>1
    <3>4. CASE a > n /\ b <= n
      <4>1. r[a] \in ToSet(f)
        BY <1>3, <1>7, <3>4
      <4>2. r[b] \in ToSet(q)
        BY <1>3, <1>7, <3>4
      <4> QED BY <2>2, <4>1, <4>2
    <3> QED BY <3>1, <3>2, <3>3, <3>4
  <2> QED BY <1>8, <2>2 DEF IsInjective
<1>11. i = IF m = 0 THEN Nothing ELSE f[1]
  BY <1>2, SeqFacts DEF Chain
<1>12. (IF n = 0 THEN i ELSE q[n]) = IF r = <<>> THEN Nothing ELSE r[1]
  <2>1. r = <<>> <=> n + m = 0
    BY <1>8, EmptySeq
  <2>2. CASE n = 0
    <3>1. m # 0 => r[n + 1] = f[1] /\ n + 1 = 1
      BY <1>6, <2>2
    <3> QED BY <1>11, <2>1, <2>2, <3>1
  <2>3. CASE n # 0
    <3>1. 1 \in 1 .. n /\ n + 1 - 1 = n /\ n + m # 0
      BY <2>3
    <3> QED BY <1>6, <2>1, <2>3, <3>1
  <2> QED BY <2>2, <2>3
<1>13. ASSUME NEW k \in 1 .. n + m PROVE ny[r[k]] = IF k = n + m THEN Nothing ELSE r[k + 1]
  <2>1. CASE k <= n
    <3>1. PICK j \in 1 .. n : j = n + 1 - k /\ r[k] = q[j]
      BY <1>7, <2>1
    <3>2. ny[r[k]] = IF j = 1 THEN i ELSE q[j - 1]
      BY <1>1, <3>1
    <3>3. CASE j = 1
      <4>1. k = n /\ (k = n + m <=> m = 0) /\ (m # 0 => 1 \in 1 .. m)
        BY <2>1, <3>1, <3>3
      <4>2. m # 0 => r[k + 1] = f[1]
        BY <1>6, <4>1
      <4> QED BY <1>11, <3>2, <3>3, <4>1, <4>2
    <3>4. CASE j # 1
      <4>1. PICK l \in 1 .. n : l = j - 1 /\ n + 1 - l = k + 1
        BY <3>1, <3>4
      <4>2. r[k + 1] = q[j - 1]
        BY <1>6, <4>1
      <4>3. k # n + m
        BY <3>1, <3>4
      <4> QED BY <3>2, <3>4, <4>2, <4>3
    <3> QED BY <3>3, <3>4
  <2>2. CASE k > n
    <3>1. PICK j \in 1 .. m : j = k - n /\ r[k] = f[j]
      BY <1>7, <2>2
    <3>2. ny[r[k]] = IF j = m THEN Nothing ELSE f[j + 1]
      <4>1. nx[f[j]] = IF j = m THEN Nothing ELSE f[j + 1]
        BY <1>2 DEF Chain
      <4>2. f[j] \in ToSet(f)
        BY <1>3
      <4>3. ny[f[j]] = nx[f[j]]
        BY <4>2
      <4> QED BY <3>1, <4>1, <4>3
    <3>3. j = m <=> k = n + m
      BY <3>1
    <3>4. j # m => r[k + 1] = f[j + 1]
      <4> SUFFICES ASSUME j # m PROVE r[k + 1] = f[j + 1]
        OBVIOUS
      <4>1. PICK l \in 1 .. m : l = j + 1 /\ n + l = k + 1
        BY <3>1
      <4> QED BY <1>6, <4>1
    <3> QED BY <3>2, <3>3, <3>4
  <2> QED BY <2>1, <2>2
<1>14. Chain(ny, IF n = 0 THEN i ELSE q[n], r)
  BY <1>8, <1>12, <1>13 DEF Chain
<1> QED BY <1>1, <1>8, <1>9, <1>10, <1>14

-----------------------------------------------------------------------------
(* Where the items of a message queue are, and the invariant.               *)

\* What the queue and the free list hold.
MqLists(q, f) ==
    /\ q \in Seq(Item) /\ f \in Seq(Item) /\ IsInjective(q) /\ IsInjective(f)
    /\ ToSet(q) \cap ToSet(f) = {}
    /\ Chain(next, msg_queue_head, q) /\ Chain(next, msg_queue_free, f)
    /\ entries = Len(q)
    /\ msg_queue_tail = IF q = <<>> THEN Nothing ELSE q[Len(q)]
    /\ \A i \in ToSet(q) : content[i] \in Value

\* An item that is not in linked is in the hands of one thread.
MqOwned(linked) ==
    /\ \A t \in Thread : Private(t) \cap linked = {}
    /\ \A t, u \in Thread : t # u => Private(t) \cap Private(u) = {}
    /\ \A i \in Item \ linked : \E t \in Thread : i \in Private(t)

MqPlaces == \E q, f : MqLists(q, f) /\ MqOwned(ToSet(q) \cup ToSet(f))

MqTypes ==
    /\ next \in [Item -> Item \cup {Nothing}]
    /\ content \in [Item -> Value \cup {Nothing}]

Holds(u) ==
    /\ pc[u].at \in {"filling", "urgent"} => pc[u].arg \in [item : Item, value : Value]
    /\ pc[u].at = "copying" => pc[u].arg \in Item /\ content[pc[u].arg] \in Value

MqPcOK ==
    /\ \A u \in Waiting(Receivers) : pc[u].at = "receiving"
    /\ \A u \in Thread : Holds(u)

MqWakeOK == Waiting(Receivers) # {} => entries <= Cardinality(Arriving("receiving"))

MqInv == WaitInv /\ MqPlaces /\ MqTypes /\ MqPcOK /\ MqWakeOK

LEMMA PrivateIs ==
    ASSUME NEW t
    PROVE  /\ pc[t].at \in {"filling", "urgent"} => Private(t) = {pc[t].arg.item}
           /\ pc[t].at = "copying" => Private(t) = {pc[t].arg}
           /\ pc[t].at \notin {"filling", "urgent", "copying"} => Private(t) = {}
           /\ pc'[t].at \in {"filling", "urgent"} => Private(t)' = {pc'[t].arg.item}
           /\ pc'[t].at = "copying" => Private(t)' = {pc'[t].arg}
           /\ pc'[t].at \notin {"filling", "urgent", "copying"} => Private(t)' = {}
BY DEF Private

LEMMA PrivateSame ==
    ASSUME NEW u,
           \/ pc'[u].at = pc[u].at /\ pc'[u].arg = pc[u].arg
           \/ /\ pc[u].at \notin {"filling", "urgent", "copying"}
              /\ pc'[u].at \notin {"filling", "urgent", "copying"}
    PROVE  Private(u)' = Private(u)
BY DEF Private

LEMMA PrivateItem ==
    ASSUME MqPcOK, NEW t \in Thread
    PROVE  Private(t) \subseteq Item
BY PrivateIs DEF MqPcOK, Holds

\* An item is taken off a list...
LEMMA OwnedTaken ==
    ASSUME NEW linked, MqOwned(linked), NEW t \in Thread, NEW i \in linked,
           Private(t) = {}, Private(t)' = {i},
           \A u \in Thread \ {t} : Private(u)' = Private(u)
    PROVE  MqOwned(linked \ {i})'
<1>1. \A u \in Thread : Private(u)' \cap (linked \ {i}) = {}
  BY DEF MqOwned
<1>2. \A u, w \in Thread : u # w => Private(u)' \cap Private(w)' = {}
  BY DEF MqOwned
<1>3. \A j \in Item \ (linked \ {i}) : \E u \in Thread : j \in Private(u)'
  BY DEF MqOwned
<1> QED BY <1>1, <1>2, <1>3 DEF MqOwned

\* ...or put on one.
LEMMA OwnedLinked ==
    ASSUME NEW linked, MqOwned(linked), NEW t \in Thread, NEW i,
           Private(t) = {i}, Private(t)' = {},
           \A u \in Thread \ {t} : Private(u)' = Private(u)
    PROVE  MqOwned(linked \cup {i})'
<1>1. \A u \in Thread : Private(u)' \cap (linked \cup {i}) = {}
  BY DEF MqOwned
<1>2. \A u, w \in Thread : u # w => Private(u)' \cap Private(w)' = {}
  BY DEF MqOwned
<1>3. \A j \in Item \ (linked \cup {i}) : \E u \in Thread : j \in Private(u)'
  BY DEF MqOwned
<1> QED BY <1>1, <1>2, <1>3 DEF MqOwned

LEMMA OwnedSame ==
    ASSUME NEW linked, MqOwned(linked), \A u \in Thread : Private(u)' = Private(u)
    PROVE  MqOwned(linked)'
BY DEF MqOwned

\* The messages of the queue q.
Texts(q) == [k \in 1 .. Len(q) |-> content[q[k]]]

LEMMA MessagesAre ==
    ASSUME NEW q, NEW f, MqLists(q, f)
    PROVE  /\ From(msg_queue_head) = q /\ From(msg_queue_free) = f /\ Messages = Texts(q)
           /\ Messages \in Seq(Value) /\ Len(Messages) = Len(q) /\ Len(q) \in Nat
           /\ Len(q) <= Cardinality(Item)
<1>1. From(msg_queue_head) = q /\ From(msg_queue_free) = f
  BY FromIs DEF MqLists
<1>2. PICK n \in Nat : n = Len(q) /\ DOMAIN q = 1 .. n
  BY SeqFacts DEF MqLists
<1>3. Messages = Texts(q)
  BY <1>1, <1>2 DEF Messages, Texts
<1>4. \A k \in 1 .. n : content[q[k]] \in Value
  BY <1>2, SeqFacts DEF MqLists
<1>5. Messages \in [1 .. n -> Value]
  BY <1>2, <1>3, <1>4 DEF Texts
<1>6. Messages \in Seq(Value) /\ Len(Messages) = n
  BY ONLY <1>5, n \in Nat
<1> QED BY <1>1, <1>2, <1>3, <1>6, ShortList DEF MqLists

MessagesAreTexts ==
    \A q, f : MqLists(q, f) => /\ Messages = Texts(q) /\ Messages \in Seq(Value)
                               /\ Len(Messages) = Len(q)

LEMMA TextsOfLists == MessagesAreTexts
BY MessagesAre DEF MessagesAreTexts

LEMMA MqHeldSame ==
    ASSUME \A u \in Thread :
              pc[u].at = "copying" \/ pc'[u].at = "copying"
              => pc'[u].at = pc[u].at /\ content'[pc'[u].arg] = content[pc[u].arg]
    PROVE  MqHeld' = MqHeld
<1>1. \A u \in Thread : (IF pc'[u].at = "copying" THEN content'[pc'[u].arg] ELSE Nothing)
                        = (IF pc[u].at = "copying" THEN content[pc[u].arg] ELSE Nothing)
  OBVIOUS
<1> QED BY <1>1 DEF MqHeld

LEMMA MqMakes ==
    ASSUME WaitInv', MqTypes', MqPcOK',
           Waiting(Receivers)' # {} => entries' <= Cardinality(Arriving("receiving")'),
           NEW q, NEW f, MqLists(q, f)', NEW linked, linked = ToSet(q) \cup ToSet(f),
           MqOwned(linked)'
    PROVE  MqInv' /\ Messages' = Texts(q)' /\ Messages' \in Seq(Value) /\ Len(Messages') = Len(q)
<1>1. MqWakeOK'
  BY DEF MqWakeOK
<1>2. MqOwned(ToSet(q) \cup ToSet(f))'
  OBVIOUS
<1>3. MqPlaces'
  BY <1>2 DEF MqPlaces
<1>4. MessagesAreTexts'
  BY TextsOfLists, PTL
<1>5. Messages' = Texts(q)' /\ Messages' \in Seq(Value) /\ Len(Messages') = Len(q)
  BY <1>4 DEF MessagesAreTexts
<1> QED BY <1>1, <1>3, <1>5 DEF MqInv

\* A step that is about no item.
LEMMA MqSame ==
    ASSUME MqInv, WaitInv', UNCHANGED mqVars,
           \A u \in Waiting(Receivers)' : pc'[u].at = "receiving",
           \A u \in Thread :
              \/ pc'[u].at = pc[u].at /\ pc'[u].arg = pc[u].arg
              \/ /\ pc[u].at \notin {"filling", "urgent", "copying"}
                 /\ pc'[u].at \notin {"filling", "urgent", "copying"},
           Waiting(Receivers)' # {} => entries <= Cardinality(Arriving("receiving")')
    PROVE  MqInv' /\ UNCHANGED <<Messages, MqHeld>>
<1>1. UNCHANGED <<msg_queue_head, msg_queue_tail, msg_queue_free, next, content, entries>>
  BY DEF mqVars
<1>2. PICK q, f : MqLists(q, f) /\ MqOwned(ToSet(q) \cup ToSet(f))
  BY DEF MqInv, MqPlaces
<1>3. PICK linked : linked = ToSet(q) \cup ToSet(f)
  OBVIOUS
<1>4. MqLists(q, f)'
  BY <1>1, <1>2 DEF MqLists, Chain
<1>5. MqOwned(linked)'
  BY <1>2, <1>3, OwnedSame, PrivateSame
<1>6. MqTypes'
  BY <1>1 DEF MqInv, MqTypes
<1>7. MqPcOK'
  BY <1>1 DEF MqInv, MqPcOK, Holds
<1>8. MqInv'
  BY <1>1, <1>3, <1>4, <1>5, <1>6, <1>7, MqMakes
<1>9. Messages' = Messages
  <2>1. Messages' = Texts(q)'
    BY <1>1, <1>3, <1>4, <1>5, <1>6, <1>7, MqMakes
  <2>2. Messages = Texts(q)
    BY <1>2, MessagesAre
  <2>3. Texts(q)' = Texts(q)
    BY <1>1 DEF Texts
  <2> QED BY <2>1, <2>2, <2>3
<1>10. MqHeld' = MqHeld
  BY <1>1, MqHeldSame
<1> QED BY <1>8, <1>9, <1>10

-----------------------------------------------------------------------------
(* The steps of a message queue.                                            *)

MqQueueStep == MessageQueueQueue!NextUrgent \/ UNCHANGED <<Messages, MqHeld>>

LEMMA MqFacts ==
    /\ Receivers \in List /\ "receiving" \in WaitSteps /\ "receiving" \in StepsAt(Receivers)
    /\ {"filling", "urgent", "copying"} \subseteq BusySteps
    /\ {"receiving", "filling", "urgent", "copying"} \subseteq CallSteps
    /\ Nothing \in Args /\ Item \subseteq Args /\ [item : Item, value : Value] \subseteq Args
    /\ Nothing \notin Item /\ Nothing \notin Value /\ Nothing \notin Thread
    /\ IsFiniteSet(Item)
BY IpcAssumption, MqAssumption
   DEF Receivers, List, WaitSteps, StepsAt, ReceiverSteps, SenderSteps, BusySteps, CallSteps, Args

\* t, which does not wait, goes on.
LEMMA MqPcKeeps ==
    ASSUME WaitInv, MqPcOK, NEW t \in Thread, t \notin Waiters,
           \A u \in Thread \ {t} : pc'[u] = pc[u],
           Waiting(Receivers)' \subseteq Waiting(Receivers), Holds(t)',
           \A u \in Thread \ {t} : pc[u].at = "copying" => content'[pc[u].arg] = content[pc[u].arg]
    PROVE  MqPcOK'
<1>1. t \notin Waiting(Receivers) /\ Waiting(Receivers) \subseteq Thread
  BY WaitersAre, WaitersType DEF WaitInv
<1>2. \A u \in Waiting(Receivers)' : pc'[u].at = "receiving"
  BY <1>1 DEF MqPcOK
<1>3. \A u \in Thread : Holds(u)'
  BY DEF MqPcOK, Holds
<1> QED BY <1>2, <1>3 DEF MqPcOK

\* rt_mq_send: the first region.
LEMMA MqTakeItemStep ==
    ASSUME MqInv, NEW t \in Thread, NEW step \in {"filling", "urgent"}, NEW v \in Value,
           MqTakeItem(t, step, v)
    PROVE  MqInv' /\ UNCHANGED <<Messages, MqHeld>>
<1>1. /\ t \notin Waiters /\ pc[t].at = "run" /\ msg_queue_free # Nothing
      /\ msg_queue_free' = next[msg_queue_free]
      /\ UNCHANGED <<suspended, timed, object>>
      /\ UNCHANGED <<msg_queue_head, msg_queue_tail, next, content, entries>>
      /\ error' = [error EXCEPT ![t] = "ok"]
      /\ pc' = [pc EXCEPT ![t] = [at |-> step, timeout |-> "none",
                                  arg |-> [item |-> msg_queue_free, value |-> v]]]
  BY DEF MqTakeItem, May, At, Goto
<1>2. PICK q, f : MqLists(q, f) /\ MqOwned(ToSet(q) \cup ToSet(f))
  BY DEF MqInv, MqPlaces
<1>3. PICK i : i = msg_queue_free
  OBVIOUS
<1>4. f # <<>>
  BY <1>1, <1>2 DEF MqLists, Chain
<1>5. PICK r : r = Tail(f)
  OBVIOUS
<1>6. /\ i \in ToSet(f) /\ Chain(next, next[i], r) /\ r \in Seq(Item) /\ IsInjective(r)
      /\ ToSet(r) = ToSet(f) \ {i}
  BY <1>2, <1>3, <1>4, <1>5, ChainTail DEF MqLists
<1>7. i \in Item /\ i \notin ToSet(q)
  BY <1>2, <1>6, SeqFacts DEF MqLists
<1>8. PICK arg \in [item : Item, value : Value] : arg = [item |-> i, value |-> v]
  BY <1>7
<1>9. /\ Goes(t) /\ pc'[t].at = step /\ pc'[t].arg = arg
  <2>1. arg \in Args /\ step \in BusySteps \cup {"run"}
    BY <1>8, MqFacts
  <2> QED BY <1>1, <1>3, <1>8, <2>1, CallGoes DEF MqInv
<1>10. /\ WaitInv' /\ \A u \in Thread \ {t} : pc'[u] = pc[u]
       /\ Waiting(Receivers)' = Waiting(Receivers)
       /\ Arriving("receiving")' = Arriving("receiving") \ {t}
  BY <1>9, MqFacts DEF Goes
<1>11. Private(t) = {} /\ Private(t)' = {i} /\ \A u \in Thread \ {t} : Private(u)' = Private(u)
  BY <1>1, <1>8, <1>9, <1>10, PrivateIs, PrivateSame
<1>12. PICK linked : linked = ToSet(q) \cup ToSet(f)
  OBVIOUS
<1>13. MqOwned(linked \ {i})' /\ linked \ {i} = ToSet(q) \cup ToSet(r)
  BY <1>2, <1>6, <1>7, <1>11, <1>12, OwnedTaken
<1>14. MqLists(q, r)'
  BY <1>1, <1>2, <1>3, <1>6 DEF MqLists, Chain
<1>15. MqTypes'
  BY <1>1 DEF MqInv, MqTypes
<1>16. MqPcOK'
  <2>1. Holds(t)'
    BY <1>9 DEF Holds
  <2> QED BY <1>1, <1>10, <2>1, MqPcKeeps DEF MqInv
<1>17. Waiting(Receivers)' # {} => entries' <= Cardinality(Arriving("receiving")')
  <2>1. t \notin Arriving("receiving")
    BY <1>1 DEF Arriving
  <2> QED BY <1>1, <1>10, <2>1 DEF MqInv, MqWakeOK
<1>18. MqInv' /\ Messages' = Texts(q)'
  BY <1>10, <1>13, <1>14, <1>15, <1>16, <1>17, MqMakes
<1>19. Messages' = Messages
  <2>1. Texts(q)' = Texts(q)
    BY <1>1 DEF Texts
  <2> QED BY <1>2, <1>18, <2>1, MessagesAre
<1>20. MqHeld' = MqHeld
  BY <1>1, <1>9, <1>10, MqHeldSame
<1> QED BY <1>18, <1>19, <1>20

\* rt_mq_recv: the head is unlinked.
LEMMA MqRecvStep ==
    ASSUME MqInv, NEW t \in Thread, MqRecv(t)
    PROVE  MqInv' /\ MqQueueStep
<1>1. /\ t \notin Waiters /\ pc[t].at \in {"run", "receiving"} /\ entries # 0
      /\ msg_queue_head' = next[msg_queue_head]
      /\ msg_queue_tail' = IF msg_queue_tail = msg_queue_head THEN Nothing ELSE msg_queue_tail
      /\ entries' = entries - 1
      /\ UNCHANGED <<suspended, timed, object>> /\ UNCHANGED <<msg_queue_free, next, content>>
      /\ error' = [error EXCEPT ![t] = "ok"]
      /\ pc' = [pc EXCEPT ![t] = [at |-> "copying", timeout |-> "none", arg |-> msg_queue_head]]
  BY DEF MqRecv, MqTake, May, Woken, At, Goto
<1>2. PICK q, f : MqLists(q, f) /\ MqOwned(ToSet(q) \cup ToSet(f))
  BY DEF MqInv, MqPlaces
<1>3. PICK i : i = msg_queue_head
  OBVIOUS
<1>4. PICK n \in Nat : n = Len(q) /\ n # 0 /\ entries = n
  BY <1>1, <1>2, SeqFacts DEF MqLists
<1>5. q # <<>>
  BY <1>2, <1>4, SeqFacts DEF MqLists
<1>6. PICK r : r = Tail(q)
  OBVIOUS
<1>7. /\ i = q[1] /\ i = Head(q) /\ i \in ToSet(q) /\ Chain(next, next[i], r)
      /\ r \in Seq(Item) /\ IsInjective(r) /\ ToSet(r) = ToSet(q) \ {i}
      /\ Len(r) = n - 1 /\ \A k \in 1 .. n - 1 : r[k] = q[k + 1]
  BY <1>2, <1>3, <1>4, <1>5, <1>6, ChainTail DEF MqLists
<1>8. i \in Item /\ i \notin ToSet(f) /\ content[i] \in Value
  BY <1>2, <1>7, SeqFacts DEF MqLists
<1>9. /\ Goes(t) /\ pc'[t].at = "copying" /\ pc'[t].arg = i
  <2>1. i \in Args /\ "copying" \in BusySteps \cup {"run"}
    BY <1>8, MqFacts
  <2> QED BY <1>1, <1>3, <2>1, CallGoes DEF MqInv
<1>10. /\ WaitInv' /\ \A u \in Thread \ {t} : pc'[u] = pc[u]
       /\ Waiting(Receivers)' = Waiting(Receivers)
       /\ Arriving("receiving")' = Arriving("receiving") \ {t}
  BY <1>9, MqFacts DEF Goes
<1>11. Private(t) = {} /\ Private(t)' = {i} /\ \A u \in Thread \ {t} : Private(u)' = Private(u)
  BY <1>1, <1>9, <1>10, PrivateIs, PrivateSame
<1>12. PICK linked : linked = ToSet(q) \cup ToSet(f)
  OBVIOUS
<1>13. MqOwned(linked \ {i})' /\ linked \ {i} = ToSet(r) \cup ToSet(f)
  BY <1>2, <1>7, <1>8, <1>11, <1>12, OwnedTaken
<1>14. msg_queue_tail' = IF r = <<>> THEN Nothing ELSE r[Len(r)]
  <2>1. msg_queue_tail = q[n] /\ (r = <<>> <=> n = 1)
    BY <1>2, <1>4, <1>5, <1>7, EmptySeq DEF MqLists
  <2>2. q[n] = q[1] => n = 1
    <3>1. 1 \in DOMAIN q /\ n \in DOMAIN q
      BY <1>2, <1>4, SeqFacts DEF MqLists
    <3> QED BY <1>2, <3>1 DEF MqLists, IsInjective
  <2>3. CASE n = 1
    BY <1>1, <1>3, <1>7, <2>1, <2>3
  <2>4. CASE n # 1
    <3>1. n - 1 \in 1 .. n - 1 /\ (n - 1) + 1 = n
      BY <1>4, <2>4
    <3>2. r[n - 1] = q[n]
      BY <1>7, <3>1
    <3> QED BY <1>1, <1>3, <1>7, <2>1, <2>2, <2>4, <3>2
  <2> QED BY <2>3, <2>4
<1>15. MqLists(r, f)'
  <2>1. entries' = Len(r)
    BY <1>1, <1>4, <1>7
  <2>2. ToSet(r) \cap ToSet(f) = {} /\ \A x \in ToSet(r) : content'[x] \in Value
    BY <1>1, <1>2, <1>7 DEF MqLists
  <2>3. Chain(next, msg_queue_head, r)' /\ Chain(next, msg_queue_free, f)'
    BY <1>1, <1>2, <1>3, <1>7 DEF MqLists, Chain
  <2> QED BY <1>2, <1>7, <1>14, <2>1, <2>2, <2>3 DEF MqLists
<1>16. MqTypes'
  BY <1>1 DEF MqInv, MqTypes
<1>17. MqPcOK'
  <2>1. Holds(t)'
    BY <1>1, <1>8, <1>9 DEF Holds
  <2> QED BY <1>1, <1>10, <2>1, MqPcKeeps DEF MqInv
<1>18. Waiting(Receivers)' # {} => entries' <= Cardinality(Arriving("receiving")')
  <2>1. /\ Cardinality(Arriving("receiving")') >= Cardinality(Arriving("receiving")) - 1
        /\ Cardinality(Arriving("receiving")) \in Nat /\ Cardinality(Arriving("receiving")') \in Nat
    BY <1>10, GoneCounts
  <2> QED BY <1>1, <1>4, <1>10, <2>1 DEF MqInv, MqWakeOK
<1>19. MqInv' /\ Messages' = Texts(r)'
  BY <1>10, <1>13, <1>15, <1>16, <1>17, <1>18, MqMakes
<1>20. Messages # <<>> /\ Head(Messages) = content[i] /\ Messages' = Tail(Messages)
  <2>1. Messages = Texts(q) /\ Messages \in Seq(Value) /\ Len(Messages) = n
    BY <1>2, <1>4, MessagesAre
  <2>2. PICK m \in Seq(Value) : m = Messages
    BY <2>1
  <2>3. m # <<>> /\ Len(m) = n
    BY <1>4, <2>1, <2>2, EmptySeq
  <2>4. /\ Head(m) = m[1] /\ Tail(m) \in Seq(Value) /\ Len(Tail(m)) = n - 1
        /\ \A k \in 1 .. n - 1 : Tail(m)[k] = m[k + 1]
    BY <2>3, HeadTailProperties
  <2>5. \A k \in 1 .. n : m[k] = content[q[k]]
    BY <1>4, <2>1, <2>2 DEF Texts
  <2>6. m[1] = content[i]
    BY <1>4, <1>7, <2>5
  <2>7. Messages' = [k \in 1 .. n - 1 |-> content[r[k]]]
    BY <1>1, <1>7, <1>19 DEF Texts
  <2>8. \A k \in 1 .. n - 1 : Tail(m)[k] = content[r[k]]
    <3> SUFFICES ASSUME NEW k \in 1 .. n - 1 PROVE Tail(m)[k] = content[r[k]]
      OBVIOUS
    <3>1. PICK j \in 1 .. n : j = k + 1
      BY <1>4
    <3> QED BY <1>7, <2>4, <2>5, <3>1
  <2>9. Tail(m) = [k \in 1 .. n - 1 |-> content[r[k]]]
    <3>1. PICK l \in Seq(Value) : l = Tail(m) /\ Len(l) = n - 1
      BY <2>4
    <3>2. l = [k \in 1 .. n - 1 |-> l[k]]
      BY <3>1, LenProperties
    <3> QED BY <2>8, <3>1, <3>2
  <2> QED BY <2>2, <2>3, <2>4, <2>6, <2>7, <2>9
<1>21. MqHeld' = [MqHeld EXCEPT ![t] = content[i]] /\ MqHeld[t] = Nothing
  <2>1. MqHeld = [u \in Thread |-> IF pc[u].at = "copying" THEN content[pc[u].arg] ELSE Nothing]
    BY DEF MqHeld
  <2>2. MqHeld' = [u \in Thread |-> IF pc'[u].at = "copying" THEN content'[pc'[u].arg]
                                                             ELSE Nothing]
    BY DEF MqHeld
  <2> QED BY <1>1, <1>9, <1>10, <2>1, <2>2
<1>22. MessageQueueQueue!Recv(t)
  BY <1>20, <1>21 DEF MessageQueueQueue!Recv
<1> QED BY <1>19, <1>22 DEF MqQueueStep, MessageQueueQueue!NextUrgent

-----------------------------------------------------------------------------
(* An item is linked, or goes to the free list.                             *)

\* The second region of a send makes of the queue q the queue r, in which t has put the
\* item i with the message v; f is the free list.
Links(t, i, v, q, f, r) ==
    /\ t \notin Waiters /\ pc[t].at \in {"filling", "urgent"} /\ pc[t].arg.item = i
    /\ content' = [content EXCEPT ![i] = v] /\ entries' = entries + 1
    /\ ResumeIfAny(Receivers) /\ Return(t) /\ UNCHANGED object /\ UNCHANGED msg_queue_free
    /\ MqLists(q, f) /\ MqOwned(ToSet(q) \cup ToSet(f))
    /\ r \in Seq(Item) /\ IsInjective(r) /\ ToSet(r) = ToSet(q) \cup {i}
    /\ Len(r) = Len(q) + 1 /\ Chain(next', msg_queue_head', r)
    /\ msg_queue_tail' = r[Len(r)] /\ next' \in [Item -> Item \cup {Nothing}]
    /\ \A y \in ToSet(f) : next'[y] = next[y]

LEMMA MqLinks ==
    ASSUME MqInv, NEW t \in Thread, NEW i \in Item, NEW v \in Value, NEW q, NEW f, NEW r,
           Links(t, i, v, q, f, r)
    PROVE  /\ MqInv' /\ Messages' = Texts(r)' /\ MqHeld' = MqHeld
           /\ Len(Messages) < Cardinality(Item) /\ i \notin ToSet(q) \cup ToSet(f)
<1> USE DEF Links
<1>1. /\ error' = [error EXCEPT ![t] = "ok"]
      /\ pc' = [pc EXCEPT ![t] = [at |-> "run", timeout |-> "none", arg |-> Nothing]]
  BY DEF Return, Running
<1>2. Wakes(t, Receivers) /\ pc'[t].at = "run"
  BY <1>1, CallWakes, MqFacts DEF MqInv
<1>3. /\ WaitInv' /\ \A u \in Thread \ {t} : pc'[u] = pc[u]
      /\ Waiting(Receivers)' \subseteq Waiting(Receivers)
  BY <1>2 DEF Wakes
<1>4. Private(t) = {i} /\ Private(t)' = {} /\ \A u \in Thread \ {t} : Private(u)' = Private(u)
  BY <1>2, <1>3, PrivateIs, PrivateSame
<1>5. i \notin ToSet(q) \cup ToSet(f)
  BY <1>4 DEF MqOwned
<1>6. PICK linked : linked = ToSet(q) \cup ToSet(f)
  OBVIOUS
<1>7. MqOwned(linked \cup {i})' /\ linked \cup {i} = ToSet(r) \cup ToSet(f)
  BY <1>4, <1>6, OwnedLinked
<1>8. content'[i] = v /\ \A x \in Item \ {i} : content'[x] = content[x]
  BY DEF MqInv, MqTypes
<1>9. MqLists(r, f)'
  <2>1. r # <<>> /\ ToSet(r) \cap ToSet(f) = {}
    BY <1>5, SeqFacts DEF MqLists
  <2>2. Chain(next, msg_queue_free, f)'
    <3>1. Chain(next', msg_queue_free, f)
      BY ChainSame DEF MqLists
    <3> QED BY <3>1 DEF Chain
  <2>3. ASSUME NEW x \in ToSet(r) PROVE content'[x] \in Value
    <3>1. x \in Item
      BY SeqFacts
    <3> QED BY <1>8, <3>1 DEF MqLists
  <2> QED BY <2>1, <2>2, <2>3 DEF MqLists
<1>10. MqTypes'
  BY DEF MqInv, MqTypes
<1>11. \A u \in Thread \ {t} : pc[u].at = "copying" => content'[pc[u].arg] = content[pc[u].arg]
  <2> SUFFICES ASSUME NEW u \in Thread \ {t}, pc[u].at = "copying"
               PROVE  content'[pc[u].arg] = content[pc[u].arg]
    OBVIOUS
  <2>1. Private(u) = {pc[u].arg} /\ Private(u) \cap Private(t) = {}
    BY PrivateIs DEF MqOwned
  <2>2. pc[u].arg \in Item
    BY DEF MqInv, MqPcOK, Holds
  <2> QED BY <1>4, <1>8, <2>1, <2>2
<1>12. MqPcOK'
  <2>1. Holds(t)'
    BY <1>2 DEF Holds
  <2> QED BY <1>3, <1>11, <2>1, MqPcKeeps DEF MqInv
<1>13. ASSUME Waiting(Receivers)' # {}
       PROVE  entries' <= Cardinality(Arriving("receiving")')
  <2>1. t \notin Arriving("receiving")
    BY DEF Arriving
  <2>2. \A u \in Waiting(Receivers) : pc[u].at = "receiving"
    BY DEF MqInv, MqPcOK
  <2>3. Cardinality(Arriving("receiving")') = Cardinality(Arriving("receiving")) + 1
    BY <1>2, <1>13, <2>1, <2>2, WakesCounts, MqFacts
  <2>4. entries <= Cardinality(Arriving("receiving"))
    BY <1>3, <1>13 DEF MqInv, MqWakeOK
  <2>5. Cardinality(Arriving("receiving")) \in Nat /\ entries \in Nat
    BY ArrivingFinite, FS_CardinalityType, SeqFacts DEF MqLists
  <2> QED BY <2>3, <2>4, <2>5
<1>14. MqInv' /\ Messages' = Texts(r)'
  BY <1>3, <1>7, <1>9, <1>10, <1>12, <1>13, MqMakes
<1>15. MqHeld' = MqHeld
  BY <1>2, <1>3, <1>11, MqHeldSame
<1>16. Len(Messages) < Cardinality(Item)
  <2>1. Len(Messages) = Len(q) /\ Len(q) \in Nat
    BY MessagesAre
  <2>2. Len(r) <= Cardinality(Item) /\ Cardinality(Item) \in Nat
    BY ShortList, MqAssumption, FS_CardinalityType
  <2> QED BY <2>1, <2>2
<1> QED BY <1>5, <1>14, <1>15, <1>16

\* rt_mq_send: behind the tail.
LEMMA MqSendStep ==
    ASSUME MqInv, NEW t \in Thread, MqLink(t, "filling")
    PROVE  MqInv' /\ MqQueueStep
<1>1. /\ t \notin Waiters /\ pc[t].at = "filling" /\ LinkLast(pc[t].arg.item)
      /\ content' = [content EXCEPT ![pc[t].arg.item] = pc[t].arg.value]
      /\ entries' = entries + 1 /\ ResumeIfAny(Receivers) /\ Return(t)
      /\ UNCHANGED object /\ UNCHANGED msg_queue_free
  BY DEF MqLink, At
<1>2. pc[t].arg \in [item : Item, value : Value]
  BY <1>1 DEF MqInv, MqPcOK, Holds
<1>3. PICK i \in Item, v \in Value : i = pc[t].arg.item /\ v = pc[t].arg.value
  BY <1>2
<1>4. PICK q, f : MqLists(q, f) /\ MqOwned(ToSet(q) \cup ToSet(f))
  BY DEF MqInv, MqPlaces
<1>5. i \notin ToSet(q) \cup ToSet(f)
  <2>1. Private(t) = {i}
    BY <1>1, <1>3, PrivateIs
  <2> QED BY <1>4, <2>1 DEF MqOwned
<1>6. /\ next' = [k \in Item |-> IF k = i THEN Nothing
                                 ELSE IF k = msg_queue_tail THEN i ELSE next[k]]
      /\ msg_queue_tail' = i
      /\ msg_queue_head' = IF msg_queue_head = Nothing THEN i ELSE msg_queue_head
  BY <1>1, <1>3 DEF LinkLast
<1>7. PICK n \in Nat : n = Len(q) /\ entries = n
  BY <1>4, SeqFacts DEF MqLists
<1>8. \A k \in 1 .. n : q[k] \in Item /\ q[k] \in ToSet(q)
  BY <1>4, <1>7, SeqFacts DEF MqLists
<1>9. \A k \in 1 .. n : next'[q[k]] = IF k = n THEN i ELSE next[q[k]]
  <2> SUFFICES ASSUME NEW k \in 1 .. n
               PROVE  next'[q[k]] = IF k = n THEN i ELSE next[q[k]]
    OBVIOUS
  <2>1. msg_queue_tail = q[n] /\ n \in 1 .. n
    BY <1>4, <1>7, SeqFacts DEF MqLists
  <2>2. q[k] = q[n] => k = n
    <3>1. k \in DOMAIN q /\ n \in DOMAIN q
      BY <1>4, <1>7, <2>1, SeqFacts DEF MqLists
    <3> QED BY <1>4, <3>1 DEF MqLists, IsInjective
  <2>3. q[k] # i /\ q[k] \in Item
    BY <1>5, <1>8
  <2> QED BY <1>6, <2>1, <2>2, <2>3
<1>10. PICK r : r = Enqueue(q, i)
  OBVIOUS
<1>11. /\ r \in Seq(Item) /\ IsInjective(r) /\ Chain(next', msg_queue_head', r)
       /\ ToSet(r) = ToSet(q) \cup {i} /\ r # <<>>
       /\ Len(r) = n + 1 /\ r[n + 1] = i /\ \A k \in 1 .. n : r[k] = q[k]
  <2>1. next'[i] = Nothing
    BY <1>6
  <2>2. /\ q \in Seq(Item) /\ IsInjective(q) /\ Chain(next, msg_queue_head, q)
        /\ i \notin ToSet(q) /\ Nothing \notin Item
    BY <1>4, <1>5, MqFacts DEF MqLists
  <2>3. \A k \in 1 .. Len(q) : next'[q[k]] = IF k = Len(q) THEN i ELSE next[q[k]]
    BY <1>7, <1>9
  <2> QED BY <1>6, <1>7, <1>10, <2>1, <2>2, <2>3, ChainLast
<1>12. msg_queue_tail' = r[Len(r)]
  BY <1>6, <1>11
<1>13. next' \in [Item -> Item \cup {Nothing}]
  BY <1>6 DEF MqInv, MqTypes
<1>14. \A y \in ToSet(f) : next'[y] = next[y]
  <2> SUFFICES ASSUME NEW y \in ToSet(f) PROVE next'[y] = next[y]
    OBVIOUS
  <2>1. y \in Item /\ y # i
    BY <1>4, <1>5, SeqFacts DEF MqLists
  <2>2. y # msg_queue_tail
    <3>1. CASE q = <<>>
      BY <1>4, <2>1, <3>1, MqFacts DEF MqLists
    <3>2. CASE q # <<>>
      <4>1. n \in 1 .. n /\ msg_queue_tail = q[n]
        BY <1>4, <1>7, <3>2, SeqFacts DEF MqLists
      <4> QED BY <1>4, <1>8, <4>1 DEF MqLists
    <3> QED BY <3>1, <3>2
  <2> QED BY <1>6, <2>1, <2>2
<1>15. /\ MqInv' /\ Messages' = Texts(r)' /\ MqHeld' = MqHeld
       /\ Len(Messages) < Cardinality(Item)
  <2>1. content' = [content EXCEPT ![i] = v] /\ pc[t].at \in {"filling", "urgent"}
        /\ pc[t].arg.item = i /\ Len(r) = Len(q) + 1
    BY <1>1, <1>3, <1>7, <1>11
  <2>2. /\ t \notin Waiters /\ entries' = entries + 1 /\ ResumeIfAny(Receivers) /\ Return(t)
        /\ UNCHANGED object /\ UNCHANGED msg_queue_free
    BY <1>1
  <2>3. /\ r \in Seq(Item) /\ IsInjective(r) /\ ToSet(r) = ToSet(q) \cup {i}
        /\ Chain(next', msg_queue_head', r) /\ msg_queue_tail' = r[Len(r)]
        /\ next' \in [Item -> Item \cup {Nothing}] /\ \A y \in ToSet(f) : next'[y] = next[y]
    BY <1>11, <1>12, <1>13, <1>14
  <2>4. Links(t, i, v, q, f, r)
    BY ONLY <1>4, <2>1, <2>2, <2>3 DEF Links
  <2> QED BY <2>4, MqLinks
<1>16. Messages' = Append(Messages, v)
  <2>1. PICK m \in Seq(Value) : m = Messages /\ Len(m) = n /\ m = Texts(q)
    BY <1>4, <1>7, MessagesAre
  <2>2. PICK l : /\ l = Append(m, v) /\ l \in Seq(Value) /\ Len(l) = n + 1 /\ l[n + 1] = v
                 /\ \A k \in 1 .. n : l[k] = m[k]
    <3>1. /\ Append(m, v) \in Seq(Value) /\ Len(Append(m, v)) = Len(m) + 1
          /\ Append(m, v)[Len(m) + 1] = v
          /\ \A k \in 1 .. Len(m) : Append(m, v)[k] = m[k]
      BY ONLY m \in Seq(Value), v \in Value, AppendProperties
    <3>2. Len(m) = n
      BY <2>1
    <3>3. PICK l : l = Append(m, v)
      OBVIOUS
    <3> QED BY ONLY <3>1, <3>2, <3>3
  <2>3. Messages' = [k \in 1 .. n + 1 |-> content'[r[k]]]
    BY <1>11, <1>15 DEF Texts
  <2>4. ASSUME NEW k \in 1 .. n + 1 PROVE l[k] = content'[r[k]]
    <3>1. content'[i] = v /\ \A x \in Item \ {i} : content'[x] = content[x]
      BY <1>1, <1>3 DEF MqInv, MqTypes
    <3>2. CASE k = n + 1
      BY <1>11, <2>2, <3>1, <3>2
    <3>3. CASE k \in 1 .. n
      <4>1. r[k] = q[k] /\ q[k] \in Item /\ q[k] # i
        BY <1>5, <1>8, <1>11, <3>3
      <4>2. m[k] = content[q[k]]
        BY <1>7, <2>1, <3>3 DEF Texts
      <4>3. l[k] = m[k]
        BY <2>2, <3>3
      <4>4. content'[q[k]] = content[q[k]]
        BY <3>1, <4>1
      <4> QED BY ONLY <4>1, <4>2, <4>3, <4>4
    <3> QED BY <3>2, <3>3
  <2>5. l = [k \in 1 .. n + 1 |-> l[k]]
    BY <2>2, LenProperties
  <2> QED BY <2>1, <2>2, <2>3, <2>4, <2>5
<1>17. MessageQueueQueue!Send(v)
  BY <1>15, <1>16 DEF MessageQueueQueue!Send
<1> QED BY <1>15, <1>17 DEF MqQueueStep, MessageQueueQueue!NextUrgent

\* rt_mq_urgent: in front of the head.
LEMMA MqUrgentStep ==
    ASSUME MqInv, NEW t \in Thread, MqLink(t, "urgent")
    PROVE  MqInv' /\ MqQueueStep
<1>1. /\ t \notin Waiters /\ pc[t].at = "urgent" /\ LinkFirst(pc[t].arg.item)
      /\ content' = [content EXCEPT ![pc[t].arg.item] = pc[t].arg.value]
      /\ entries' = entries + 1 /\ ResumeIfAny(Receivers) /\ Return(t)
      /\ UNCHANGED object /\ UNCHANGED msg_queue_free
  BY DEF MqLink, At
<1>2. pc[t].arg \in [item : Item, value : Value]
  BY <1>1 DEF MqInv, MqPcOK, Holds
<1>3. PICK i \in Item, v \in Value : i = pc[t].arg.item /\ v = pc[t].arg.value
  BY <1>2
<1>4. PICK q, f : MqLists(q, f) /\ MqOwned(ToSet(q) \cup ToSet(f))
  BY DEF MqInv, MqPlaces
<1>5. i \notin ToSet(q) \cup ToSet(f)
  <2>1. Private(t) = {i}
    BY <1>1, <1>3, PrivateIs
  <2> QED BY <1>4, <2>1 DEF MqOwned
<1>6. /\ next' = [next EXCEPT ![i] = msg_queue_head] /\ msg_queue_head' = i
      /\ msg_queue_tail' = IF msg_queue_tail = Nothing THEN i ELSE msg_queue_tail
  BY <1>1, <1>3 DEF LinkFirst
<1>7. PICK n \in Nat : n = Len(q) /\ entries = n
  BY <1>4, SeqFacts DEF MqLists
<1>8. \A k \in 1 .. n : q[k] \in Item /\ q[k] \in ToSet(q)
  BY <1>4, <1>7, SeqFacts DEF MqLists
<1>9. msg_queue_head \in Item \cup {Nothing}
  <2>1. CASE q = <<>>
    BY <1>4, <2>1 DEF MqLists, Chain
  <2>2. CASE q # <<>>
    <3>1. msg_queue_head = q[1] /\ 1 \in 1 .. n
      BY <1>4, <1>7, <2>2, SeqFacts DEF MqLists, Chain
    <3> QED BY <1>8, <3>1
  <2> QED BY <2>1, <2>2
<1>10. next' \in [Item -> Item \cup {Nothing}] /\ next'[i] = msg_queue_head
       /\ \A x \in Item \ {i} : next'[x] = next[x]
  BY <1>6, <1>9 DEF MqInv, MqTypes
<1>11. PICK r : r = Push(q, i)
  OBVIOUS
<1>12. /\ r \in Seq(Item) /\ IsInjective(r) /\ Chain(next', i, r)
       /\ ToSet(r) = ToSet(q) \cup {i} /\ r # <<>>
       /\ Len(r) = n + 1 /\ r[1] = i /\ \A k \in 1 .. n : r[k + 1] = q[k]
  <2>1. /\ q \in Seq(Item) /\ IsInjective(q) /\ Chain(next, msg_queue_head, q)
        /\ i \notin ToSet(q) /\ \A y \in ToSet(q) : next'[y] = next[y]
    <3>1. \A y \in ToSet(q) : y \in Item
      BY <1>4, SeqFacts DEF MqLists
    <3> QED BY <1>4, <1>5, <1>10, <3>1 DEF MqLists
  <2> QED BY <1>7, <1>10, <1>11, <2>1, ChainFirst
<1>14. msg_queue_tail' = r[Len(r)]
  <2>1. CASE n = 0
    <3>1. q = <<>>
      BY <1>4, <1>7, <2>1, SeqFacts DEF MqLists
    <3>2. msg_queue_tail = Nothing
      BY <1>4, <3>1 DEF MqLists
    <3>3. r[Len(r)] = i
      BY <1>12, <2>1
    <3> QED BY <1>6, <3>2, <3>3
  <2>2. CASE n # 0
    <3>1. n \in 1 .. n /\ q # <<>>
      BY <1>4, <1>7, <2>2, SeqFacts DEF MqLists
    <3>2. msg_queue_tail = q[n] /\ q[n] # Nothing
      BY <1>4, <1>7, <1>8, <3>1, MqFacts DEF MqLists
    <3>3. r[n + 1] = q[n]
      BY <1>12, <3>1
    <3> QED BY <1>6, <1>12, <3>2, <3>3
  <2> QED BY <2>1, <2>2
<1>15. \A y \in ToSet(f) : next'[y] = next[y]
  <2>1. \A y \in ToSet(f) : y \in Item
    BY <1>4, SeqFacts DEF MqLists
  <2> QED BY <1>5, <1>10, <2>1
<1>16. /\ MqInv' /\ Messages' = Texts(r)' /\ MqHeld' = MqHeld
       /\ Len(Messages) < Cardinality(Item)
  <2>1. content' = [content EXCEPT ![i] = v] /\ pc[t].at \in {"filling", "urgent"}
        /\ pc[t].arg.item = i /\ Len(r) = Len(q) + 1
    BY <1>1, <1>3, <1>7, <1>12
  <2>2. /\ t \notin Waiters /\ entries' = entries + 1 /\ ResumeIfAny(Receivers) /\ Return(t)
        /\ UNCHANGED object /\ UNCHANGED msg_queue_free
    BY <1>1
  <2>3. /\ r \in Seq(Item) /\ IsInjective(r) /\ ToSet(r) = ToSet(q) \cup {i}
        /\ Chain(next', msg_queue_head', r) /\ msg_queue_tail' = r[Len(r)]
        /\ next' \in [Item -> Item \cup {Nothing}] /\ \A y \in ToSet(f) : next'[y] = next[y]
    BY <1>6, <1>10, <1>12, <1>14, <1>15
  <2>4. Links(t, i, v, q, f, r)
    BY ONLY <1>4, <2>1, <2>2, <2>3 DEF Links
  <2> QED BY <2>4, MqLinks
<1>17. Messages' = <<v>> \o Messages
  <2>1. PICK m \in Seq(Value) : m = Messages /\ Len(m) = n /\ m = Texts(q)
    BY <1>4, <1>7, MessagesAre
  <2>2. PICK l : l = <<v>> \o m
    OBVIOUS
  <2>3. l \in Seq(Value) /\ Len(l) = n + 1 /\ l[1] = v /\ \A k \in 1 .. n : l[k + 1] = m[k]
    <3>1. <<v>> \in Seq(Value) /\ Len(<<v>>) = 1 /\ <<v>>[1] = v
      OBVIOUS
    <3>2. /\ l \in Seq(Value) /\ Len(l) = 1 + n
          /\ \A k \in 1 .. 1 + n : l[k] = IF k <= 1 THEN <<v>>[k] ELSE m[k - 1]
      BY <2>1, <2>2, <3>1, ConcatProperties
    <3>3. \A k \in 1 .. n : k + 1 \in 1 .. 1 + n /\ ~(k + 1 <= 1) /\ (k + 1) - 1 = k
      OBVIOUS
    <3> QED BY <3>1, <3>2, <3>3
  <2>4. Messages' = [k \in 1 .. n + 1 |-> content'[r[k]]]
    BY <1>12, <1>16 DEF Texts
  <2>5. ASSUME NEW k \in 1 .. n + 1 PROVE l[k] = content'[r[k]]
    <3>1. content'[i] = v /\ \A x \in Item \ {i} : content'[x] = content[x]
      BY <1>1, <1>3 DEF MqInv, MqTypes
    <3>2. CASE k = 1
      BY <1>12, <2>3, <3>1, <3>2
    <3>3. CASE k # 1
      <4>1. PICK j \in 1 .. n : k = j + 1
        BY <3>3
      <4>2. r[k] = q[j] /\ q[j] \in Item /\ q[j] # i
        BY <1>5, <1>8, <1>12, <4>1
      <4>3. l[k] = m[j] /\ m[j] = content[q[j]]
        BY <1>7, <2>1, <2>3, <4>1 DEF Texts
      <4> QED BY <3>1, <4>2, <4>3
    <3> QED BY <3>2, <3>3
  <2>6. l = [k \in 1 .. n + 1 |-> l[k]]
    BY <2>3, LenProperties
  <2> QED BY <2>1, <2>2, <2>4, <2>5, <2>6
<1>18. MessageQueueQueue!Urgent(v)
  BY <1>16, <1>17 DEF MessageQueueQueue!Urgent
<1> QED BY <1>16, <1>18 DEF MqQueueStep, MessageQueueQueue!NextUrgent

\* rt_mq_recv: the item is put on the free list.
LEMMA MqFreeStep ==
    ASSUME MqInv, NEW t \in Thread, MqFreeItem(t)
    PROVE  MqInv' /\ MqQueueStep
<1>1. /\ t \notin Waiters /\ pc[t].at = "copying"
      /\ next' = [next EXCEPT ![pc[t].arg] = msg_queue_free] /\ msg_queue_free' = pc[t].arg
      /\ UNCHANGED <<suspended, timed, object>>
      /\ UNCHANGED <<msg_queue_head, msg_queue_tail, content, entries>>
      /\ error' = [error EXCEPT ![t] = "ok"]
      /\ pc' = [pc EXCEPT ![t] = [at |-> "run", timeout |-> "none", arg |-> Nothing]]
  BY DEF MqFreeItem, At, Return, Running
<1>2. PICK i \in Item : i = pc[t].arg /\ content[i] \in Value
  BY <1>1 DEF MqInv, MqPcOK, Holds
<1>3. PICK q, f : MqLists(q, f) /\ MqOwned(ToSet(q) \cup ToSet(f))
  BY DEF MqInv, MqPlaces
<1>4. Goes(t) /\ pc'[t].at = "run"
  BY <1>1, CallGoes, MqFacts DEF MqInv
<1>5. /\ WaitInv' /\ \A u \in Thread \ {t} : pc'[u] = pc[u]
      /\ Waiting(Receivers)' = Waiting(Receivers)
      /\ Arriving("receiving")' = Arriving("receiving") \ {t}
  BY <1>4, MqFacts DEF Goes
<1>6. Private(t) = {i} /\ Private(t)' = {} /\ \A u \in Thread \ {t} : Private(u)' = Private(u)
  BY <1>1, <1>2, <1>4, <1>5, PrivateIs, PrivateSame
<1>7. i \notin ToSet(q) \cup ToSet(f)
  BY <1>3, <1>6 DEF MqOwned
<1>8. msg_queue_free \in Item \cup {Nothing}
  <2>1. CASE f = <<>>
    BY <1>3, <2>1 DEF MqLists, Chain
  <2>2. CASE f # <<>>
    <3>1. Len(f) # 0 /\ Len(f) \in Nat
      BY <1>3, <2>2, SeqFacts DEF MqLists
    <3>2. f[1] \in Item
      BY <1>3, <3>1, SeqFacts DEF MqLists
    <3> QED BY <1>3, <2>2, <3>2 DEF MqLists, Chain
  <2> QED BY <2>1, <2>2
<1>9. next' \in [Item -> Item \cup {Nothing}] /\ next'[i] = msg_queue_free
      /\ \A x \in Item \ {i} : next'[x] = next[x]
  BY <1>1, <1>2, <1>8 DEF MqInv, MqTypes
<1>10. /\ \A y \in ToSet(q) : y \in Item /\ next'[y] = next[y]
       /\ \A y \in ToSet(f) : y \in Item /\ next'[y] = next[y]
  BY <1>3, <1>7, <1>9, SeqFacts DEF MqLists
<1>11. PICK r : r = Push(f, i)
  OBVIOUS
<1>12. /\ r \in Seq(Item) /\ IsInjective(r) /\ Chain(next', i, r) /\ ToSet(r) = ToSet(f) \cup {i}
  <2>1. f \in Seq(Item) /\ IsInjective(f) /\ Chain(next, msg_queue_free, f) /\ i \notin ToSet(f)
    BY <1>3, <1>7 DEF MqLists
  <2> QED BY <1>9, <1>10, <1>11, <2>1, ChainFirst
<1>13. MqLists(q, r)'
  <2>1. Chain(next', msg_queue_head, q)
    BY <1>3, <1>10, ChainSame DEF MqLists
  <2>2. Chain(next, msg_queue_head, q)' /\ Chain(next, msg_queue_free, r)'
    BY <1>1, <1>2, <1>12, <2>1 DEF Chain
  <2>3. ToSet(q) \cap ToSet(r) = {}
    BY <1>3, <1>7, <1>12 DEF MqLists
  <2> QED BY <1>1, <1>3, <1>12, <2>2, <2>3 DEF MqLists
<1>14. PICK linked : linked = ToSet(q) \cup ToSet(f)
  OBVIOUS
<1>15. MqOwned(linked \cup {i})' /\ linked \cup {i} = ToSet(q) \cup ToSet(r)
  BY <1>3, <1>6, <1>12, <1>14, OwnedLinked
<1>16. MqTypes'
  BY <1>1, <1>9 DEF MqInv, MqTypes
<1>17. MqPcOK'
  <2>1. Holds(t)'
    BY <1>4 DEF Holds
  <2> QED BY <1>1, <1>5, <2>1, MqPcKeeps DEF MqInv
<1>18. Waiting(Receivers)' # {} => entries' <= Cardinality(Arriving("receiving")')
  <2>1. t \notin Arriving("receiving")
    BY <1>1 DEF Arriving
  <2> QED BY <1>1, <1>5, <2>1 DEF MqInv, MqWakeOK
<1>19. MqInv' /\ Messages' = Texts(q)'
  BY <1>5, <1>13, <1>15, <1>16, <1>17, <1>18, MqMakes
<1>20. Messages' = Messages
  <2>1. Texts(q)' = Texts(q)
    BY <1>1 DEF Texts
  <2> QED BY <1>3, <1>19, <2>1, MessagesAre
<1>21. MqHeld' = [MqHeld EXCEPT ![t] = Nothing] /\ MqHeld[t] # Nothing
  <2>1. MqHeld = [u \in Thread |-> IF pc[u].at = "copying" THEN content[pc[u].arg] ELSE Nothing]
    BY DEF MqHeld
  <2>2. MqHeld' = [u \in Thread |-> IF pc'[u].at = "copying" THEN content'[pc'[u].arg]
                                                             ELSE Nothing]
    BY DEF MqHeld
  <2> QED BY <1>1, <1>2, <1>4, <1>5, <2>1, <2>2, MqFacts
<1>22. MessageQueueQueue!Return(t)
  BY <1>20, <1>21 DEF MessageQueueQueue!Return
<1> QED BY <1>19, <1>22 DEF MqQueueStep, MessageQueueQueue!NextUrgent

-----------------------------------------------------------------------------
(* Waits, failures and resets of a message queue, and the object.           *)

LEMMA MqResetStep ==
    ASSUME MqInv, MqReset
    PROVE  MqInv' /\ MqQueueStep
<1>1. PICK q, f : MqLists(q, f) /\ MqOwned(ToSet(q) \cup ToSet(f))
  BY DEF MqInv, MqPlaces
<1>2. From(msg_queue_head) = q
  BY <1>1, MessagesAre
<1>3. PICK n \in Nat : n = Len(q) /\ DOMAIN q = 1 .. n
  BY <1>1, SeqFacts DEF MqLists
<1>4. /\ ListResumeAll /\ msg_queue_head' = Nothing
      /\ msg_queue_tail' = (IF msg_queue_tail \in ToSet(q) THEN Nothing ELSE msg_queue_tail)
      /\ msg_queue_free' = (IF n = 0 THEN msg_queue_free ELSE q[n])
      /\ next' = [i \in Item |->
                    IF i \notin ToSet(q) THEN next[i]
                    ELSE LET k == CHOOSE k \in 1 .. n : q[k] = i
                         IN  IF k = 1 THEN msg_queue_free ELSE q[k - 1]]
      /\ entries' = 0 /\ UNCHANGED <<pc, object>> /\ content' = content
  BY <1>2, <1>3 DEF MqReset
<1>5. WaitInv' /\ Quiet /\ Waiters' = {}
  BY <1>4, ResumeAllQuiet DEF MqInv
<1>6. \A k \in 1 .. n : q[k] \in Item /\ q[k] \in ToSet(q)
  BY <1>1, <1>3, SeqFacts DEF MqLists
<1>7. \A k \in 1 .. n : next'[q[k]] = IF k = 1 THEN msg_queue_free ELSE q[k - 1]
  <2> SUFFICES ASSUME NEW k \in 1 .. n
               PROVE  next'[q[k]] = IF k = 1 THEN msg_queue_free ELSE q[k - 1]
    OBVIOUS
  <2>1. PICK l : l = CHOOSE j \in 1 .. n : q[j] = q[k]
    OBVIOUS
  <2>2. l \in 1 .. n /\ q[l] = q[k]
    BY <2>1
  <2>3. l = k
    BY <1>1, <1>3, <2>2 DEF MqLists, IsInjective
  <2>4. next'[q[k]] = IF l = 1 THEN msg_queue_free ELSE q[l - 1]
    BY <1>4, <1>6, <2>1
  <2> QED BY <2>3, <2>4
<1>8. \A y \in ToSet(f) : y \in Item /\ next'[y] = next[y]
  BY <1>1, <1>4, SeqFacts DEF MqLists
<1>9. PICK r \in Seq(Item) : /\ IsInjective(r) /\ ToSet(r) = ToSet(q) \cup ToSet(f)
                             /\ Chain(next', msg_queue_free', r)
  <2>1. /\ q \in Seq(Item) /\ f \in Seq(Item) /\ IsInjective(q) /\ IsInjective(f)
        /\ ToSet(q) \cap ToSet(f) = {} /\ Chain(next, msg_queue_free, f)
    BY <1>1 DEF MqLists
  <2>2. /\ \A k \in 1 .. Len(q) : next'[q[k]] = IF k = 1 THEN msg_queue_free ELSE q[k - 1]
        /\ \A y \in ToSet(f) : next'[y] = next[y]
        /\ msg_queue_free' = IF Len(q) = 0 THEN msg_queue_free ELSE q[Len(q)]
    BY <1>3, <1>4, <1>7, <1>8
  <2>3. Turns(q, f, next, next', msg_queue_free)
    BY ONLY <2>1, <2>2 DEF Turns
  <2>4. \E r \in Seq(Item) :
           /\ IsInjective(r) /\ ToSet(r) = ToSet(q) \cup ToSet(f)
           /\ Chain(next', IF Len(q) = 0 THEN msg_queue_free ELSE q[Len(q)], r)
    BY ONLY <2>1, <2>3, ChainTurned
  <2> QED BY <2>2, <2>4
<1>10. msg_queue_tail' = Nothing
  <2>1. CASE q = <<>>
    BY <1>1, <1>4, <2>1 DEF MqLists
  <2>2. CASE q # <<>>
    <3>1. n \in 1 .. n
      BY <1>1, <1>3, <2>2, SeqFacts DEF MqLists
    <3> QED BY <1>1, <1>3, <1>4, <1>6, <2>2, <3>1 DEF MqLists
  <2> QED BY <2>1, <2>2
<1>11. <<>> \in Seq(Item) /\ Len(<<>>) = 0 /\ ToSet(<<>>) = {} /\ IsInjective(<<>>)
  BY DEF ToSet, IsInjective
<1>12. MqLists(<<>>, r)'
  <2>1. Chain(next, msg_queue_head, <<>>)' /\ Chain(next, msg_queue_free, r)'
    <3>1. Chain(next', msg_queue_head', <<>>)
      BY <1>4, EmptyChain
    <3> QED BY <1>9, <3>1 DEF Chain
  <2> QED BY <1>4, <1>9, <1>10, <1>11, <2>1 DEF MqLists
<1>13. PICK linked : linked = ToSet(q) \cup ToSet(f)
  OBVIOUS
<1>14. MqOwned(linked)' /\ linked = ToSet(<<>>) \cup ToSet(r)
  <2>1. \A u \in Thread : Private(u)' = Private(u)
    BY <1>4, PrivateSame
  <2> QED BY <1>1, <1>9, <1>11, <1>13, <2>1, OwnedSame
<1>15. MqTypes'
  <2>1. msg_queue_free \in Item \cup {Nothing}
    <3>1. f # <<>> => f[1] \in Item
      BY <1>1, SeqFacts DEF MqLists
    <3> QED BY <1>1, <3>1 DEF MqLists, Chain
  <2>2. ASSUME NEW i \in Item PROVE next'[i] \in Item \cup {Nothing}
    <3>1. CASE i \notin ToSet(q)
      BY <1>4, <3>1 DEF MqInv, MqTypes
    <3>2. CASE i \in ToSet(q)
      <4>1. PICK k \in 1 .. n : i = q[k]
        BY <1>1, <1>3, <3>2, SeqFacts DEF MqLists
      <4>2. k # 1 => k - 1 \in 1 .. n
        OBVIOUS
      <4> QED BY <1>6, <1>7, <2>1, <4>1, <4>2
    <3> QED BY <3>1, <3>2
  <2>3. next' \in [Item -> Item \cup {Nothing}]
    BY <1>4, <2>2
  <2> QED BY <1>4, <2>3 DEF MqInv, MqTypes
<1>16. MqPcOK'
  <2>1. \A u \in Waiting(Receivers)' : u \in Waiting(Receivers)
    BY <1>5, MqFacts DEF Quiet
  <2> QED BY <1>4, <2>1 DEF MqInv, MqPcOK, Holds
<1>17. Waiting(Receivers)' # {} => entries' <= Cardinality(Arriving("receiving")')
  BY <1>5, WaitersAreNext
<1>18. MqInv' /\ Messages' \in Seq(Value) /\ Len(Messages') = 0
  BY <1>5, <1>11, <1>12, <1>14, <1>15, <1>16, <1>17, MqMakes
<1>19. Messages' = <<>>
  BY <1>18, EmptySeq
<1>20. MqHeld' = MqHeld
  BY <1>4, MqHeldSame
<1>21. MessageQueueQueue!Reset
  BY <1>19, <1>20 DEF MessageQueueQueue!Reset
<1> QED BY <1>18, <1>21 DEF MqQueueStep, MessageQueueQueue!NextUrgent

\* A receiver waits, or waits again.
LEMMA MqWaitStep ==
    ASSUME MqInv, NEW t \in Thread, t \notin Waiters, pc[t].at \in {"run", "receiving"},
           entries = 0, NEW arg \in Args, NEW timeout \in Timeouts,
           Wait(t, Receivers, ListSuspend(t, Receivers), "receiving", arg, timeout),
           UNCHANGED object, UNCHANGED mqVars
    PROVE  MqInv' /\ UNCHANGED <<Messages, MqHeld>>
<1>1. PICK list : list = ListSuspend(t, Receivers)
  OBVIOUS
<1>2. PICK l \in List : l = Receivers
  BY MqFacts
<1>3. PICK step \in StepsAt(l) : step = "receiving"
  BY <1>2, MqFacts
<1>4. Joins(t, l, step, arg)
  <2>1. /\ list \in {ListSuspend(t, l), Enqueue(suspended[l], t)}
        /\ Wait(t, l, list, step, arg, timeout) /\ (pc[t].at \in WaitSteps => pc[t].at = step)
    BY <1>1, <1>2, <1>3 DEF WaitSteps, ReceiverSteps, SenderSteps
  <2>2. WaitInv
    BY DEF MqInv
  <2> QED BY ONLY <2>1, <2>2, t \in Thread, t \notin Waiters, l \in List, step \in StepsAt(l),
                  arg \in Args, timeout \in Timeouts, UNCHANGED object, WaitJoins
<1>5. /\ WaitInv' /\ pc'[t].at = "receiving" /\ \A u \in Thread \ {t} : pc'[u] = pc[u]
      /\ Waiting(Receivers)' = Waiting(Receivers) \cup {t}
  BY <1>2, <1>3, <1>4 DEF Joins
<1>6. Waiting(Receivers) \subseteq Thread
  BY WaitersType DEF MqInv, WaitInv
<1>7. \A u \in Waiting(Receivers)' : pc'[u].at = "receiving"
  BY <1>5, <1>6 DEF MqInv, MqPcOK
<1>8. \A u \in Thread :
              \/ pc'[u].at = pc[u].at /\ pc'[u].arg = pc[u].arg
              \/ /\ pc[u].at \notin {"filling", "urgent", "copying"}
                 /\ pc'[u].at \notin {"filling", "urgent", "copying"}
  BY <1>5
<1>9. entries <= Cardinality(Arriving("receiving")')
  <2>1. Cardinality(Arriving("receiving")') \in Nat
    BY <1>2, <1>3, <1>4, GoneCounts, MqFacts DEF Joins
  <2> QED BY <2>1
<1> QED BY <1>5, <1>7, <1>8, <1>9, MqSame

\* A call returns with an error.
LEMMA MqReturnStep ==
    ASSUME MqInv, NEW t \in Thread, t \notin Waiters, pc[t].at = "receiving", Return(t),
           entries = 0 \/ error[t] # "ok",
           UNCHANGED <<suspended, timed, object>>, UNCHANGED mqVars
    PROVE  MqInv' /\ UNCHANGED <<Messages, MqHeld>>
<1>1. /\ error' = [error EXCEPT ![t] = "ok"]
      /\ pc' = [pc EXCEPT ![t] = [at |-> "run", timeout |-> "none", arg |-> Nothing]]
  BY DEF Return, Running
<1>2. Goes(t) /\ pc'[t].at = "run"
  BY <1>1, CallGoes, MqFacts DEF MqInv
<1>3. /\ WaitInv' /\ \A u \in Thread \ {t} : pc'[u] = pc[u]
      /\ Waiting(Receivers)' = Waiting(Receivers)
      /\ Arriving("receiving")' = Arriving("receiving") \ {t}
  BY <1>2, MqFacts DEF Goes
<1>4. t \notin Waiting(Receivers) /\ Waiting(Receivers) \subseteq Thread
  BY WaitersAre, WaitersType DEF MqInv, WaitInv
<1>5. \A u \in Waiting(Receivers)' : pc'[u].at = "receiving"
  BY <1>3, <1>4 DEF MqInv, MqPcOK
<1>6. \A u \in Thread :
              \/ pc'[u].at = pc[u].at /\ pc'[u].arg = pc[u].arg
              \/ /\ pc[u].at \notin {"filling", "urgent", "copying"}
                 /\ pc'[u].at \notin {"filling", "urgent", "copying"}
  BY <1>2, <1>3
<1>7. Waiting(Receivers)' # {} => entries <= Cardinality(Arriving("receiving")')
  <2>1. CASE entries = 0
    BY <1>3, <2>1, GoneCounts
  <2>2. CASE error[t] # "ok"
    <3>1. t \notin Arriving("receiving")
      BY <2>2 DEF Arriving
    <3> QED BY <1>3, <3>1 DEF MqInv, MqWakeOK
  <2> QED BY <2>1, <2>2
<1> QED BY <1>3, <1>5, <1>6, <1>7, MqSame

\* A timeout, or a step of a detach.
LEMMA MqQuietStep ==
    ASSUME MqInv, WaitInv', Quiet, UNCHANGED mqVars
    PROVE  MqInv' /\ UNCHANGED <<Messages, MqHeld>>
<1>1. /\ Arriving("receiving")' = Arriving("receiving")
      /\ Waiting(Receivers)' \subseteq Waiting(Receivers) /\ Waiting(Receivers) \subseteq Thread
      /\ \A u \in Thread : pc[u].at \in CallSteps \/ pc'[u].at \in CallSteps
                           => pc'[u].at = pc[u].at /\ pc'[u].arg = pc[u].arg
  BY MqFacts, WaitersType DEF Quiet, WaitSteps, MqInv, WaitInv
<1>2. \A u \in Waiting(Receivers)' : pc'[u].at = "receiving"
  BY <1>1, MqFacts DEF MqInv, MqPcOK
<1>3. \A u \in Thread :
              \/ pc'[u].at = pc[u].at /\ pc'[u].arg = pc[u].arg
              \/ /\ pc[u].at \notin {"filling", "urgent", "copying"}
                 /\ pc'[u].at \notin {"filling", "urgent", "copying"}
  BY <1>1, MqFacts
<1>4. Waiting(Receivers)' # {} => entries <= Cardinality(Arriving("receiving")')
  BY <1>1 DEF MqInv, MqWakeOK
<1> QED BY <1>2, <1>3, <1>4, MqSame

LEMMA MqStep ==
    ASSUME MqInv, MqNext
    PROVE  MqInv' /\ MqQueueStep
<1>1. ASSUME NEW t \in Thread, MqRecvWaits(t) PROVE MqInv' /\ MqQueueStep
  <2>1. PICK timeout \in {"ticks", "forever"} :
           Wait(t, Receivers, ListSuspend(t, Receivers), "receiving", Nothing, timeout)
    BY <1>1 DEF MqRecvWaits, Blocks
  <2>2. /\ t \notin Waiters /\ pc[t].at = "run" /\ entries = 0 /\ UNCHANGED object
        /\ UNCHANGED mqVars
    BY <1>1 DEF MqRecvWaits, Blocks, May, At
  <2>3. timeout \in Timeouts
    BY DEF Timeouts
  <2> QED BY <2>1, <2>2, <2>3, MqWaitStep, MqFacts DEF MqQueueStep
<1>2. ASSUME NEW t \in Thread, MqRecvWaitsAgain(t) PROVE MqInv' /\ MqQueueStep
  <2>1. PICK left \in Left(t) :
           IF left = "none" THEN Return(t) /\ UNCHANGED <<suspended, timed>>
           ELSE Wait(t, Receivers, ListSuspend(t, Receivers), "receiving", pc[t].arg, left)
    BY <1>2 DEF MqRecvWaitsAgain, BlocksAgain
  <2>2. /\ t \notin Waiters /\ pc[t].at = "receiving" /\ entries = 0 /\ UNCHANGED object
        /\ UNCHANGED mqVars
    BY <1>2 DEF MqRecvWaitsAgain, BlocksAgain, Woken, At
  <2>3. left \in Timeouts /\ pc[t].arg \in Args
    BY DEF MqInv, WaitInv, PcOK, Left, Timeouts
  <2> QED BY <2>1, <2>2, <2>3, MqWaitStep, MqReturnStep DEF MqQueueStep
<1>3. ASSUME NEW t \in Thread, MqRecvFails(t) PROVE MqInv' /\ MqQueueStep
  BY <1>3, MqReturnStep DEF MqRecvFails, Fails, At, MqQueueStep
<1>4. ASSUME NEW t \in Thread, Timeout(t) \/ Removed(t), UNCHANGED mqVars
      PROVE  MqInv' /\ MqQueueStep
  BY <1>4, TimeoutQuiet, RemovedQuiet, MqQuietStep DEF MqInv, MqQueueStep
<1>5. ASSUME NEW t \in Thread, NEW v \in Value,
             MqTakeItem(t, "filling", v) \/ MqTakeItem(t, "urgent", v)
      PROVE  MqInv' /\ MqQueueStep
  BY <1>5, MqTakeItemStep DEF MqQueueStep
<1> QED BY <1>1, <1>2, <1>3, <1>4, <1>5, MqResetStep, MqSendStep, MqUrgentStep, MqRecvStep,
        MqFreeStep DEF MqNext

LEMMA MqStutters ==
    ASSUME MqInv, UNCHANGED <<ipcVars, mqVars>>
    PROVE  MqInv' /\ UNCHANGED <<Messages, MqHeld>>
<1>1. UNCHANGED <<suspended, error, timed, pc, object>> /\ UNCHANGED mqVars
  BY DEF ipcVars, waitVars
<1>2. /\ WaitInv' /\ \A l : Waiting(l)' = Waiting(l)
      /\ \A x : Arriving(x)' = Arriving(x)
  BY <1>1 DEF MqInv, WaitInv, ListsOK, PcOK, WaitOK, Waiters, Waiting, Arriving
<1>3. Quiet
  BY <1>1, <1>2 DEF Quiet
<1> QED BY <1>1, <1>2, <1>3, MqQuietStep

LEMMA MqStarts == IpcInit /\ MqInit => MqInv /\ MessageQueueQueue!Init
<1> SUFFICES ASSUME IpcInit, MqInit PROVE MqInv /\ MessageQueueQueue!Init
  OBVIOUS
<1>1. WaitInv
  BY WaitStarts
<1>2. Waiting(Receivers) = {}
  BY EmptyList, <1>1, MqFacts DEF IpcInit
<1>3. \A t \in Thread : pc[t].at = "run"
  BY DEF IpcInit, Running
<1>4. PICK f \in Seq(Item) : f = SetToSeq(Item) /\ IsInjective(f) /\ ToSet(f) = Item
  BY SetToSeqElements, MqAssumption
<1>5. PICK n \in Nat : n = Len(f) /\ DOMAIN f = 1 .. n
  BY SeqFacts
<1>6. f # <<>>
  BY <1>4, MqAssumption DEF ToSet
<1>7. /\ msg_queue_head = Nothing /\ msg_queue_tail = Nothing /\ msg_queue_free = f[1]
      /\ next = [i \in Item |-> LET k == CHOOSE k \in 1 .. n : f[k] = i
                                IN  IF k = n THEN Nothing ELSE f[k + 1]]
      /\ content = [i \in Item |-> Nothing] /\ entries = 0
  BY <1>4, <1>5 DEF MqInit
<1>8. \A k \in 1 .. n : f[k] \in Item
  BY <1>5, SeqFacts
<1>9. \A k \in 1 .. n : next[f[k]] = IF k = n THEN Nothing ELSE f[k + 1]
  <2> SUFFICES ASSUME NEW k \in 1 .. n PROVE next[f[k]] = IF k = n THEN Nothing ELSE f[k + 1]
    OBVIOUS
  <2>1. PICK l : l = CHOOSE j \in 1 .. n : f[j] = f[k]
    OBVIOUS
  <2>2. l \in 1 .. n /\ f[l] = f[k]
    BY <2>1
  <2>3. l = k
    BY <1>4, <1>5, <2>2 DEF IsInjective
  <2>4. next[f[k]] = IF l = n THEN Nothing ELSE f[l + 1]
    <3>1. next = [i \in Item |-> LET j == CHOOSE j \in 1 .. n : f[j] = i
                                 IN  IF j = n THEN Nothing ELSE f[j + 1]]
      BY <1>7
    <3>2. PICK x \in Item : x = f[k]
      BY <1>8
    <3>3. l = CHOOSE j \in 1 .. n : f[j] = x
      BY <2>1, <3>2
    <3>4. next[x] = IF l = n THEN Nothing ELSE f[l + 1]
      BY ONLY <3>1, <3>3, x \in Item
    <3> QED BY <3>2, <3>4
  <2> QED BY <2>3, <2>4
<1>10. <<>> \in Seq(Item) /\ Len(<<>>) = 0 /\ ToSet(<<>>) = {} /\ IsInjective(<<>>)
  BY DEF ToSet, IsInjective
<1>11. MqLists(<<>>, f)
  <2>1. Chain(next, msg_queue_free, f)
    BY <1>5, <1>6, <1>7, <1>9 DEF Chain
  <2>2. Chain(next, msg_queue_head, <<>>)
    BY <1>7, EmptyChain
  <2> QED BY <1>4, <1>7, <1>10, <2>1, <2>2 DEF MqLists
<1>12. MqPlaces
  <2>1. \A t \in Thread : Private(t) = {}
    BY <1>3, PrivateIs
  <2>2. MqOwned(ToSet(<<>>) \cup ToSet(f))
    BY <1>4, <1>10, <2>1 DEF MqOwned
  <2> QED BY <1>11, <2>2 DEF MqPlaces
<1>13. MqTypes
  <2>1. ASSUME NEW i \in Item PROVE next[i] \in Item \cup {Nothing}
    <3>1. PICK k \in 1 .. n : i = f[k]
      BY <1>4, <1>5, SeqFacts
    <3>2. k # n => k + 1 \in 1 .. n
      OBVIOUS
    <3> QED BY <1>8, <1>9, <3>1, <3>2
  <2>2. next \in [Item -> Item \cup {Nothing}]
    BY <1>7, <2>1
  <2> QED BY <1>7, <2>2 DEF MqTypes
<1>14. MqInv
  BY <1>1, <1>2, <1>3, <1>12, <1>13 DEF MqInv, MqPcOK, Holds, MqWakeOK
<1>15. Messages = <<>>
  <2>1. Len(Messages) = 0 /\ Messages \in Seq(Value)
    BY <1>10, <1>11, MessagesAre
  <2> QED BY <2>1, EmptySeq
<1>16. MqHeld = [t \in Thread |-> Nothing]
  BY <1>3 DEF MqHeld
<1> QED BY <1>14, <1>15, <1>16 DEF MessageQueueQueue!Init

LEMMA MqSays ==
    ASSUME MqInv
    PROVE  ItemsConserved /\ MqNoLostWakeup
<1>1. PICK q, f : MqLists(q, f) /\ MqOwned(ToSet(q) \cup ToSet(f))
  BY DEF MqInv, MqPlaces
<1>2. From(msg_queue_head) = q /\ From(msg_queue_free) = f
  BY <1>1, MessagesAre
<1>3. PICK n \in Nat, m \in Nat : n = Len(q) /\ m = Len(f)
  BY <1>1, SeqFacts DEF MqLists
<1>4. PICK r : r = q \o f
  OBVIOUS
<1>5. /\ r \in Seq(Item) /\ Len(r) = n + m
      /\ \A k \in 1 .. n + m : r[k] = IF k <= n THEN q[k] ELSE f[k - n]
  BY <1>1, <1>3, <1>4, ConcatProperties DEF MqLists
<1>6. DOMAIN r = 1 .. n + m /\ DOMAIN q = 1 .. n /\ DOMAIN f = 1 .. m
  BY <1>1, <1>3, <1>5, LenProperties DEF MqLists
<1>7. \A k \in 1 .. n + m : \/ k \in 1 .. n /\ r[k] = q[k] /\ r[k] \in ToSet(q)
                            \/ k > n /\ k - n \in 1 .. m /\ r[k] = f[k - n] /\ r[k] \in ToSet(f)
  <2> SUFFICES ASSUME NEW k \in 1 .. n + m
               PROVE  \/ k \in 1 .. n /\ r[k] = q[k] /\ r[k] \in ToSet(q)
                      \/ k > n /\ k - n \in 1 .. m /\ r[k] = f[k - n] /\ r[k] \in ToSet(f)
    OBVIOUS
  <2>1. CASE k <= n
    BY <1>5, <1>6, <2>1 DEF ToSet
  <2>2. CASE k > n
    <3>1. PICK j \in 1 .. m : j = k - n
      BY ONLY <2>2, n \in Nat, m \in Nat, k \in 1 .. n + m
    <3> QED BY <1>5, <1>6, <2>2, <3>1 DEF ToSet
  <2> QED BY <1>3, <2>1, <2>2
<1>8. IsInjective(r)
  <2>1. ASSUME NEW a \in 1 .. n + m, NEW b \in 1 .. n + m, r[a] = r[b] PROVE a = b
    <3>1. CASE a \in 1 .. n /\ b \in 1 .. n
      <4>1. r[a] = q[a] /\ r[b] = q[b]
        BY <1>5, <3>1
      <4> QED BY <1>1, <1>6, <2>1, <3>1, <4>1 DEF MqLists, IsInjective
    <3>2. CASE a > n /\ b > n
      <4>1. PICK c \in 1 .. m : c = a - n
        BY ONLY <3>2, n \in Nat, m \in Nat, a \in 1 .. n + m
      <4>2. PICK d \in 1 .. m : d = b - n
        BY ONLY <3>2, n \in Nat, m \in Nat, b \in 1 .. n + m
      <4>3. r[a] = f[c] /\ r[b] = f[d]
        BY <1>5, <3>2, <4>1, <4>2
      <4>4. c = d
        BY <1>1, <1>6, <2>1, <4>3 DEF MqLists, IsInjective
      <4> QED BY ONLY <4>1, <4>2, <4>4, a \in 1 .. n + m, b \in 1 .. n + m, n \in Nat,
                      m \in Nat
    <3>3. r[a] \in ToSet(q) /\ r[b] \in ToSet(f) => FALSE
      BY <1>1, <2>1 DEF MqLists
    <3>4. r[a] \in ToSet(f) /\ r[b] \in ToSet(q) => FALSE
      BY <1>1, <2>1 DEF MqLists
    <3> QED BY <1>7, <3>1, <3>2, <3>3, <3>4
  <2> QED BY <1>6, <2>1 DEF IsInjective
<1>9. ToSet(r) = ToSet(q) \cup ToSet(f)
  <2>1. ToSet(r) \subseteq ToSet(q) \cup ToSet(f)
    BY <1>6, <1>7 DEF ToSet
  <2>2. ASSUME NEW x \in ToSet(q) PROVE x \in ToSet(r)
    <3>1. PICK k \in 1 .. n : x = q[k]
      BY <1>6 DEF ToSet
    <3>2. k \in 1 .. n + m /\ r[k] = q[k]
      BY <1>3, <1>5
    <3> QED BY <1>6, <3>1, <3>2 DEF ToSet
  <2>3. ASSUME NEW x \in ToSet(f) PROVE x \in ToSet(r)
    <3>1. PICK k \in 1 .. m : x = f[k]
      BY <1>6 DEF ToSet
    <3>2. PICK j \in 1 .. n + m : j = n + k /\ j - n = k /\ ~(j <= n)
      BY <1>3
    <3>3. r[j] = f[k]
      BY <1>5, <3>2
    <3> QED BY <1>6, <3>1, <3>2, <3>3 DEF ToSet
  <2> QED BY <2>1, <2>2, <2>3
<1>10. PICK mine : mine = [t \in Thread |-> Private(t)]
  OBVIOUS
<1>11. \A t \in Thread : mine[t] = Private(t) /\ Private(t) \subseteq Item
  BY <1>10, PrivateItem DEF MqInv
<1>12. Item = ToSet(r) \cup UNION {mine[t] : t \in Thread}
  <2>1. ToSet(r) \subseteq Item
    BY <1>1, <1>9, SeqFacts DEF MqLists
  <2> QED BY <1>1, <1>9, <1>11, <2>1 DEF MqOwned
<1>13. /\ \A t \in Thread : mine[t] \cap ToSet(r) = {}
       /\ \A t, u \in Thread : t # u => mine[t] \cap mine[u] = {}
  BY <1>1, <1>9, <1>11 DEF MqOwned
<1>14. entries = Len(q) /\ msg_queue_tail = IF q = <<>> THEN Nothing ELSE Last(q)
  BY <1>1 DEF MqLists, Last
<1>15. ItemsConserved
  BY <1>2, <1>4, <1>8, <1>10, <1>12, <1>13, <1>14 DEF ItemsConserved
<1>16. MqNoLostWakeup
  <2>1. suspended[Receivers] # <<>> => Waiting(Receivers) # {}
    BY EmptyList, MqFacts DEF MqInv
  <2> QED BY <2>1 DEF MqInv, MqWakeOK, MqNoLostWakeup
<1> QED BY <1>15, <1>16

-----------------------------------------------------------------------------
(* Detaching a message queue, and resetting a data queue.                    *)

\* Nobody is between the two regions of a send once the queue is not live.
MqCalm == object # "live" => \A u \in Thread : pc[u].at \notin {"filling", "urgent"}

\* The steps of a live object.
LEMMA CallKeeps ==
    ASSUME WaitInv, DetachInv, object = "live", UNCHANGED object, NEW t \in Thread,
           \/ pc' = pc
           \/ \E step \in CallSteps \cup {"run"} : \E timeout, arg :
                 pc' = [pc EXCEPT ![t] = [at |-> step, timeout |-> timeout, arg |-> arg]]
    PROVE  DetachInv'
<1>1. \A u \in Thread : pc'[u].at # pc[u].at => pc'[u].at \in CallSteps \cup {"run"}
  BY DEF WaitInv, PcOK
<1> QED BY <1>1, LiveKeeps DEF CallSteps

LEMMA MqDetachStep ==
    ASSUME MqInv, DetachInv, MqCalm, ~BusyDetach, MqNext
    PROVE  DetachInv' /\ MqCalm'
<1>1. WaitInv
  BY DEF MqInv
<1>2. /\ "receiving" \in ReceiverSteps \cup SenderSteps
      /\ {"receiving", "filling", "urgent", "copying"} \subseteq CallSteps
  BY DEF CallSteps, ReceiverSteps, SenderSteps, BusySteps
<1>3. CASE MqReset
  <2>1. object = "live" /\ UNCHANGED <<pc, object>>
    BY <1>3 DEF MqReset
  <2> QED BY <2>1, LiveKeeps DEF MqCalm
<1>4. ASSUME NEW t \in Thread,
             \/ \E v \in Value : MqTakeItem(t, "filling", v) \/ MqTakeItem(t, "urgent", v)
             \/ MqLink(t, "filling") \/ MqLink(t, "urgent")
             \/ MqRecv(t) \/ MqRecvWaits(t) \/ MqRecvWaitsAgain(t)
      PROVE  DetachInv' /\ MqCalm'
  <2>1. UNCHANGED object /\ (\/ May(t) \/ Woken(t, "receiving")
                             \/ pc[t].at \in {"filling", "urgent"})
    BY <1>4 DEF MqTakeItem, MqLink, MqRecv, MqRecvWaits, MqRecvWaitsAgain, Blocks, BlocksAgain,
                MqTake, At
  <2>2. object = "live"
    BY <1>1, <1>2, <2>1, NobodyWoken DEF May, MqCalm
  <2>3. \/ pc' = [pc EXCEPT ![t] = Running]
        \/ \E step \in {"filling", "urgent", "receiving", "copying"} : \E timeout, arg :
              pc' = [pc EXCEPT ![t] = [at |-> step, timeout |-> timeout, arg |-> arg]]
    BY <1>4 DEF MqTakeItem, MqLink, MqRecv, MqRecvWaits, MqRecvWaitsAgain, Blocks, BlocksAgain,
                MqTake, Wait, Return, Goto
  <2>4. \E step \in CallSteps \cup {"run"} : \E timeout, arg :
              pc' = [pc EXCEPT ![t] = [at |-> step, timeout |-> timeout, arg |-> arg]]
    BY <1>2, <2>3 DEF Running
  <2>5. DetachInv'
    BY <1>1, <2>1, <2>2, <2>4, CallKeeps
  <2> QED BY <2>1, <2>2, <2>5 DEF MqCalm
<1>5. ASSUME NEW t \in Thread, MqRecvFails(t) \/ MqFreeItem(t)
      PROVE  DetachInv' /\ MqCalm'
  <2>1. /\ t \notin Waiters /\ ~Detacher(t) /\ Return(t)
        /\ UNCHANGED <<suspended, timed, object>>
    BY <1>5 DEF MqRecvFails, MqFreeItem, Fails, At, Detacher
  <2>2. \A u \in Thread : pc'[u] = pc[u] \/ pc'[u].at = "run"
    BY <1>1, <2>1 DEF Return, Running, WaitInv, PcOK
  <2> QED BY <1>1, <2>1, <2>2, ReturnKeeps DEF MqCalm
<1>6. ASSUME NEW t \in Thread, Timeout(t) PROVE DetachInv' /\ MqCalm'
  BY <1>1, <1>6, TimeoutKeeps, TimeoutQuiet DEF MqCalm
<1>7. ASSUME NEW t \in Thread, Removed(t) PROVE DetachInv' /\ MqCalm'
  <2>1. WaitInv' /\ Quiet /\ DetachInv'
    BY <1>1, <1>7, RemovedQuiet, RemovedKeeps
  <2>2. \A u \in Thread : pc[u].at \notin {"filling", "urgent"}
    <3>1. CASE Detach(t, "detaching")
      <4>1. \A u \in Thread : pc[u].at = "run" \/ u \in Waiters
        BY <3>1 DEF Detach, Idle
      <4> QED BY <1>1, <4>1, WaitersWait DEF ReceiverSteps, SenderSteps
    <3>2. CASE ~Detach(t, "detaching")
      <4>1. Detacher(t)
        BY <1>7, <3>2 DEF Removed, DetachTest, Tests, DetachResume, DetachEnds, Detacher
      <4> QED BY <4>1 DEF DetachInv, MqCalm
    <3> QED BY <3>1, <3>2
  <2> QED BY <1>2, <2>1, <2>2 DEF Quiet, MqCalm
<1> QED BY <1>3, <1>4, <1>5, <1>6, <1>7 DEF MqNext

LEMMA DqDetachStep ==
    ASSUME DqInv, DetachInv, ~BusyDetach, DqNext
    PROVE  DetachInv'
<1>1. WaitInv
  BY DEF DqInv
<1>2. /\ {"pushing", "popping"} \subseteq ReceiverSteps \cup SenderSteps
      /\ {"pushing", "popping", "popped"} \subseteq CallSteps
  BY DEF CallSteps, ReceiverSteps, SenderSteps, BusySteps
<1>3. ASSUME NEW v \in Value, DqPush(v) PROVE DetachInv'
  <2>1. object = "live" /\ UNCHANGED <<pc, object>>
    BY <1>3 DEF DqPush
  <2> QED BY <2>1, LiveKeeps
<1>4. ASSUME NEW t \in Thread,
             \/ \E v \in Value : DqPushWaits(t, v)
             \/ DqPushWaitsAgain(t) \/ DqPushReturns(t)
             \/ DqPop(t) \/ DqPopWaits(t) \/ DqPopWaitsAgain(t)
      PROVE  DetachInv'
  <2>1. (May(t) \/ Woken(t, "pushing") \/ Woken(t, "popping")) /\ UNCHANGED object
    BY <1>4 DEF DqPushWaits, DqPushWaitsAgain, DqPushReturns, DqPop, DqPopWaits,
                DqPopWaitsAgain, Blocks, DqTake
  <2>2. object = "live"
    BY <1>1, <1>2, <2>1, NobodyWoken DEF May
  <2>3. \/ pc' = [pc EXCEPT ![t] = Running]
        \/ \E step \in {"pushing", "popping", "popped"} : \E timeout, arg :
              pc' = [pc EXCEPT ![t] = [at |-> step, timeout |-> timeout, arg |-> arg]]
    BY <1>4 DEF DqPushWaits, DqPushWaitsAgain, DqPushReturns, DqPop, DqPopWaits,
                DqPopWaitsAgain, Blocks, DqTake, Wait, Return, Goto
  <2>4. \E step \in CallSteps \cup {"run"} : \E timeout, arg :
              pc' = [pc EXCEPT ![t] = [at |-> step, timeout |-> timeout, arg |-> arg]]
    BY <1>2, <2>3 DEF Running
  <2> QED BY <1>1, <2>1, <2>2, <2>4, CallKeeps
<1>5. ASSUME NEW t \in Thread, DqPushFails(t) \/ DqPopFails(t) \/ DqPopReturns(t)
      PROVE  DetachInv'
  <2>1. /\ t \notin Waiters /\ ~Detacher(t) /\ Return(t)
        /\ UNCHANGED <<suspended, timed, object>>
    BY <1>5 DEF DqPushFails, DqPopFails, DqPopReturns, Fails, At, Detacher
  <2> QED BY <1>1, <2>1, ReturnKeeps
<1>6. ASSUME NEW t \in Thread, Timeout(t) PROVE DetachInv'
  BY <1>1, <1>6, TimeoutKeeps
<1>7. ASSUME NEW t \in Thread, DqReset(t) PROVE DetachInv'
  <2>1. Detach(t, "locked") \/ DetachTest(t) \/ DetachResume(t) \/ DetachEnds(t, "live")
    BY <1>7 DEF DqReset
  <2> QED BY <1>1, <2>1, DetachesKeep
<1> QED BY <1>3, <1>4, <1>5, <1>6, <1>7 DEF DqNext

-----------------------------------------------------------------------------
(* A completion.                                                             *)

\* One thread waits at most.
CompletionInv ==
    /\ WaitInv
    /\ \A t, u \in Waiting(Receivers) : t = u
    /\ Waiting(Receivers) # {} => ~flag
    /\ object = "live"
    /\ \A u \in Thread : ~Detacher(u)
    /\ flag \in BOOLEAN

LEMMA CompletionStep ==
    ASSUME CompletionInv, CompletionNext
    PROVE  CompletionInv'
<1>1. CASE CompletionWait
  <2>1. /\ UNCHANGED <<suspended, timed, error, pc, object>> /\ flag' = FALSE
    BY <1>1 DEF CompletionWait, ipcVars, waitVars
  <2>2. Goes(Nothing)
    BY <2>1, HandlerGoes DEF CompletionInv
  <2> QED BY <2>1, <2>2, TwoLists DEF CompletionInv, Goes, Detacher
<1>2. ASSUME NEW t \in Thread, CompletionWaits(t) PROVE CompletionInv'
  <2>1. PICK timeout \in Timeouts :
           Wait(t, Receivers, Enqueue(suspended[Receivers], t), "awaiting", Nothing, timeout)
    BY <1>2 DEF CompletionWaits, Blocks, Timeouts
  <2>2. /\ t \notin Waiters /\ pc[t].at = "run" /\ suspended[Receivers] = <<>> /\ ~flag
        /\ UNCHANGED <<object, flag>>
    BY <1>2 DEF CompletionWaits, Blocks, May, At
  <2>3. PICK l \in List : l = Receivers
    BY TwoLists
  <2>4. PICK step \in StepsAt(l) : step = "awaiting"
    BY <2>3 DEF StepsAt, ReceiverSteps
  <2>5. PICK list : list = Enqueue(suspended[l], t)
    OBVIOUS
  <2>6. Joins(t, l, step, Nothing)
    <3>1. /\ list \in {ListSuspend(t, l), Enqueue(suspended[l], t)}
          /\ Wait(t, l, list, step, Nothing, timeout) /\ Nothing \in Args
          /\ (pc[t].at \in WaitSteps => pc[t].at = step)
      BY <2>1, <2>2, <2>3, <2>4, <2>5, TwoLists DEF WaitSteps, ReceiverSteps, SenderSteps
    <3>2. WaitInv /\ t \notin Waiters /\ UNCHANGED object
      BY <2>2 DEF CompletionInv
    <3> QED BY ONLY <3>1, <3>2, t \in Thread, l \in List, step \in StepsAt(l),
                    timeout \in Timeouts, WaitJoins
  <2>7. Waiting(Receivers) = {}
    BY <2>2, EmptyList, TwoLists DEF CompletionInv
  <2> QED BY <2>2, <2>3, <2>4, <2>6, <2>7 DEF CompletionInv, Joins, Detacher
<1>3. ASSUME NEW t \in Thread, CompletionReturns(t) \/ CompletionTest(t) PROVE CompletionInv'
  <2>1. PICK step \in BusySteps \cup {"run"} :
           /\ pc' = [pc EXCEPT ![t] = [at |-> step, timeout |-> "none", arg |-> Nothing]]
           /\ error' = [error EXCEPT ![t] = "ok"]
           /\ t \notin Waiters /\ UNCHANGED <<suspended, timed, object>>
           /\ flag' \in {FALSE, flag}
    BY <1>3 DEF CompletionReturns, CompletionTest, Goto, Return, Running, BusySteps, At, May
  <2>2. Goes(t) /\ pc'[t].at = step
    BY <2>1, CallGoes, TwoLists DEF CompletionInv
  <2>3. Waiting(Receivers)' = Waiting(Receivers) /\ WaitInv' /\ object' = "live"
    BY <2>1, <2>2, TwoLists DEF CompletionInv, Goes
  <2>4. \A u \in Thread : ~Detacher(u)'
    <3>1. step \notin {"test", "resume"}
      BY DEF BusySteps
    <3>2. \A u \in Thread : pc'[u].at = IF u = t THEN step ELSE pc[u].at
      BY <2>1 DEF CompletionInv, WaitInv, PcOK
    <3> QED BY <3>1, <3>2 DEF CompletionInv, Detacher
  <2>5. flag' \in BOOLEAN /\ (flag' => flag)
    <3>1. flag' = FALSE \/ flag' = flag
      BY <1>3 DEF CompletionReturns, CompletionTest
    <3>2. flag \in BOOLEAN
      BY DEF CompletionInv
    <3>3. CASE flag' = FALSE
      BY <3>3
    <3>4. CASE flag' = flag
      BY ONLY <3>2, <3>4, Zenon
    <3> QED BY ONLY <3>1, <3>3, <3>4, Zenon
  <2> QED BY <2>3, <2>4, <2>5 DEF CompletionInv
<1>4. ASSUME NEW t \in Thread, CompletionDone(t) PROVE CompletionInv'
  <2>1. /\ pc' = [pc EXCEPT ![t] = [at |-> "run", timeout |-> "none", arg |-> Nothing]]
        /\ error' = [error EXCEPT ![t] = "ok"]
        /\ t \notin Waiters /\ ResumeIfAny(Receivers) /\ UNCHANGED object /\ flag' = TRUE
    BY <1>4 DEF CompletionDone, Return, Running, At
  <2>2. Wakes(t, Receivers) /\ pc'[t].at = "run"
    BY <2>1, CallWakes, TwoLists DEF CompletionInv
  <2>3. Waiting(Receivers)' = {}
    BY <2>2 DEF Wakes, CompletionInv
  <2> QED BY <2>1, <2>2, <2>3 DEF CompletionInv, Wakes, Detacher
<1>5. ASSUME NEW t \in Thread, Timeout(t), UNCHANGED flag PROVE CompletionInv'
  <2>1. /\ WaitInv' /\ UNCHANGED <<pc, object>>
        /\ Waiting(Receivers)' \subseteq Waiting(Receivers)
    BY <1>5, TimeoutQuiet, TwoLists DEF CompletionInv, Quiet
  <2> QED BY <1>5, <2>1 DEF CompletionInv, Detacher
<1> QED BY <1>1, <1>2, <1>3, <1>4, <1>5 DEF CompletionNext

LEMMA CompletionStarts == IpcInit /\ CompletionInit => CompletionInv
<1> SUFFICES ASSUME IpcInit, CompletionInit PROVE CompletionInv
  OBVIOUS
<1>1. WaitInv
  BY WaitStarts
<1>2. Waiting(Receivers) = {}
  BY <1>1, EmptyList, TwoLists DEF IpcInit
<1> QED BY <1>1, <1>2 DEF CompletionInv, IpcInit, Running, Detacher, CompletionInit

LEMMA CompletionStutters ==
    ASSUME CompletionInv, UNCHANGED <<ipcVars, flag>>
    PROVE  CompletionInv'
<1>1. UNCHANGED <<suspended, timed, error, pc, object, flag>>
  BY DEF ipcVars, waitVars
<1>2. Goes(Nothing)
  BY <1>1, HandlerGoes DEF CompletionInv
<1> QED BY <1>1, <1>2, TwoLists DEF CompletionInv, Goes, Detacher

-----------------------------------------------------------------------------
(* The walk of rt_event_send.                                                *)

EventPc == [at : Steps, timeout : Timeouts, arg : Args]

\* What a thread has in its hands that received got.
Handed(p, got) ==
    [at |-> p.at, timeout |-> p.timeout,
     arg |-> [event_set |-> got, event_info |-> p.arg.event_info]]

WalkStep(list, first, w) ==
    [i \in 0 .. Len(list) |-> IF i = 0 THEN first ELSE Visit(w[i - 1], list[i])]

\* The recursion of the walk has a solution.
LEMMA WalkExists ==
    ASSUME NEW list \in Seq(Thread), NEW first
    PROVE  \E w : w = WalkStep(list, first, w)
<1>1. PICK n \in Nat : n = Len(list)
  BY LenProperties
<1> DEFINE Walk(k, w) ==
              w = [i \in 0 .. k |-> IF i = 0 THEN first ELSE Visit(w[i - 1], list[i])]
<1>2. ASSUME NEW T \in SUBSET Nat, T = {k \in 0 .. n : ~\E w : Walk(k, w)}, T # {} PROVE FALSE
  <2>1. PICK m \in Nat : m \in T /\ \A y \in T : m <= y
    BY <1>2, LeastPlace
  <2>2. m \in 0 .. n /\ ~\E w : Walk(m, w)
    BY <1>2, <2>1
  <2>3. CASE m = 0
    <3> DEFINE w == [i \in 0 .. 0 |-> first]
    <3>1. w = [i \in 0 .. 0 |-> IF i = 0 THEN first ELSE Visit(w[i - 1], list[i])]
      OBVIOUS
    <3>2. Walk(0, w)
      BY <3>1
    <3> QED BY <2>2, <2>3, <3>2
  <2>4. CASE m # 0
    <3>1. m - 1 \in 0 .. n /\ m - 1 \notin T
      BY <2>1, <2>2, <2>4
    <3>2. PICK g : Walk(m - 1, g)
      BY <1>2, <3>1
    <3>3. g = [i \in 0 .. m - 1 |-> IF i = 0 THEN first ELSE Visit(g[i - 1], list[i])]
      BY <3>2
    <3> DEFINE w == [i \in 0 .. m |-> IF i = m THEN Visit(g[m - 1], list[m]) ELSE g[i]]
    <3>4. \A i \in 0 .. m : i # m => w[i] = g[i] /\ i \in 0 .. m - 1
      BY <2>1
    <3>5. \A i \in 0 .. m : w[i] = IF i = 0 THEN first ELSE Visit(w[i - 1], list[i])
      <4> SUFFICES ASSUME NEW i \in 0 .. m
                   PROVE  w[i] = IF i = 0 THEN first ELSE Visit(w[i - 1], list[i])
        OBVIOUS
      <4>1. CASE i = m
        <5>1. w[m] = Visit(g[m - 1], list[m]) /\ w[m - 1] = g[m - 1]
          BY <2>1, <2>4
        <5> HIDE DEF w
        <5> QED BY <2>4, <4>1, <5>1
      <4>2. CASE i # m
        <5>1. w[i] = g[i] /\ i \in 0 .. m - 1
          BY <3>4, <4>2
        <5>2. i # 0 => w[i - 1] = g[i - 1]
          BY <3>4, <4>2, <2>1
        <5> HIDE DEF w
        <5> QED BY <3>3, <5>1, <5>2
      <4> QED BY <4>1, <4>2
    <3>6. w = [i \in 0 .. m |-> w[i]]
      OBVIOUS
    <3> HIDE DEF w
    <3>7. w = [i \in 0 .. m |-> IF i = 0 THEN first ELSE Visit(w[i - 1], list[i])]
      BY <3>5, <3>6
    <3>8. Walk(m, w)
      BY <3>7
    <3> QED BY <2>2, <3>8
  <2> QED BY <2>3, <2>4
<1>3. {k \in 0 .. n : ~\E w : Walk(k, w)} \in SUBSET Nat
  OBVIOUS
<1> HIDE DEF Walk
<1>4. PICK T : T = {k \in 0 .. n : ~\E w : Walk(k, w)}
  OBVIOUS
<1>5. T = {}
  BY <1>2, <1>3, <1>4
<1>6. \E w : Walk(n, w)
  <2>1. n \in 0 .. n /\ n \notin T
    BY <1>5
  <2> QED BY <1>4, <2>1
<1> QED BY <1>1, <1>6 DEF WalkStep, Walk

\* The set, the list, the threads and the timers when rt_event_send comes to the first
\* waiter.
WalkStart(events) ==
    [set |-> set \cup events, list |-> suspended[Receivers], pc |-> pc, timed |-> timed]

LEMMA EventSendWalks ==
    ASSUME WaitInv, NEW events, EventSend(events)
    PROVE  \E w : /\ w = WalkStep(suspended[Receivers], WalkStart(events), w)
                  /\ set' = w[Len(suspended[Receivers])].set
                  /\ suspended' = [suspended EXCEPT ![Receivers] =
                                      w[Len(suspended[Receivers])].list]
                  /\ timed' = w[Len(suspended[Receivers])].timed
                  /\ pc' = w[Len(suspended[Receivers])].pc
<1>1. suspended[Receivers] \in Seq(Thread)
  BY DEF WaitInv, ListsOK, List
<1>2. \E w : w = WalkStep(suspended[Receivers], WalkStart(events), w)
  BY <1>1, WalkExists
<1>3. PICK w : w = CHOOSE x : x = WalkStep(suspended[Receivers], WalkStart(events), x)
  OBVIOUS
<1>4. w = WalkStep(suspended[Receivers], WalkStart(events), w)
  BY <1>2, <1>3
<1>5. /\ set' = w[Len(suspended[Receivers])].set
      /\ suspended' = [suspended EXCEPT ![Receivers] = w[Len(suspended[Receivers])].list]
      /\ timed' = w[Len(suspended[Receivers])].timed
      /\ pc' = w[Len(suspended[Receivers])].pc
  BY <1>3 DEF EventSend, WalkStep, WalkStart
<1> QED BY <1>4, <1>5

LEMMA VisitIs ==
    ASSUME NEW walk, walk.pc \in [Thread -> EventPc], NEW t \in Thread,
           walk.pc[t].arg \in Wants
    PROVE  /\ ~Satisfied(walk.pc[t].arg, walk.set) => Visit(walk, t) = walk
           /\ Satisfied(walk.pc[t].arg, walk.set) =>
                 LET got == Received(walk.pc[t].arg, walk.set)
                 IN  /\ Visit(walk, t).set = IF walk.pc[t].arg.event_info.clear
                                             THEN walk.set \ got ELSE walk.set
                     /\ Visit(walk, t).list = Unlink(walk.list, t)
                     /\ Visit(walk, t).pc =
                           [walk.pc EXCEPT ![t] = Handed(walk.pc[t], got)]
                     /\ Visit(walk, t).timed = walk.timed \ {t}
<1>1. CASE ~Satisfied(walk.pc[t].arg, walk.set)
  BY <1>1 DEF Visit
<1>2. CASE Satisfied(walk.pc[t].arg, walk.set)
  <2>1. PICK got : got = Received(walk.pc[t].arg, walk.set)
    OBVIOUS
  <2>2. Visit(walk, t) =
           [set |-> IF walk.pc[t].arg.event_info.clear THEN walk.set \ got ELSE walk.set,
            list |-> Unlink(walk.list, t),
            pc |-> [walk.pc EXCEPT ![t].arg.event_set = got],
            timed |-> walk.timed \ {t}]
    BY <1>2, <2>1 DEF Visit
  <2>3. [walk.pc EXCEPT ![t].arg.event_set = got] =
           [walk.pc EXCEPT ![t] = Handed(walk.pc[t], got)]
    <3>1. walk.pc[t] \in EventPc
      OBVIOUS
    <3>2. [walk.pc[t].arg EXCEPT !.event_set = got] =
              [event_set |-> got, event_info |-> walk.pc[t].arg.event_info]
      BY DEF Wants
    <3>3. [walk.pc[t] EXCEPT !.arg = [walk.pc[t].arg EXCEPT !.event_set = got]] =
              Handed(walk.pc[t], got)
      BY <3>1, <3>2 DEF EventPc, Handed
    <3> QED BY <3>3
  <2> QED BY <1>2, <2>1, <2>2, <2>3
<1> QED BY <1>1, <1>2

\* Whether the j-th waiter is satisfied when the walk comes to it.
Gets(w, j) == Satisfied(pc[suspended[Receivers][j]].arg, w[j - 1].set)
Share(w, j) == Received(pc[suspended[Receivers][j]].arg, w[j - 1].set)

EventPcOK ==
    \A t \in Thread : pc[t].at = "receiving" =>
                         pc[t].arg \in Wants /\ pc[t].arg.event_set # {}

EventInv ==
    /\ WaitInv
    /\ set \subseteq Bit
    /\ EventPcOK
    /\ \A u \in Waiting(Receivers) : pc[u].at = "receiving" /\ ~Satisfied(pc[u].arg, set)

\* What is true of the walk behind i waiters.
WalkLists(w, i) ==
    /\ w[i].list \in Seq(Thread) /\ IsInjective(w[i].list)
    /\ ToSet(w[i].list) \subseteq Waiting(Receivers)
    /\ \A j \in 1 .. Len(suspended[Receivers]) :
          suspended[Receivers][j] \in ToSet(w[i].list) <=> ~(j <= i /\ Gets(w, j))
    /\ w[i].timed = {u \in timed : u \in Waiting(Receivers) => u \in ToSet(w[i].list)}

WalkPcs(w, i) ==
    /\ w[i].pc \in [Thread -> EventPc]
    /\ \A u \in Thread : u \notin Waiting(Receivers) => w[i].pc[u] = pc[u]
    /\ \A j \in 1 .. Len(suspended[Receivers]) :
          w[i].pc[suspended[Receivers][j]] =
             IF j <= i /\ Gets(w, j) THEN Handed(pc[suspended[Receivers][j]], Share(w, j))
                                     ELSE pc[suspended[Receivers][j]]

WalkSets(w, i) ==
    /\ w[i].set \subseteq Bit
    /\ \A j \in 0 .. i : w[i].set \subseteq w[j].set
    /\ \A j \in 1 .. i :
          Gets(w, j) /\ pc[suspended[Receivers][j]].arg.event_info.clear =>
             Share(w, j) \cap w[j].set = {}

WalkOK(w, i) == WalkLists(w, i) /\ WalkPcs(w, i) /\ WalkSets(w, i)

LEMMA EventListFacts ==
    ASSUME WaitInv
    PROVE  /\ suspended[Receivers] \in Seq(Thread) /\ IsInjective(suspended[Receivers])
           /\ Waiting(Receivers) \subseteq Thread
           /\ \A j \in 1 .. Len(suspended[Receivers]) :
                 /\ suspended[Receivers][j] \in Thread
                 /\ suspended[Receivers][j] \in Waiting(Receivers)
           /\ \A u \in Waiting(Receivers) :
                 \E j \in 1 .. Len(suspended[Receivers]) : u = suspended[Receivers][j]
           /\ \A j, k \in 1 .. Len(suspended[Receivers]) :
                 suspended[Receivers][j] = suspended[Receivers][k] => j = k
<1>1. suspended[Receivers] \in Seq(Thread) /\ IsInjective(suspended[Receivers])
  BY DEF WaitInv, ListsOK, List
<1>2. DOMAIN suspended[Receivers] = 1 .. Len(suspended[Receivers])
  BY <1>1, LenProperties
<1>3. Waiting(Receivers) \subseteq Thread
  BY WaitersType DEF WaitInv
<1> QED BY <1>1, <1>2, <1>3 DEF Waiting, ToSet, IsInjective

LEMMA WalkStarts ==
    ASSUME EventInv, NEW events \in SUBSET Bit, NEW w,
           w = WalkStep(suspended[Receivers], WalkStart(events), w)
    PROVE  WalkOK(w, 0)
<1>1. PICK n \in Nat : n = Len(suspended[Receivers])
  BY EventListFacts, LenProperties DEF EventInv
<1>2. w[0] = WalkStart(events)
  BY <1>1 DEF WalkStep
<1>3. w[0].set = set \cup events /\ w[0].list = suspended[Receivers]
      /\ w[0].pc = pc /\ w[0].timed = timed
  BY <1>2 DEF WalkStart
<1>4. WalkLists(w, 0)
  BY <1>1, <1>3, EventListFacts DEF WalkLists, EventInv, Waiting
<1>5. WalkPcs(w, 0)
  BY <1>1, <1>3 DEF WalkPcs, EventInv, WaitInv, PcOK, EventPc
<1>6. WalkSets(w, 0)
  BY <1>3 DEF WalkSets, EventInv
<1> QED BY <1>4, <1>5, <1>6 DEF WalkOK

LEMMA WalkGoesOn ==
    ASSUME EventInv, NEW events \in SUBSET Bit, NEW w,
           w = WalkStep(suspended[Receivers], WalkStart(events), w),
           NEW i \in 1 .. Len(suspended[Receivers]), WalkOK(w, i - 1)
    PROVE  WalkOK(w, i)
<1>1. PICK n \in Nat : n = Len(suspended[Receivers])
  BY EventListFacts, LenProperties DEF EventInv
<1>2. PICK t : t = suspended[Receivers][i]
  OBVIOUS
<1>3. PICK h : h = i - 1
  OBVIOUS
<1>4. i \in 1 .. n /\ h \in 0 .. n /\ i = h + 1 /\ h \in Nat /\ i \in Nat
  BY <1>1, <1>3
<1>5. w[i] = Visit(w[h], t)
  BY <1>1, <1>2, <1>3, <1>4 DEF WalkStep
<1>6. /\ t \in Thread /\ t \in Waiting(Receivers)
      /\ \A j \in 1 .. n : suspended[Receivers][j] = t <=> j = i
  BY <1>1, <1>2, <1>4, EventListFacts DEF EventInv
<1>7. WalkLists(w, h) /\ WalkPcs(w, h) /\ WalkSets(w, h)
  BY <1>3 DEF WalkOK
<1>8. w[h].pc[t] = pc[t] /\ pc[t].arg \in Wants /\ w[h].pc \in [Thread -> EventPc]
  <2>1. w[h].pc[t] = pc[t]
    BY <1>1, <1>2, <1>4, <1>7 DEF WalkPcs
  <2> QED BY <1>6, <1>7, <2>1 DEF EventInv, EventPcOK, WalkPcs
<1>9. Gets(w, i) <=> Satisfied(pc[t].arg, w[h].set)
  BY <1>2, <1>3 DEF Gets
<1>10. \A j \in 1 .. n : j <= i <=> j <= h \/ j = i
  BY <1>4
<1>11. CASE ~Satisfied(pc[t].arg, w[h].set)
  <2>1. w[i] = w[h]
    BY <1>5, <1>6, <1>8, <1>11, VisitIs
  <2>2. WalkLists(w, i)
    BY <1>1, <1>7, <1>9, <1>10, <1>11, <2>1 DEF WalkLists
  <2>3. WalkPcs(w, i)
    BY <1>1, <1>7, <1>9, <1>10, <1>11, <2>1 DEF WalkPcs
  <2>4. WalkSets(w, i)
    <3>1. /\ \A j \in 0 .. i : j \in 0 .. h \/ j = i
          /\ \A j \in 1 .. i : j \in 1 .. h \/ j = i
      BY <1>4
    <3> QED BY <1>7, <1>9, <1>11, <2>1, <3>1 DEF WalkSets
  <2> QED BY <2>2, <2>3, <2>4 DEF WalkOK
<1>12. CASE Satisfied(pc[t].arg, w[h].set)
  <2>1. PICK got : got = Received(pc[t].arg, w[h].set)
    OBVIOUS
  <2>2. /\ w[i].set \subseteq w[h].set
        /\ pc[t].arg.event_info.clear => got \cap w[i].set = {}
        /\ w[i].list = Unlink(w[h].list, t)
        /\ w[i].pc = [w[h].pc EXCEPT ![t] = Handed(pc[t], got)]
        /\ w[i].timed = w[h].timed \ {t}
    <3>1. PICK walk : walk = w[h]
      OBVIOUS
    <3>2. /\ walk.pc[t] = pc[t] /\ walk.pc \in [Thread -> EventPc]
          /\ Satisfied(walk.pc[t].arg, walk.set) /\ walk.pc[t].arg \in Wants
          /\ got = Received(walk.pc[t].arg, walk.set)
      BY <1>8, <1>12, <2>1, <3>1
    <3>3. /\ Visit(walk, t).set = IF walk.pc[t].arg.event_info.clear
                                  THEN walk.set \ got ELSE walk.set
          /\ Visit(walk, t).list = Unlink(walk.list, t)
          /\ Visit(walk, t).pc = [walk.pc EXCEPT ![t] = Handed(walk.pc[t], got)]
          /\ Visit(walk, t).timed = walk.timed \ {t}
      BY <1>6, <3>2, VisitIs
    <3>4. w[i] = Visit(walk, t)
      BY <1>5, <3>1
    <3> QED BY <3>1, <3>2, <3>3, <3>4
  <2>3. WalkLists(w, i)
    <3>1. /\ w[i].list \in Seq(Thread) /\ IsInjective(w[i].list)
          /\ ToSet(w[i].list) = ToSet(w[h].list) \ {t}
      BY <1>7, <2>2, UnlinkElements DEF WalkLists
    <3>2. ToSet(w[i].list) \subseteq Waiting(Receivers)
      BY <1>7, <3>1 DEF WalkLists
    <3>3. \A j \in 1 .. n :
             suspended[Receivers][j] \in ToSet(w[i].list) <=> ~(j <= i /\ Gets(w, j))
      BY <1>1, <1>6, <1>7, <1>9, <1>10, <1>12, <3>1 DEF WalkLists
    <3>4. w[i].timed = {u \in timed : u \in Waiting(Receivers) => u \in ToSet(w[i].list)}
      BY <1>6, <1>7, <2>2, <3>1 DEF WalkLists
    <3> QED BY <1>1, <3>1, <3>2, <3>3, <3>4 DEF WalkLists
  <2>4. WalkPcs(w, i)
    <3>1. Handed(pc[t], got) \in EventPc
      <4>1. got \in SUBSET Bit
        BY <1>8, <2>1 DEF Wants, Received
      <4>2. [event_set |-> got, event_info |-> pc[t].arg.event_info] \in Wants
        BY <1>8, <4>1 DEF Wants
      <4>3. pc[t] \in EventPc
        BY <1>6, <1>8
      <4> QED BY <4>2, <4>3 DEF Handed, EventPc, Args
    <3>2. w[i].pc \in [Thread -> EventPc]
      BY <1>8, <2>2, <3>1
    <3>3. \A u \in Thread : w[i].pc[u] = IF u = t THEN Handed(pc[t], got) ELSE w[h].pc[u]
      BY <1>8, <2>2
    <3>4. \A j \in 1 .. n :
          w[i].pc[suspended[Receivers][j]] =
             IF j <= i /\ Gets(w, j) THEN Handed(pc[suspended[Receivers][j]], Share(w, j))
                                     ELSE pc[suspended[Receivers][j]]
      <4> SUFFICES ASSUME NEW j \in 1 .. n
                   PROVE  w[i].pc[suspended[Receivers][j]] =
                             IF j <= i /\ Gets(w, j)
                             THEN Handed(pc[suspended[Receivers][j]], Share(w, j))
                             ELSE pc[suspended[Receivers][j]]
        OBVIOUS
      <4>1. CASE j = i
        <5>1. Share(w, i) = got
          BY <1>2, <1>3, <2>1 DEF Share
        <5> QED BY <1>2, <1>4, <1>6, <1>9, <1>12, <3>3, <4>1, <5>1
      <4>2. CASE j # i
        <5>1. suspended[Receivers][j] \in Thread /\ suspended[Receivers][j] # t
          BY <1>1, <1>6, <4>2, EventListFacts DEF EventInv
        <5>2. w[i].pc[suspended[Receivers][j]] = w[h].pc[suspended[Receivers][j]]
          BY <3>3, <5>1
        <5>3. w[h].pc[suspended[Receivers][j]] =
             IF j <= h /\ Gets(w, j) THEN Handed(pc[suspended[Receivers][j]], Share(w, j))
                                     ELSE pc[suspended[Receivers][j]]
          BY <1>1, <1>7 DEF WalkPcs
        <5>4. j <= i <=> j <= h
          BY <1>10, <4>2
        <5> QED BY <5>2, <5>3, <5>4
      <4> QED BY <4>1, <4>2
    <3>5. \A u \in Thread : u \notin Waiting(Receivers) => w[i].pc[u] = pc[u]
      BY <1>6, <1>7, <3>3 DEF WalkPcs
    <3> QED BY <1>1, <3>2, <3>4, <3>5 DEF WalkPcs
  <2>5. WalkSets(w, i)
    <3>1. /\ \A j \in 0 .. i : j \in 0 .. h \/ j = i
          /\ \A j \in 1 .. i : j \in 1 .. h \/ j = i
      BY <1>4
    <3>2. pc[t].arg.event_info.clear => Share(w, i) \cap w[i].set = {}
      BY <1>2, <1>3, <2>1, <2>2 DEF Share
    <3> QED BY <1>2, <1>7, <2>2, <3>1, <3>2 DEF WalkSets
  <2> QED BY <2>3, <2>4, <2>5 DEF WalkOK
<1> QED BY <1>11, <1>12

LEMMA WalkIsOK ==
    ASSUME EventInv, NEW events \in SUBSET Bit, NEW w,
           w = WalkStep(suspended[Receivers], WalkStart(events), w)
    PROVE  \A i \in 0 .. Len(suspended[Receivers]) : WalkOK(w, i)
<1>1. PICK n \in Nat : n = Len(suspended[Receivers])
  BY EventListFacts, LenProperties DEF EventInv
<1>2. PICK T : T = {k \in 0 .. n : ~WalkOK(w, k)}
  OBVIOUS
<1>3. T = {}
  <2> SUFFICES ASSUME T # {} PROVE FALSE
    OBVIOUS
  <2>1. T \in SUBSET Nat
    BY <1>2
  <2>2. PICK m \in Nat : m \in T /\ \A y \in T : m <= y
    BY <2>1, LeastPlace
  <2>3. m \in 0 .. n /\ ~WalkOK(w, m)
    BY <1>2, <2>2
  <2>4. m # 0
    BY <2>3, WalkStarts
  <2>5. m \in 1 .. n /\ m - 1 \in 0 .. n /\ m - 1 \notin T
    BY <2>2, <2>3, <2>4
  <2>6. WalkOK(w, m - 1)
    BY <1>2, <2>5
  <2> QED BY <1>1, <2>3, <2>5, <2>6, WalkGoesOn
<1> QED BY <1>1, <1>2, <1>3

LEMMA SatisfiedBy ==
    ASSUME NEW want \in Wants, NEW less, NEW more, less \subseteq more
    PROVE  /\ Satisfied(want, less) => Satisfied(want, more)
           /\ Received(want, more) \subseteq want.event_set
           /\ want.event_info.all => Received(want, more) = want.event_set
           /\ Satisfied(want, more) => Received(want, more) \subseteq more
           /\ Satisfied(want, more) /\ want.event_set # {} => Received(want, more) # {}
BY DEF Satisfied, Received

\* The walk, at its end.
LEMMA EventSendIs ==
    ASSUME EventInv, NEW events \in SUBSET Bit, EventSend(events)
    PROVE  \E w : /\ \A i \in 0 .. Len(suspended[Receivers]) : WalkOK(w, i)
                  /\ set' = w[Len(suspended[Receivers])].set
                  /\ suspended' = [suspended EXCEPT ![Receivers] =
                                      w[Len(suspended[Receivers])].list]
                  /\ timed' = w[Len(suspended[Receivers])].timed
                  /\ pc' = w[Len(suspended[Receivers])].pc
BY EventSendWalks, WalkIsOK DEF EventInv

\* What rt_event_send does, with the walk w.
Sent(w) ==
    LET list == suspended[Receivers]
    IN  /\ Waiting(Receivers)' \subseteq Waiting(Receivers)
        /\ Waiting(Senders)' = Waiting(Senders)
        /\ \A u \in Thread : /\ pc'[u].at = pc[u].at /\ pc'[u].timeout = pc[u].timeout
                             /\ u \notin Waiting(Receivers) => pc'[u] = pc[u]
        /\ \A j \in 1 .. Len(list) :
              IF Gets(w, j)
              THEN list[j] \notin Waiting(Receivers)' /\ pc'[list[j]].arg.event_set = Share(w, j)
                   /\ pc'[list[j]].arg \in Wants
              ELSE list[j] \in Waiting(Receivers)' /\ pc'[list[j]] = pc[list[j]]
        /\ \A j \in 0 .. Len(list) : set' \subseteq w[j].set
        /\ set' \subseteq Bit

LEMMA EventSendSays ==
    ASSUME EventInv, NEW events \in SUBSET Bit, EventSend(events)
    PROVE  \E w : Sent(w) /\ WaitInv' /\ \A i \in 0 .. Len(suspended[Receivers]) : WalkOK(w, i)
<1>1. PICK n \in Nat : n = Len(suspended[Receivers])
  BY EventListFacts, LenProperties DEF EventInv
<1>2. PICK w : /\ \A i \in 0 .. n : WalkOK(w, i)
               /\ set' = w[n].set
               /\ suspended' = [suspended EXCEPT ![Receivers] = w[n].list]
               /\ timed' = w[n].timed
               /\ pc' = w[n].pc
  BY <1>1, EventSendIs
<1>3. WalkLists(w, n) /\ WalkPcs(w, n) /\ WalkSets(w, n)
  BY <1>1, <1>2 DEF WalkOK
<1>4. PICK list : list = suspended[Receivers]
  OBVIOUS
<1>5. /\ list \in Seq(Thread) /\ Waiting(Receivers) \subseteq Thread
      /\ \A j \in 1 .. n : list[j] \in Thread /\ list[j] \in Waiting(Receivers)
      /\ \A u \in Waiting(Receivers) : \E j \in 1 .. n : u = list[j]
  BY <1>1, <1>4, EventListFacts DEF EventInv
<1>6. suspended'[Receivers] = w[n].list /\ suspended'[Senders] = suspended[Senders]
      /\ suspended' \in [List -> Seq(Thread)]
  <2>1. w[n].list \in Seq(Thread) /\ suspended \in [List -> Seq(Thread)]
    BY <1>3 DEF EventInv, WaitInv, ListsOK, WalkLists
  <2>2. Receivers \in List /\ Senders \in List /\ Receivers # Senders
    BY TwoLists
  <2> QED BY <1>2, <2>1, <2>2
<1>7. /\ Waiting(Receivers)' = ToSet(w[n].list) /\ Waiting(Senders)' = Waiting(Senders)
      /\ Waiting(Receivers)' \subseteq Waiting(Receivers)
  BY <1>3, <1>6 DEF Waiting, WalkLists
<1>8. \A j \in 1 .. n : /\ list[j] \in Waiting(Receivers)' <=> ~Gets(w, j)
                        /\ pc'[list[j]] = IF Gets(w, j) THEN Handed(pc[list[j]], Share(w, j))
                                                        ELSE pc[list[j]]
  <2>1. \A j \in 1 .. n : j <= n
    OBVIOUS
  <2> QED BY <1>1, <1>2, <1>3, <1>4, <1>7, <2>1 DEF WalkLists, WalkPcs
<1>9. /\ pc' \in [Thread -> EventPc]
      /\ \A u \in Thread : u \notin Waiting(Receivers) => pc'[u] = pc[u]
  BY <1>2, <1>3 DEF WalkPcs
<1>10. \A u \in Thread : pc'[u].at = pc[u].at /\ pc'[u].timeout = pc[u].timeout
  <2> SUFFICES ASSUME NEW u \in Thread
               PROVE  pc'[u].at = pc[u].at /\ pc'[u].timeout = pc[u].timeout
    OBVIOUS
  <2>1. CASE u \notin Waiting(Receivers)
    BY <1>9, <2>1
  <2>2. CASE u \in Waiting(Receivers)
    <3>1. PICK j \in 1 .. n : u = list[j]
      BY <1>5, <2>2
    <3>2. pc'[u] = pc[u] \/ pc'[u] = Handed(pc[u], Share(w, j))
      BY <1>8, <3>1
    <3>3. /\ Handed(pc[u], Share(w, j)).at = pc[u].at
          /\ Handed(pc[u], Share(w, j)).timeout = pc[u].timeout
      BY DEF Handed
    <3> QED BY <3>2, <3>3
  <2> QED BY <2>1, <2>2
<1>11. \A j \in 0 .. n : set' \subseteq w[j].set
  BY <1>2, <1>3 DEF WalkSets
<1>12. set' \subseteq Bit
  BY <1>2, <1>3 DEF WalkSets
<1>13. \A j \in 1 .. n : Gets(w, j) =>
           pc'[list[j]].arg.event_set = Share(w, j) /\ pc'[list[j]].arg \in Wants
  <2> SUFFICES ASSUME NEW j \in 1 .. n, Gets(w, j)
               PROVE  pc'[list[j]].arg.event_set = Share(w, j) /\ pc'[list[j]].arg \in Wants
    OBVIOUS
  <2>1. pc'[list[j]].arg = [event_set |-> Share(w, j), event_info |-> pc[list[j]].arg.event_info]
    <3>1. pc'[list[j]] = Handed(pc[list[j]], Share(w, j))
      BY <1>8
    <3> QED BY <3>1 DEF Handed
  <2>2. pc[list[j]].arg \in Wants
    BY <1>5 DEF EventInv, EventPcOK
  <2>3. Share(w, j) \in SUBSET Bit
    BY <1>4, <2>2 DEF Share, Received, Wants
  <2> QED BY <2>1, <2>2, <2>3 DEF Wants
<1>14. Sent(w)
  BY <1>1, <1>4, <1>7, <1>8, <1>9, <1>10, <1>11, <1>12, <1>13 DEF Sent
<1>15. error' = error /\ object' = object
  BY DEF EventSend
<1>16. ListsOK'
  BY <1>3, <1>6, <1>7 DEF EventInv, WaitInv, ListsOK, WalkLists
<1>17. PcOK'
  <2>1. \A u \in Thread : pc'[u].at \in {"test", "resume"} => pc'[u].arg \in List
    <3> SUFFICES ASSUME NEW u \in Thread, pc'[u].at \in {"test", "resume"}
                 PROVE  pc'[u].arg \in List
      OBVIOUS
    <3>1. u \notin Waiting(Receivers)
      BY <1>10 DEF EventInv
    <3> QED BY <1>9, <3>1 DEF EventInv, WaitInv, PcOK
  <2> QED BY <1>9, <1>15, <2>1 DEF EventInv, WaitInv, PcOK, EventPc
<1>18. WaitOK'
  <2>1. timed' = {u \in timed : u \in Waiting(Receivers) => u \in Waiting(Receivers)'}
    BY <1>2, <1>3, <1>7 DEF WalkLists
  <2>2. \A u \in timed : u \in Waiting(Receivers) \cup Waiting(Senders) /\ pc[u].timeout = "ticks"
    BY DEF EventInv, WaitInv, WaitOK
  <2>3. Waiting(Senders) \subseteq Thread
    BY WaitersType DEF EventInv, WaitInv
  <2> QED BY <1>5, <1>7, <1>10, <1>15, <2>1, <2>2, <2>3 DEF EventInv, WaitInv, WaitOK
<1> QED BY <1>1, <1>2, <1>14, <1>16, <1>17, <1>18 DEF WaitInv

LEMMA EventSendKeeps ==
    ASSUME EventInv, NEW events \in SUBSET Bit, EventSend(events)
    PROVE  EventInv' /\ \A u \in Thread : pc'[u].at = pc[u].at
<1>1. PICK n \in Nat : n = Len(suspended[Receivers])
  BY EventListFacts, LenProperties DEF EventInv
<1>2. PICK w : Sent(w) /\ WaitInv' /\ \A i \in 0 .. n : WalkOK(w, i)
  BY <1>1, EventSendSays
<1>3. PICK list : list = suspended[Receivers]
  OBVIOUS
<1>4. /\ Waiting(Receivers) \subseteq Thread
      /\ \A j \in 1 .. n : list[j] \in Thread /\ list[j] \in Waiting(Receivers)
      /\ \A u \in Waiting(Receivers) : \E j \in 1 .. n : u = list[j]
  BY <1>1, <1>3, EventListFacts DEF EventInv
<1>5. \A j \in 1 .. n : /\ pc[list[j]].at = "receiving" /\ pc[list[j]].arg \in Wants
                        /\ pc[list[j]].arg.event_set # {}
  BY <1>4 DEF EventInv, EventPcOK
<1>6. EventPcOK'
  <2> SUFFICES ASSUME NEW u \in Thread, pc'[u].at = "receiving"
               PROVE  pc'[u].arg \in Wants /\ pc'[u].arg.event_set # {}
    BY DEF EventPcOK
  <2>1. pc[u].at = "receiving" /\ pc[u].arg \in Wants /\ pc[u].arg.event_set # {}
    BY <1>2 DEF Sent, EventInv, EventPcOK
  <2>2. CASE u \notin Waiting(Receivers)
    BY <1>2, <2>1, <2>2 DEF Sent
  <2>3. CASE u \in Waiting(Receivers)
    <3>1. PICK j \in 1 .. n : u = list[j]
      BY <1>4, <2>3
    <3>2. CASE ~Gets(w, j)
      BY <1>1, <1>2, <1>3, <2>1, <3>1, <3>2 DEF Sent
    <3>3. CASE Gets(w, j)
      <4>1. pc'[u].arg.event_set = Share(w, j) /\ pc'[u].arg \in Wants
        BY <1>1, <1>2, <1>3, <3>1, <3>3 DEF Sent
      <4>2. Share(w, j) # {}
        BY <1>3, <1>5, <3>3, SatisfiedBy DEF Gets, Share
      <4> QED BY <4>1, <4>2
    <3> QED BY <3>2, <3>3
  <2> QED BY <2>2, <2>3
<1>7. \A u \in Waiting(Receivers)' : pc'[u].at = "receiving" /\ ~Satisfied(pc'[u].arg, set')
  <2> SUFFICES ASSUME NEW u \in Waiting(Receivers)'
               PROVE  pc'[u].at = "receiving" /\ ~Satisfied(pc'[u].arg, set')
    OBVIOUS
  <2>1. PICK j \in 1 .. n : u = list[j]
    BY <1>2, <1>4 DEF Sent
  <2>2. ~Gets(w, j) /\ pc'[u] = pc[u]
    BY <1>1, <1>2, <1>3, <2>1 DEF Sent
  <2>3. set' \subseteq w[j - 1].set
    BY <1>1, <1>2 DEF Sent
  <2>4. ~Satisfied(pc[u].arg, w[j - 1].set)
    BY <1>3, <2>1, <2>2 DEF Gets
  <2> QED BY <1>5, <2>1, <2>2, <2>3, <2>4, SatisfiedBy
<1>8. set' \subseteq Bit /\ \A u \in Thread : pc'[u].at = pc[u].at
  BY <1>2 DEF Sent
<1> QED BY <1>2, <1>6, <1>7, <1>8 DEF EventInv

LEMMA EventSendTakes ==
    ASSUME EventInv, NEW events \in SUBSET Bit, EventSend(events)
    PROVE  EventsTaken
<1>1. PICK n \in Nat : n = Len(suspended[Receivers])
  BY EventListFacts, LenProperties DEF EventInv
<1>2. PICK w : Sent(w) /\ WaitInv' /\ \A i \in 0 .. n : WalkOK(w, i)
  BY <1>1, EventSendSays
<1>3. PICK list : list = suspended[Receivers]
  OBVIOUS
<1>4. /\ DOMAIN list = 1 .. n
      /\ \A j \in 1 .. n : list[j] \in Thread /\ list[j] \in Waiting(Receivers)
  BY <1>1, <1>3, EventListFacts, LenProperties DEF EventInv
<1>5. \A j \in 1 .. n : /\ pc[list[j]].arg \in Wants /\ pc[list[j]].arg.event_set # {}
                        /\ error'[list[j]] = "ok"
  BY <1>4 DEF EventInv, EventPcOK, EventSend, WaitInv, WaitOK
<1>6. \A j \in 1 .. n : list[j] \in ToSet(suspended'[Receivers]) <=> ~Gets(w, j)
  BY <1>1, <1>2, <1>3 DEF Sent, Waiting
<1>7. PICK resumed : resumed = {j \in 1 .. n : Gets(w, j)}
  OBVIOUS
<1>8. \A j \in resumed : pc'[list[j]].arg.event_set = Share(w, j)
  BY <1>1, <1>2, <1>3, <1>7 DEF Sent
<1>9. \A i \in 1 .. n : \A j \in resumed : i < j => Share(w, j) \subseteq w[i].set
  <2> SUFFICES ASSUME NEW i \in 1 .. n, NEW j \in resumed, i < j
               PROVE  Share(w, j) \subseteq w[i].set
    OBVIOUS
  <2>1. j \in 1 .. n /\ Gets(w, j) /\ j - 1 \in 0 .. n /\ i \in 0 .. j - 1
    BY <1>7
  <2>2. w[j - 1].set \subseteq w[i].set
    BY <1>2, <2>1 DEF WalkOK, WalkSets
  <2>3. Share(w, j) \subseteq w[j - 1].set
    BY <1>3, <1>5, <2>1, SatisfiedBy DEF Gets, Share
  <2> QED BY <2>2, <2>3
<1>10. ASSUME NEW i \in 1 .. n
       PROVE  /\ i \in resumed =>
                    /\ Share(w, i) # {} /\ Share(w, i) \subseteq pc[list[i]].arg.event_set
                    /\ pc[list[i]].arg.event_info.all =>
                          Share(w, i) = pc[list[i]].arg.event_set
                    /\ pc[list[i]].arg.event_info.clear => Share(w, i) \cap w[i].set = {}
              /\ i \notin resumed => ~Satisfied(pc[list[i]].arg, w[i].set)
              /\ set' \subseteq w[i].set
  <2>1. set' \subseteq w[i].set
    BY <1>1, <1>2 DEF Sent
  <2>2. WalkSets(w, i) /\ i - 1 \in 0 .. i
    BY <1>2 DEF WalkOK
  <2>3. ASSUME i \notin resumed PROVE ~Satisfied(pc[list[i]].arg, w[i].set)
    <3>1. ~Satisfied(pc[list[i]].arg, w[i - 1].set)
      BY <1>3, <1>7, <2>3 DEF Gets
    <3>2. w[i].set \subseteq w[i - 1].set
      BY <2>2 DEF WalkSets
    <3> QED BY <1>5, <3>1, <3>2, SatisfiedBy
  <2>4. ASSUME i \in resumed
        PROVE  /\ Share(w, i) # {} /\ Share(w, i) \subseteq pc[list[i]].arg.event_set
               /\ pc[list[i]].arg.event_info.all => Share(w, i) = pc[list[i]].arg.event_set
    BY <1>3, <1>5, <1>7, <2>4, SatisfiedBy DEF Gets, Share
  <2>5. ASSUME i \in resumed, pc[list[i]].arg.event_info.clear
        PROVE  Share(w, i) \cap w[i].set = {}
    <3>1. Gets(w, i) /\ i \in 1 .. i
      BY <1>7, <2>5
    <3> QED BY <1>3, <2>2, <2>5, <3>1 DEF WalkSets
  <2> QED BY <2>1, <2>3, <2>4, <2>5
<1>11. resumed = {j \in 1 .. n :
                    list[j] \notin ToSet(suspended'[Receivers]) /\ error'[list[j]] = "ok"}
  BY <1>5, <1>6, <1>7
<1>12. ASSUME NEW i \in 1 .. n, NEW remains,
              remains = set' \cup UNION {pc'[list[j]].arg.event_set : j \in {j \in resumed : i < j}}
       PROVE  remains \subseteq w[i].set
  <2>1. \A j \in resumed : i < j => pc'[list[j]].arg.event_set \subseteq w[i].set
    BY <1>8, <1>9
  <2> QED BY <1>10, <1>12, <2>1
<1>13. ASSUME NEW i \in 1 .. n, NEW remains, remains \subseteq w[i].set
       PROVE  /\ i \in resumed =>
                    /\ pc'[list[i]].arg.event_set # {}
                    /\ pc'[list[i]].arg.event_set \subseteq pc[list[i]].arg.event_set
                    /\ pc[list[i]].arg.event_info.all =>
                          pc'[list[i]].arg.event_set = pc[list[i]].arg.event_set
                    /\ pc[list[i]].arg.event_info.clear =>
                          pc'[list[i]].arg.event_set \cap remains = {}
              /\ list[i] \in ToSet(suspended'[Receivers]) =>
                    ~Satisfied(pc[list[i]].arg, remains)
  <2>1. i \in resumed => pc'[list[i]].arg.event_set = Share(w, i)
    BY <1>8
  <2>2. list[i] \in ToSet(suspended'[Receivers]) => i \notin resumed
    BY <1>6, <1>7
  <2>3. i \notin resumed => ~Satisfied(pc[list[i]].arg, remains)
    BY <1>5, <1>10, <1>13, SatisfiedBy
  <2> QED BY <1>10, <1>13, <2>1, <2>2, <2>3
<1>14. resumed = {j \in DOMAIN list : /\ ~(list[j] \in ToSet(suspended'[Receivers]))
                                    /\ error'[list[j]] = "ok"}
  BY <1>4, <1>11
<1> DEFINE Remains(i) == set' \cup UNION {pc'[list[j]].arg.event_set :
                                              j \in {j \in resumed : i < j}}
<1>15. \A i \in 1 .. n : Remains(i) \subseteq w[i].set
  BY <1>12
<1> HIDE DEF Remains
<1>16. \A i \in 1 .. n :
              /\ i \in resumed =>
                    /\ pc'[list[i]].arg.event_set # {}
                    /\ pc'[list[i]].arg.event_set \subseteq pc[list[i]].arg.event_set
                    /\ pc[list[i]].arg.event_info.all =>
                          pc'[list[i]].arg.event_set = pc[list[i]].arg.event_set
                    /\ pc[list[i]].arg.event_info.clear =>
                          pc'[list[i]].arg.event_set \cap Remains(i) = {}
              /\ list[i] \in ToSet(suspended'[Receivers]) =>
                    ~Satisfied(pc[list[i]].arg, Remains(i))
  BY <1>13, <1>15
<1> DEFINE Woke == {i \in DOMAIN suspended[Receivers] :
                      /\ ~(suspended[Receivers][i] \in ToSet(suspended'[Receivers]))
                      /\ error'[suspended[Receivers][i]] = "ok"}
           LeftOver(i) == set' \cup UNION {pc'[suspended[Receivers][j]].arg.event_set :
                                           j \in {j \in Woke : i < j}}
<1>17. Woke = resumed
  BY <1>3, <1>14
<1> HIDE DEF Woke
<1>18. \A i \in 1 .. n : LeftOver(i) = Remains(i)
  BY <1>3, <1>17 DEF Remains
<1> HIDE DEF LeftOver
<1>19. \A i \in DOMAIN suspended[Receivers] :
              /\ i \in Woke =>
                    /\ pc'[suspended[Receivers][i]].arg.event_set # {}
                    /\ pc'[suspended[Receivers][i]].arg.event_set
                          \subseteq pc[suspended[Receivers][i]].arg.event_set
                    /\ pc[suspended[Receivers][i]].arg.event_info.all =>
                          pc'[suspended[Receivers][i]].arg.event_set =
                             pc[suspended[Receivers][i]].arg.event_set
                    /\ pc[suspended[Receivers][i]].arg.event_info.clear =>
                          pc'[suspended[Receivers][i]].arg.event_set \cap LeftOver(i) = {}
              /\ suspended[Receivers][i] \in ToSet(suspended'[Receivers]) =>
                    ~Satisfied(pc[suspended[Receivers][i]].arg, LeftOver(i))
  BY <1>3, <1>4, <1>16, <1>17, <1>18
<1> QED BY <1>19, Zenon DEF EventsTaken, Woke, LeftOver

-----------------------------------------------------------------------------
(* The steps of an event set.                                                *)

\* A step that adds no event, and wakes nobody but with an error.
LEMMA EventQuietTakes ==
    ASSUME EventInv, set' \subseteq set,
           \A u \in Waiting(Receivers) : u \in Waiting(Receivers)' \/ error'[u] # "ok"
    PROVE  EventsTaken
<1>1. PICK n \in Nat : n = Len(suspended[Receivers])
  BY EventListFacts, LenProperties DEF EventInv
<1>2. DOMAIN suspended[Receivers] = 1 .. n
  BY <1>1, EventListFacts, LenProperties DEF EventInv
<1>3. \A j \in 1 .. n : /\ suspended[Receivers][j] \in Waiting(Receivers)
                        /\ suspended[Receivers][j] \in Thread
  BY <1>1, EventListFacts DEF EventInv
<1> DEFINE Woke == {i \in DOMAIN suspended[Receivers] :
                      /\ ~(suspended[Receivers][i] \in ToSet(suspended'[Receivers]))
                      /\ error'[suspended[Receivers][i]] = "ok"}
           LeftOver(i) == set' \cup UNION {pc'[suspended[Receivers][j]].arg.event_set :
                                           j \in {j \in Woke : i < j}}
<1>4. Woke = {}
  BY <1>2, <1>3 DEF Waiting
<1> HIDE DEF Woke
<1>5. \A i \in 1 .. n : LeftOver(i) = set'
  BY <1>4
<1> HIDE DEF LeftOver
<1>6. \A i \in 1 .. n : ~Satisfied(pc[suspended[Receivers][i]].arg, set')
  <2> SUFFICES ASSUME NEW i \in 1 .. n
               PROVE  ~Satisfied(pc[suspended[Receivers][i]].arg, set')
    OBVIOUS
  <2>1. /\ ~Satisfied(pc[suspended[Receivers][i]].arg, set)
        /\ pc[suspended[Receivers][i]].arg \in Wants
    BY <1>3 DEF EventInv, EventPcOK
  <2> QED BY <2>1, SatisfiedBy
<1>7. \A i \in DOMAIN suspended[Receivers] :
              /\ i \in Woke =>
                    /\ pc'[suspended[Receivers][i]].arg.event_set # {}
                    /\ pc'[suspended[Receivers][i]].arg.event_set
                          \subseteq pc[suspended[Receivers][i]].arg.event_set
                    /\ pc[suspended[Receivers][i]].arg.event_info.all =>
                          pc'[suspended[Receivers][i]].arg.event_set =
                             pc[suspended[Receivers][i]].arg.event_set
                    /\ pc[suspended[Receivers][i]].arg.event_info.clear =>
                          pc'[suspended[Receivers][i]].arg.event_set \cap LeftOver(i) = {}
              /\ suspended[Receivers][i] \in ToSet(suspended'[Receivers]) =>
                    ~Satisfied(pc[suspended[Receivers][i]].arg, LeftOver(i))
  BY <1>2, <1>4, <1>5, <1>6
<1> QED BY <1>7, Zenon DEF EventsTaken, Woke, LeftOver

LEMMA EventQuietKeeps ==
    ASSUME EventInv, WaitInv', set' \subseteq set,
           Waiting(Receivers)' \subseteq Waiting(Receivers),
           \A u \in Thread : pc'[u].at = "receiving" =>
                                pc[u].at = "receiving" /\ pc'[u].arg = pc[u].arg,
           \A u \in Waiting(Receivers)' : pc'[u].at = pc[u].at
    PROVE  EventInv'
<1>1. EventPcOK'
  BY DEF EventInv, EventPcOK
<1>2. \A u \in Waiting(Receivers)' : pc'[u].at = "receiving" /\ ~Satisfied(pc'[u].arg, set')
  <2> SUFFICES ASSUME NEW u \in Waiting(Receivers)'
               PROVE  pc'[u].at = "receiving" /\ ~Satisfied(pc'[u].arg, set')
    OBVIOUS
  <2>1. u \in Waiting(Receivers) /\ u \in Thread
    BY EventListFacts DEF EventInv
  <2>2. pc[u].at = "receiving" /\ ~Satisfied(pc[u].arg, set) /\ pc[u].arg \in Wants
    BY <2>1 DEF EventInv, EventPcOK
  <2>3. pc'[u].at = "receiving" /\ pc'[u].arg = pc[u].arg
    BY <2>1, <2>2
  <2> QED BY <2>2, <2>3, SatisfiedBy
<1>3. set' \subseteq Bit
  BY DEF EventInv
<1> QED BY <1>1, <1>2, <1>3 DEF EventInv

LEMMA EventQuietStep ==
    ASSUME EventInv, WaitInv', Quiet, set' \subseteq set
    PROVE  EventInv'
<1>1. "receiving" \in CallSteps /\ Receivers \in List
  BY TwoLists DEF CallSteps, ReceiverSteps
<1>2. Waiting(Receivers)' \subseteq Waiting(Receivers)
  BY <1>1 DEF Quiet
<1>3. \A u \in Thread : pc'[u].at = "receiving" =>
                                pc[u].at = "receiving" /\ pc'[u].arg = pc[u].arg
  BY <1>1 DEF Quiet
<1>4. \A u \in Waiting(Receivers)' : pc'[u].at = pc[u].at
  <2> SUFFICES ASSUME NEW u \in Waiting(Receivers)' PROVE pc'[u].at = pc[u].at
    OBVIOUS
  <2>1. u \in Thread /\ pc[u].at = "receiving"
    BY <1>2, EventListFacts DEF EventInv
  <2> QED BY <1>1, <2>1 DEF Quiet
<1> QED BY <1>2, <1>3, <1>4, EventQuietKeeps

LEMMA EventStutters ==
    ASSUME EventInv, UNCHANGED ipcVars, set' \subseteq set
    PROVE  EventInv' /\ EventsTaken /\ UNCHANGED <<pc, object>>
<1>1. UNCHANGED <<suspended, error, timed, pc, object>>
  BY DEF ipcVars, waitVars
<1>2. WaitInv' /\ Waiting(Receivers)' = Waiting(Receivers)
  BY <1>1 DEF EventInv, WaitInv, ListsOK, PcOK, WaitOK, Waiting
<1>3. EventInv'
  BY <1>1, <1>2, EventQuietKeeps
<1>4. EventsTaken
  BY <1>2, EventQuietTakes
<1> QED BY <1>1, <1>3, <1>4

\* Detaching an event set: whoever is woken has an error.
LEMMA EventRemoved ==
    ASSUME EventInv, NEW t \in Thread, Removed(t), UNCHANGED set
    PROVE  EventInv' /\ EventsTaken
<1>1. WaitInv' /\ Quiet
  BY RemovedQuiet DEF EventInv
<1>2. EventInv'
  BY <1>1, EventQuietStep
<1>3. \A u \in Waiting(Receivers) : u \in Waiting(Receivers)' \/ error'[u] # "ok"
  <2>1. CASE DetachResume(t)
    <3>1. PICK l \in List : \E h \in Waiting(l) : Leaves(h, l) /\ error'[h] = "error"
      BY <2>1, DetachResumes DEF EventInv
    <3>2. CASE l = Receivers
      BY <3>1, <3>2 DEF Leaves
    <3>3. CASE l # Receivers
      BY <3>1, <3>3, TwoLists DEF Leaves, Waiting
    <3> QED BY <3>2, <3>3
  <2>2. CASE ~DetachResume(t)
    <3>1. UNCHANGED suspended
      BY <2>2 DEF Removed, Detach, DetachTest, DetachEnds
    <3> QED BY <3>1 DEF Waiting
  <2> QED BY <2>1, <2>2
<1> QED BY <1>2, <1>3, EventQuietTakes

LEMMA EventStep ==
    ASSUME EventInv, EventNext
    PROVE  EventInv' /\ EventsTaken
<1>1. WaitInv /\ "receiving" \in WaitSteps /\ Receivers \in List
  BY TwoLists DEF EventInv, WaitSteps, ReceiverSteps
<1>2. CASE EventReset
  <2>1. ListResumeAll /\ set' = {} /\ UNCHANGED <<pc, object>>
    BY <1>2 DEF EventReset
  <2>2. WaitInv' /\ Quiet
    BY <1>1, <2>1, ResumeAllQuiet
  <2>3. \A u \in Waiting(Receivers) : error'[u] # "ok"
    BY <2>1, WaitersAre, EventListFacts DEF ListResumeAll, EventInv
  <2> QED BY <2>1, <2>2, <2>3, EventQuietStep, EventQuietTakes
<1>3. ASSUME NEW events \in (SUBSET Bit) \ {{}}, EventSend(events)
      PROVE  EventInv' /\ EventsTaken
  BY <1>3, EventSendKeeps, EventSendTakes
<1>4. ASSUME NEW want \in Interest, EventRecv(want) PROVE EventInv' /\ EventsTaken
  <2>1. UNCHANGED ipcVars /\ set' \subseteq set
    BY <1>4 DEF EventRecv
  <2> QED BY <2>1, EventStutters
<1>5. ASSUME NEW t \in Thread, NEW want \in Interest, EventRecvWaits(t, want)
      PROVE  EventInv' /\ EventsTaken
  <2>1. PICK timeout \in Timeouts :
           Wait(t, Receivers, ListSuspend(t, Receivers), "receiving", want, timeout)
    BY <1>5 DEF EventRecvWaits, Blocks, Timeouts
  <2>2. /\ t \notin Waiters /\ pc[t].at = "run" /\ ~Satisfied(want, set)
        /\ UNCHANGED <<object, set>>
    BY <1>5 DEF EventRecvWaits, Blocks, May, At
  <2>3. want \in Wants /\ want.event_set # {} /\ want \in Args
    BY EventAssumption DEF Wants, Args
  <2>4. PICK l \in List : l = Receivers
    BY TwoLists
  <2>5. PICK step \in StepsAt(l) : step = "receiving"
    BY <2>4 DEF StepsAt, ReceiverSteps
  <2>6. PICK list : list = ListSuspend(t, l)
    OBVIOUS
  <2>7. Joins(t, l, step, want)
    <3>1. /\ list \in {ListSuspend(t, l), Enqueue(suspended[l], t)}
          /\ Wait(t, l, list, step, want, timeout)
          /\ (pc[t].at \in WaitSteps => pc[t].at = step)
      BY <2>1, <2>2, <2>4, <2>5, <2>6 DEF WaitSteps, ReceiverSteps, SenderSteps
    <3> QED BY ONLY <1>1, <2>2, <2>3, <3>1, t \in Thread, l \in List, step \in StepsAt(l),
                    timeout \in Timeouts, WaitJoins
  <2>8. /\ WaitInv' /\ Waiting(Receivers)' = Waiting(Receivers) \cup {t}
        /\ pc'[t].at = "receiving" /\ pc'[t].arg = want
        /\ \A u \in Thread \ {t} : pc'[u] = pc[u]
    BY <2>4, <2>5, <2>7 DEF Joins
  <2>9. EventPcOK'
    BY <2>3, <2>8 DEF EventInv, EventPcOK
  <2>10. EventInv'
    BY <2>2, <2>8, <2>9, EventListFacts DEF EventInv
  <2> QED BY <2>2, <2>8, <2>10, EventQuietTakes
<1>6. ASSUME NEW t \in Thread, EventRecvReturns(t) \/ EventRecvFails(t)
      PROVE  EventInv' /\ EventsTaken
  <2>1. /\ t \notin Waiters /\ UNCHANGED <<suspended, timed, object, set>>
        /\ error' = [error EXCEPT ![t] = "ok"]
        /\ pc' = [pc EXCEPT ![t] = [at |-> "run", timeout |-> "none", arg |-> Nothing]]
    BY <1>6 DEF EventRecvReturns, EventRecvFails, Fails, Woken, At, Return, Running
  <2>2. Goes(t) /\ pc'[t].at = "run"
    BY <1>1, <2>1, CallGoes, TwoLists
  <2>3. /\ WaitInv' /\ Waiting(Receivers)' = Waiting(Receivers)
        /\ \A u \in Thread \ {t} : pc'[u] = pc[u]
    BY <2>2, TwoLists DEF Goes
  <2>4. t \notin Waiting(Receivers)
    BY <2>1, WaitersAre
  <2>5. EventInv'
    BY <2>1, <2>2, <2>3, <2>4, EventQuietKeeps, EventListFacts DEF EventInv
  <2> QED BY <2>1, <2>3, <2>5, EventQuietTakes
<1>7. ASSUME NEW t \in Thread, Timeout(t), UNCHANGED set PROVE EventInv' /\ EventsTaken
  <2>1. /\ WaitInv' /\ Quiet /\ Waiters' = Waiters \ {t} /\ error'[t] = "timeout"
    BY <1>1, <1>7, TimeoutQuiet
  <2>2. PICK l \in List : Leaves(t, l)
    BY <1>1, <1>7, UnlinkLeaves DEF Timeout
  <2>3. \A u \in Waiting(Receivers) : u \in Waiting(Receivers)' \/ u = t
    <3>1. CASE l = Receivers
      BY <2>2, <3>1 DEF Leaves
    <3>2. CASE l # Receivers
      BY <2>2, <3>2, TwoLists DEF Leaves, Waiting
    <3> QED BY <3>1, <3>2
  <2> QED BY <1>7, <2>1, <2>3, EventQuietStep, EventQuietTakes
<1>8. ASSUME NEW t \in Thread, Removed(t), UNCHANGED set PROVE EventInv' /\ EventsTaken
  BY <1>8, EventRemoved
<1> QED BY <1>2, <1>3, <1>4, <1>5, <1>6, <1>7, <1>8 DEF EventNext

LEMMA EventStarts == IpcInit /\ EventInit => EventInv
<1> SUFFICES ASSUME IpcInit, EventInit PROVE EventInv
  OBVIOUS
<1>1. WaitInv
  BY WaitStarts
<1>2. Waiting(Receivers) = {}
  BY <1>1, EmptyList, TwoLists DEF IpcInit
<1>3. EventPcOK
  BY DEF IpcInit, Running, EventPcOK
<1> QED BY <1>1, <1>2, <1>3 DEF EventInv, EventInit

LEMMA EventSays ==
    ASSUME EventInv
    PROVE  EventNoLostWakeup
BY EventListFacts, LenProperties DEF EventInv, EventNoLostWakeup

LEMMA EventDetachStep ==
    ASSUME EventInv, DetachInv, ~BusyDetach, EventNext
    PROVE  DetachInv'
<1>1. WaitInv
  BY DEF EventInv
<1>2. ASSUME object = "live", UNCHANGED object, \A u \in Thread : pc'[u].at = pc[u].at
      PROVE  DetachInv'
  BY <1>2, LiveKeeps
<1>3. CASE EventReset
  BY <1>2, <1>3 DEF EventReset
<1>4. ASSUME NEW events \in (SUBSET Bit) \ {{}}, EventSend(events) PROVE DetachInv'
  <2>1. object = "live" /\ UNCHANGED object
    BY <1>4 DEF EventSend
  <2> QED BY <1>2, <1>4, <2>1, EventSendKeeps
<1>5. ASSUME NEW want \in Interest, EventRecv(want) PROVE DetachInv'
  BY <1>2, <1>5 DEF EventRecv, ipcVars, waitVars
<1>6. ASSUME NEW t \in Thread, NEW want \in Interest, EventRecvWaits(t, want)
      PROVE  DetachInv'
  <2>1. object = "live" /\ UNCHANGED object
    BY <1>6 DEF EventRecvWaits, Blocks, May
  <2>2. \E step \in CallSteps \cup {"run"} : \E timeout, arg :
              pc' = [pc EXCEPT ![t] = [at |-> step, timeout |-> timeout, arg |-> arg]]
    BY <1>6 DEF EventRecvWaits, Blocks, Wait, CallSteps, ReceiverSteps
  <2> QED BY <1>1, <2>1, <2>2, CallKeeps
<1>7. ASSUME NEW t \in Thread, EventRecvReturns(t) \/ EventRecvFails(t) PROVE DetachInv'
  <2>1. /\ t \notin Waiters /\ ~Detacher(t) /\ Return(t)
        /\ UNCHANGED <<suspended, timed, object>>
    BY <1>7 DEF EventRecvReturns, EventRecvFails, Fails, Woken, At, Detacher
  <2> QED BY <1>1, <2>1, ReturnKeeps
<1>8. ASSUME NEW t \in Thread, Timeout(t) \/ Removed(t) PROVE DetachInv'
  BY <1>1, <1>8, TimeoutKeeps, RemovedKeeps
<1> QED BY <1>3, <1>4, <1>5, <1>6, <1>7, <1>8 DEF EventNext

-----------------------------------------------------------------------------
(* The message queue, the event set and the completion, as objects.          *)

OthersInv ==
    /\ kind = "mq" => MqInv
    /\ kind = "completion" => CompletionInv
    /\ kind = "event" => EventInv

LEMMA OthersStarts ==
    Init => OthersInv /\ (kind = "mq" => MessageQueueQueue!Init)
BY MqStarts, CompletionStarts, EventStarts DEF Init, OthersInv

LEMMA OthersStep ==
    ASSUME OthersInv, [Next]_vars
    PROVE  /\ OthersInv' /\ kind' = kind
           /\ kind = "mq" => MqQueueStep \/ UNCHANGED <<Messages, MqHeld>>
           /\ kind = "event" => EventsTaken
<1>1. CASE UNCHANGED vars
  <2>1. /\ kind' = kind /\ UNCHANGED <<ipcVars, mqVars>> /\ UNCHANGED <<ipcVars, flag>>
        /\ UNCHANGED ipcVars /\ set' \subseteq set
    BY <1>1 DEF vars
  <2> QED BY <2>1, MqStutters, CompletionStutters, EventStutters DEF OthersInv
<1>2. CASE Next
  <2>1. /\ kind' = kind
        /\ kind = "mq" => MqNext
        /\ kind = "completion" => CompletionNext
        /\ kind = "event" => EventNext
    BY <1>2 DEF Next
  <2> QED BY <2>1, MqStep, CompletionStep, EventStep DEF OthersInv
<1> QED BY <1>1, <1>2

LEMMA OthersInvariant == Spec => []OthersInv
<1>1. Init => OthersInv
  BY OthersStarts
<1>2. OthersInv /\ [Next]_vars => OthersInv'
  BY OthersStep
<1> QED BY <1>1, <1>2, PTL DEF Spec

\* However senders, receivers, timeouts, resets and a detach get between the two halves
\* of a call, every item of a message queue is on the free list, on the queue or with
\* one thread, once, and the lists end (rt_mq_send, rt_mq_urgent, rt_mq_recv).
THEOREM ItemsCorrect == Spec /\ kind = "mq" => []ItemsConserved
<1>1. kind = "mq" /\ [Next]_vars => (kind = "mq")'
  BY StepsOf, StutterKeeps
<1>2. OthersInv /\ kind = "mq" => ItemsConserved
  BY MqSays DEF OthersInv
<1> QED BY <1>1, <1>2, OthersInvariant, PTL DEF Spec

\* A message queue implements a bounded queue with urgent messages: what is received
\* was sent, whole, once, in the order of the queue (rt_mq_send, rt_mq_urgent,
\* rt_mq_recv, rt_mq_control).
THEOREM MessagesCorrect == Spec /\ kind = "mq" => MessagesAreQueue
<1>1. kind = "mq" /\ [Next]_vars => (kind = "mq")'
  BY StepsOf, StutterKeeps
<1>2. Init /\ kind = "mq" => MessageQueueQueue!Init
  BY OthersStarts
<1>3. OthersInv /\ kind = "mq" /\ [Next]_vars =>
          [MessageQueueQueue!NextUrgent]_<<Messages, MqHeld>>
  BY OthersStep DEF MqQueueStep
<1> QED BY <1>1, <1>2, <1>3, OthersInvariant, PTL
    DEF Spec, MessagesAreQueue, MessageQueueQueue!SpecUrgent

\* Events are cleared while rt_event_send walks its waiters: whatever the flags of the
\* waiters are, each that is resumed has received what it waits for, nobody behind it
\* receives what RT_EVENT_FLAG_CLEAR took, and nobody is passed over.
THEOREM EventsCorrect == Spec => EventsTakenOnce
<1>1. OthersInv /\ [Next]_vars => (kind = "event" => EventsTaken)
  BY OthersStep
<1>2. OthersInv /\ [Next]_vars => [kind = "event" => EventsTaken]_vars
  BY <1>1
<1> QED BY <1>2, OthersInvariant, PTL DEF Spec, EventsTakenOnce

-----------------------------------------------------------------------------
(* No wakeup is lost.                                                        *)

\* The kinds that it is true of whatever the bounds and the other threads are.
Unconditional == Proved \cup {"event", "mq", "completion"}

\* No thread sleeps while there is what it waits for at a semaphore, a memory pool, a
\* mailbox, an event set, a message queue or a completion that nobody has been woken to
\* get (rt_sem_release, rt_mp_free, rt_mb_send, rt_event_send, rt_mq_send,
\* rt_completion_done).
THEOREM MessageWakeupsCorrect == Spec /\ kind \in Unconditional => []NoLostWakeup
<1>1. kind \in Unconditional /\ [Next]_vars => (kind \in Unconditional)'
  BY StepsOf, StutterKeeps
<1>2. ObjectInv /\ OthersInv /\ kind \in Unconditional => NoLostWakeup
  <2> SUFFICES ASSUME ObjectInv, OthersInv, kind \in Unconditional PROVE NoLostWakeup
    OBVIOUS
  <2>1. CompletionInv => CompletionNoLostWakeup
    BY EmptyList, TwoLists DEF CompletionInv, CompletionNoLostWakeup
  <2>2. CASE kind = "sem"
    BY <2>2 DEF ObjectInv, SemInv, NoLostWakeup
  <2>3. CASE kind = "pool"
    BY <2>3 DEF ObjectInv, PoolInv, NoLostWakeup
  <2>4. CASE kind = "mb"
    BY <2>4 DEF ObjectInv, MbInv, NoLostWakeup
  <2>5. CASE kind = "event"
    BY <2>5, EventSays DEF OthersInv, NoLostWakeup
  <2>6. CASE kind = "mq"
    BY <2>6, MqSays DEF OthersInv, NoLostWakeup
  <2>7. CASE kind = "completion"
    BY <2>1, <2>7 DEF OthersInv, NoLostWakeup
  <2> QED BY <2>2, <2>3, <2>4, <2>5, <2>6, <2>7 DEF Unconditional, Proved
<1> QED BY <1>1, <1>2, ObjectInvariant, OthersInvariant, PTL DEF Spec

\* Of no object but a work queue a wakeup is lost, as long as no index of a data queue
\* has wrapped: nobody sleeps before a data queue that holds what it waits for, or that
\* has room, and nothing queued for a serial device stays there without a transfer that
\* runs or a writer about to start one, although a transfer may end, and others may
\* write, anywhere between the steps of _serial_dma_tx (rt_data_queue_push,
\* rt_data_queue_pop, RT_SERIAL_EVENT_TX_DMADONE).
THEOREM QueueWakeupsCorrect == Early => (Spec /\ kind # "work" => []NoLostWakeup)
<1> SUFFICES ASSUME Early PROVE Spec /\ kind # "work" => []NoLostWakeup
  OBVIOUS
<1> DEFINE Other == kind # "work" /\ kind \notin Unconditional
<1>1. Init => QueuesInv
  BY QueuesStart
<1>2. QueuesInv /\ [Next]_vars => QueuesInv'
  BY QueuesStep
<1>3. QueuesInv /\ Other => NoLostWakeup
  <2> SUFFICES ASSUME QueuesInv, Other PROVE NoLostWakeup
    OBVIOUS
  <2>1. CASE kind = "dq"
    BY <2>1, DqSays DEF QueuesInv, NoLostWakeup
  <2>2. CASE kind = "tx"
    BY <2>2, TxSays DEF QueuesInv, NoLostWakeup
  <2>3. CASE kind \notin {"dq", "tx"}
    BY <2>3 DEF NoLostWakeup, Unconditional, Proved
  <2> QED BY <2>1, <2>2, <2>3
<1>4. Other /\ [Next]_vars => Other'
  BY StepsOf, StutterKeeps
<1>5. Spec /\ Other => []NoLostWakeup
  <2> HIDE DEF Other
  <2> QED BY <1>1, <1>2, <1>3, <1>4, PTL DEF Spec
<1>6. Spec /\ kind \in Unconditional => []NoLostWakeup
  BY MessageWakeupsCorrect
<1>7. kind # "work" => Other \/ kind \in Unconditional
  OBVIOUS
<1> HIDE DEF Other
<1> QED BY <1>5, <1>6, <1>7, PTL

-----------------------------------------------------------------------------
(* Detaching.                                                                *)

\* The objects that nobody detaches.
Lasting == {"completion", "tx", "int_rx", "dma_rx", "work"}

LastingInv == object = "live" /\ DOMAIN pc = Thread /\ \A t \in Thread : ~Detacher(t)

LEMMA LastingStep ==
    ASSUME LastingInv, kind \in Lasting, [Next]_vars
    PROVE  LastingInv'
<1>1. ASSUME NEW t, NEW p, pc' = [pc EXCEPT ![t] = p], p.at \notin {"test", "resume"},
             UNCHANGED object
      PROVE  LastingInv'
  BY <1>1 DEF LastingInv, Detacher
<1>2. ASSUME UNCHANGED <<pc, object>> PROVE LastingInv'
  BY <1>2 DEF LastingInv, Detacher
<1>3. CASE UNCHANGED vars
  BY <1>2, <1>3 DEF vars, ipcVars, waitVars
<1>4. CASE kind = "completion" /\ CompletionNext
  <2>1. CASE CompletionWait
    BY <1>2, <2>1 DEF CompletionWait, ipcVars, waitVars
  <2>2. ASSUME NEW t \in Thread, Timeout(t) PROVE LastingInv'
    BY <1>2, <2>2 DEF Timeout
  <2>3. ASSUME NEW t \in Thread, CompletionWaits(t) \/ CompletionReturns(t) \/
               CompletionTest(t) \/ CompletionDone(t)
        PROVE  LastingInv'
    <3>1. UNCHANGED object
      BY <2>3 DEF CompletionWaits, CompletionReturns, CompletionTest, CompletionDone, Blocks
    <3>2. \E step \in {"awaiting", "run", "completing"} : \E timeout :
             pc' = [pc EXCEPT ![t] = [at |-> step, timeout |-> timeout, arg |-> Nothing]]
      BY <2>3 DEF CompletionWaits, CompletionReturns, CompletionTest, CompletionDone, Blocks,
                  Wait, Goto, Return, Running
    <3> QED BY <1>1, <3>1, <3>2
  <2> QED BY <1>4, <2>1, <2>2, <2>3 DEF CompletionNext
<1>5. CASE kind = "tx" /\ TxNext
  <2>1. CASE TxDone
    BY <1>2, <2>1 DEF TxDone
  <2>2. ASSUME NEW t \in Thread,
               \/ \E v \in Value : TxPush(t, v) \/ TxPushWaits(t, v)
               \/ TxPushWaitsAgain(t) \/ TxPushReturns(t) \/ TxActivate(t) \/ TxTransmit(t)
        PROVE  LastingInv'
    <3>1. UNCHANGED object
      BY <2>2 DEF TxPush, TxPushWaits, TxPushWaitsAgain, TxPushReturns, TxActivate, TxTransmit,
                  Blocks, DqPushWaitsAgain
    <3>2. \E step \in {"pushing", "run", "pushed", "starting"} : \E timeout, arg :
             pc' = [pc EXCEPT ![t] = [at |-> step, timeout |-> timeout, arg |-> arg]]
      BY <2>2 DEF TxPush, TxPushWaits, TxPushWaitsAgain, TxPushReturns, TxActivate, TxTransmit,
                  Blocks, DqPushWaitsAgain, Wait, Goto, Return, Running
    <3> QED BY <1>1, <3>1, <3>2
  <2> QED BY <1>5, <2>1, <2>2 DEF TxNext
<1>6. CASE kind = "work" /\ WorkNext
  <2>1. CASE WorkTest \/ WorkSleep \/ WorkTake \/ WorkDone \/ WorkCompletion
    <3>1. UNCHANGED object
      BY <2>1 DEF WorkTest, WorkSleep, WorkTake, WorkDone, WorkCompletion
    <3>2. \E step \in {"sleep", "take", "doing", "done", "run"} : \E timeout :
             pc' = [pc EXCEPT ![Worker] = [at |-> step, timeout |-> timeout, arg |-> Nothing]]
      BY <2>1 DEF WorkTest, WorkSleep, WorkTake, WorkDone, WorkCompletion, Wait, Goto, Return,
                  Running
    <3> QED BY <1>1, <3>1, <3>2
  <2>2. ASSUME NEW t \in Clients, NEW w \in Work, WorkCancel(t, w) PROVE LastingInv'
    BY <1>2, <2>2 DEF WorkCancel, ipcVars, waitVars
  <2>3. ASSUME NEW t \in Clients, NEW w \in Work, WorkSubmit(t, w), work_current # Nothing
        PROVE  LastingInv'
    BY <1>2, <2>3 DEF WorkSubmit
  <2>4. ASSUME NEW t \in Clients,
               \/ WorkResume(t) \/ WorkCancelReturns(t)
               \/ \E w \in Work : WorkSubmit(t, w) /\ work_current = Nothing
               \/ \E w \in Work : WorkCancelWaits(t, w)
        PROVE  LastingInv'
    <3>1. UNCHANGED object
      BY <2>4 DEF WorkResume, WorkCancelReturns, WorkSubmit, WorkCancelWaits, Blocks
    <3>2. \E step \in {"submitted", "cancelling", "run"} : \E timeout, arg :
             pc' = [pc EXCEPT ![t] = [at |-> step, timeout |-> timeout, arg |-> arg]]
      BY <2>4 DEF WorkResume, WorkCancelReturns, WorkSubmit, WorkCancelWaits, Blocks, Wait,
                  Goto, Return, Running
    <3> QED BY <1>1, <3>1, <3>2
  <2> QED BY <1>6, <2>1, <2>2, <2>3, <2>4 DEF WorkNext
<1>7. CASE kind \in {"int_rx", "dma_rx"} /\ UNCHANGED ipcVars
  BY <1>2, <1>7 DEF ipcVars, waitVars
<1> QED BY <1>3, <1>4, <1>5, <1>6, <1>7 DEF Next, Lasting

\* Detaching an object, and resetting a data queue, that no call is busy with wakes every
\* waiter of both lists with an error, and never looks for a waiter in an empty list,
\* whatever the object is (rt_ipc_list_resume_all, rt_mp_detach, rt_data_queue_reset).
THEOREM AllDetachCorrect == Early /\ ~BusyDetach => (Spec => []DetachWakesAll)
<1> SUFFICES ASSUME Early, ~BusyDetach PROVE Spec => []DetachWakesAll
  OBVIOUS
<1> DEFINE Detached == {"dq", "event", "mq"}
           Calm == DetachInv /\ (kind = "mq" => MqCalm)
           Queue == kind = "dq" => DqInv
<1>1. Init => LastingInv /\ Calm /\ Queue
  BY ObjectStarts, QueuesStart DEF Init, IpcInit, LastingInv, MqCalm, Running, Detacher, QueuesInv
<1>2. Queue /\ [Next]_vars => Queue'
  <2> SUFFICES ASSUME Queue, [Next]_vars, kind' = "dq" PROVE DqInv'
    OBVIOUS
  <2>1. kind = "dq" /\ DqInv
    BY StepsOf, StutterKeeps
  <2>2. CASE Next
    <3>1. DqNext
      BY <2>1, <2>2 DEF Next
    <3> QED BY <2>1, <3>1, DqStepKeeps
  <2>3. CASE UNCHANGED vars
    BY <2>1, <2>3, DqStutters DEF vars
  <2> QED BY <2>2, <2>3
<1>3. OthersInv /\ Queue /\ kind \in Detached /\ Calm /\ [Next]_vars => Calm'
  <2> SUFFICES ASSUME OthersInv, Queue, kind \in Detached, Calm, [Next]_vars PROVE Calm'
    OBVIOUS
  <2>1. kind' = kind
    BY StepsOf, StutterKeeps
  <2>2. CASE UNCHANGED vars
    BY <2>1, <2>2, StutterKeeps DEF vars, ipcVars, waitVars, MqCalm
  <2>3. CASE Next /\ kind = "mq"
    <3>1. MqNext
      BY <2>3 DEF Next
    <3> QED BY <2>1, <2>3, <3>1, MqDetachStep DEF OthersInv
  <2>4. CASE Next /\ kind = "event"
    <3>1. EventNext
      BY <2>4 DEF Next
    <3> QED BY <2>1, <2>4, <3>1, EventDetachStep DEF OthersInv
  <2>5. CASE Next /\ kind = "dq"
    <3>1. DqNext
      BY <2>5 DEF Next
    <3> QED BY <2>1, <2>5, <3>1, DqDetachStep
  <2> QED BY <2>2, <2>3, <2>4, <2>5
<1>4. OthersInv /\ Queue /\ kind \in Detached /\ Calm => DetachWakesAll
  BY DetachInvSays DEF OthersInv, MqInv, EventInv, DqInv
<1>5. LastingInv => DetachWakesAll
  BY DEF LastingInv, DetachWakesAll, Detacher
<1>6. /\ kind \in Detached /\ [Next]_vars => (kind \in Detached)'
      /\ kind \in Lasting /\ [Next]_vars => (kind \in Lasting)'
  BY StepsOf, StutterKeeps
<1>7. Init => kind \in Proved \/ kind \in Detached \/ kind \in Lasting
  BY KindAssumption DEF Init, Proved, Lasting
<1> HIDE DEF Detached, Calm, Queue
<1>8. Spec /\ kind \in Detached => []DetachWakesAll
  BY <1>1, <1>2, <1>3, <1>4, <1>6, OthersInvariant, PTL DEF Spec
<1>9. Spec /\ kind \in Lasting => []DetachWakesAll
  BY <1>1, <1>5, <1>6, LastingStep, PTL DEF Spec
<1> QED BY <1>7, <1>8, <1>9, DetachCorrect, PTL DEF Spec

-----------------------------------------------------------------------------
(* The types of the variables, whatever has wrapped and whoever races.       *)

LEMMA WaitTypes ==
    ASSUME WaitInv
    PROVE  IpcTypeOK
<1>1. timed \subseteq Waiters
  BY WaitersAre DEF WaitInv, WaitOK
<1>2. \A t \in Thread : pc[t].timeout \in {"none", "ticks", "forever"}
  BY DEF WaitInv, PcOK, Timeouts
<1> QED BY <1>1, <1>2 DEF WaitInv, ListsOK, PcOK, IpcTypeOK

\* What a thread pushes, or has popped, and the ring of a data queue.
CarriesOK ==
    \A t \in Thread : pc[t].at \in {"pushing", "pushed", "starting"} => pc[t].arg \in Value

CarryInv ==
    /\ WaitInv /\ CarriesOK
    /\ DqTypeOK /\ activated \in BOOLEAN /\ dma \in Value \cup {Nothing}

LEMMA DqTypeFacts ==
    ASSUME DqTypeOK
    PROVE  /\ (put_index + 1) % IndexRange \in 0 .. IndexRange - 1
           /\ (get_index + 1) % IndexRange \in 0 .. IndexRange - 1
           /\ \A i \in Int : ring[i % DqSize] \in Value \cup {Nothing}
           /\ put_index % DqSize \in 0 .. DqSize - 1
<1>1. PICK n \in Nat, m \in Nat : n = IndexRange /\ n > 0 /\ m = DqSize /\ m > 0
  BY DqAssumption
<1>2. \A x \in Int : x % n \in 0 .. n - 1 /\ x % m \in 0 .. m - 1
  BY ONLY <1>1, n \in Nat, m \in Nat
<1>3. put_index \in Int /\ get_index \in Int /\ put_index + 1 \in Int /\ get_index + 1 \in Int
  BY <1>1 DEF DqTypeOK
<1>4. ring \in [0 .. m - 1 -> Value \cup {Nothing}]
  BY <1>1 DEF DqTypeOK
<1> QED BY <1>1, <1>2, <1>3, <1>4

LEMMA DqStoreTypes ==
    ASSUME DqTypeOK, NEW v \in Value, DqStore(v)
    PROVE  DqTypeOK'
<1>1. /\ ring' = [ring EXCEPT ![put_index % DqSize] = v]
      /\ put_index' = (put_index + 1) % IndexRange /\ get_index' = get_index
  BY DEF DqStore
<1>2. ring' \in [0 .. DqSize - 1 -> Value \cup {Nothing}]
  BY <1>1 DEF DqTypeOK
<1> QED BY <1>1, <1>2, DqTypeFacts DEF DqTypeOK

LEMMA DqTakeTypes ==
    ASSUME DqTypeOK, get_index' \in {get_index, (get_index + 1) % IndexRange},
           UNCHANGED <<ring, put_index>>
    PROVE  DqTypeOK'
BY DqTypeFacts DEF DqTypeOK

\* A step of a call: what it leaves in the hands of its thread is what it pushes.
LEMMA CarriesKeep ==
    ASSUME CarriesOK, NEW t, \A u \in Thread \ {t} : pc'[u] = pc[u],
           t \in Thread /\ pc'[t].at \in {"pushing", "pushed", "starting"} => pc'[t].arg \in Value
    PROVE  CarriesOK'
BY DEF CarriesOK

LEMMA CarryWaits ==
    ASSUME CarryInv, NEW t \in Thread, t \notin Waiters, NEW l \in List,
           pc[t].at \in {"run", DqStep(l)}, NEW arg \in Args, l = Senders => arg \in Value,
           NEW timeout \in Timeouts,
           Wait(t, l, Enqueue(suspended[l], t), DqStep(l), arg, timeout), UNCHANGED object
    PROVE  WaitInv' /\ CarriesOK'
<1>1. DqStep(l) \in StepsAt(l) /\ (pc[t].at \in WaitSteps => pc[t].at = DqStep(l))
  BY TwoLists DEF WaitSteps, ReceiverSteps, SenderSteps
<1>2. PICK step \in StepsAt(l) : step = DqStep(l)
  BY <1>1
<1>3. PICK list : list = Enqueue(suspended[l], t)
  OBVIOUS
<1>4. Joins(t, l, step, arg)
  <2>1. /\ Wait(t, l, list, step, arg, timeout)
        /\ list \in {ListSuspend(t, l), Enqueue(suspended[l], t)}
    BY <1>2, <1>3
  <2>2. WaitInv /\ (pc[t].at \in WaitSteps => pc[t].at = step)
    BY <1>1, <1>2 DEF CarryInv
  <2> QED BY ONLY <2>1, <2>2, t \in Thread, t \notin Waiters, l \in List, step \in StepsAt(l),
                  arg \in Args, timeout \in Timeouts, UNCHANGED object, WaitJoins
<1>5. /\ WaitInv' /\ pc'[t].at = DqStep(l) /\ pc'[t].arg = arg
      /\ \A u \in Thread \ {t} : pc'[u] = pc[u]
  BY <1>2, <1>4 DEF Joins
<1>6. pc'[t].at \in {"pushing", "pushed", "starting"} => pc'[t].arg \in Value
  BY <1>5, TwoLists
<1> QED BY <1>5, <1>6, CarriesKeep DEF CarryInv

LEMMA CarryGoes ==
    ASSUME CarryInv, NEW t \in Thread, t \notin Waiters, NEW step \in BusySteps \cup {"run"},
           NEW arg \in Args, step \in {"pushed", "starting"} => arg \in Value, UNCHANGED object,
           error' = [error EXCEPT ![t] = "ok"],
           pc' = [pc EXCEPT ![t] = [at |-> step, timeout |-> "none", arg |-> arg]],
           UNCHANGED <<suspended, timed>> \/ \E l \in List : ResumeIfAny(l)
    PROVE  WaitInv' /\ CarriesOK'
<1>1. /\ WaitInv' /\ pc'[t].at = step /\ pc'[t].arg = arg
      /\ \A u \in Thread \ {t} : pc'[u] = pc[u]
  <2>1. CASE UNCHANGED <<suspended, timed>>
    <3>1. Goes(t) /\ pc'[t].at = step /\ pc'[t].arg = arg
      BY <2>1, CallGoes DEF CarryInv
    <3> QED BY <3>1 DEF Goes
  <2>2. ASSUME NEW l \in List, ResumeIfAny(l)
        PROVE  /\ WaitInv' /\ pc'[t].at = step /\ pc'[t].arg = arg
               /\ \A u \in Thread \ {t} : pc'[u] = pc[u]
    <3>1. Wakes(t, l) /\ pc'[t].at = step /\ pc'[t].arg = arg
      BY <2>2, CallWakes DEF CarryInv
    <3> QED BY <3>1 DEF Wakes
  <2> QED BY <2>1, <2>2
<1>2. step # "pushing"
  BY DEF BusySteps
<1> QED BY <1>1, <1>2, CarriesKeep DEF CarryInv

LEMMA CarryHandler ==
    ASSUME CarryInv, UNCHANGED <<error, pc, object>>,
           UNCHANGED <<suspended, timed>> \/ \E l \in List : ResumeIfAny(l)
    PROVE  WaitInv' /\ CarriesOK'
<1>1. CarriesOK'
  BY DEF CarryInv, CarriesOK
<1>2. CASE UNCHANGED <<suspended, timed>>
  BY <1>1, <1>2, HandlerGoes DEF Goes, CarryInv
<1>3. CASE \E l \in List : ResumeIfAny(l)
  BY <1>1, <1>3, HandlerWakes DEF Wakes, CarryInv
<1> QED BY <1>2, <1>3

LEMMA CarryQuiet ==
    ASSUME CarryInv, WaitInv', Quiet
    PROVE  WaitInv' /\ CarriesOK'
<1>1. {"pushing", "pushed", "starting"} \subseteq CallSteps
  BY DEF CallSteps, SenderSteps, BusySteps
<1> QED BY <1>1 DEF CarryInv, CarriesOK, Quiet

LEMMA CarryMakes ==
    ASSUME WaitInv' /\ CarriesOK', DqTypeOK', activated' \in BOOLEAN,
           dma' \in Value \cup {Nothing}
    PROVE  CarryInv'
BY DEF CarryInv

LEMMA DqSameTypes ==
    ASSUME DqTypeOK, UNCHANGED dqVars
    PROVE  DqTypeOK'
BY DEF DqTypeOK, dqVars

LEMMA DqTypesStep ==
    ASSUME CarryInv, UNCHANGED txVars, DqNext
    PROVE  CarryInv'
<1>0. DqTypeOK /\ WaitInv /\ CarriesOK
  BY DEF CarryInv
<1>1. ASSUME WaitInv' /\ CarriesOK', DqTypeOK' PROVE CarryInv'
  BY <1>1 DEF CarryInv, txVars
<1>2. ASSUME NEW v \in Value, DqPush(v) PROVE CarryInv'
  <2>1. DqStore(v) /\ ResumeIfAny(Receivers) /\ UNCHANGED <<error, pc, object>>
    BY <1>2 DEF DqPush, DqStore
  <2>2. WaitInv' /\ CarriesOK'
    BY <2>1, CarryHandler, TwoLists
  <2>3. DqTypeOK'
    BY <1>0, <2>1, DqStoreTypes
  <2> QED BY <1>1, <2>2, <2>3
<1>3. ASSUME NEW t \in Thread, NEW v \in Value, DqPushWaits(t, v) PROVE CarryInv'
  <2>1. PICK timeout \in {"ticks", "forever"} :
            Wait(t, Senders, Enqueue(suspended[Senders], t), "pushing", v, timeout)
    BY <1>3 DEF DqPushWaits, Blocks
  <2>2. /\ t \notin Waiters /\ pc[t].at = "run" /\ UNCHANGED object
        /\ UNCHANGED dqVars
    BY <1>3 DEF DqPushWaits, Blocks, May, At
  <2>3. timeout \in Timeouts /\ v \in Args
    BY TwoLists DEF Timeouts
  <2>4. WaitInv' /\ CarriesOK'
    BY <2>1, <2>2, <2>3, CarryWaits, TwoLists
  <2> QED BY <1>0, <1>1, <2>2, <2>4, DqSameTypes
<1>4. ASSUME NEW t \in Thread, DqPopWaits(t) PROVE CarryInv'
  <2>1. PICK timeout \in {"ticks", "forever"} :
            Wait(t, Receivers, Enqueue(suspended[Receivers], t), "popping", Nothing, timeout)
    BY <1>4 DEF DqPopWaits, Blocks
  <2>2. /\ t \notin Waiters /\ pc[t].at = "run" /\ UNCHANGED object
        /\ UNCHANGED dqVars
    BY <1>4 DEF DqPopWaits, Blocks, May, At
  <2>3. timeout \in Timeouts
    BY DEF Timeouts
  <2>4. WaitInv' /\ CarriesOK'
    BY <2>1, <2>2, <2>3, CarryWaits, TwoLists
  <2> QED BY <1>0, <1>1, <2>2, <2>4, DqSameTypes
<1>5. ASSUME NEW t \in Thread, DqPushWaitsAgain(t) PROVE CarryInv'
  <2>1. /\ Wait(t, Senders, Enqueue(suspended[Senders], t), "pushing", pc[t].arg, pc[t].timeout)
        /\ t \notin Waiters /\ pc[t].at = "pushing" /\ UNCHANGED object
        /\ UNCHANGED dqVars
    BY <1>5 DEF DqPushWaitsAgain, Woken, At
  <2>2. pc[t].timeout \in Timeouts /\ pc[t].arg \in Value /\ pc[t].arg \in Args
    BY <1>0, <2>1, TwoLists DEF WaitInv, PcOK, CarriesOK
  <2>3. WaitInv' /\ CarriesOK'
    BY <2>1, <2>2, CarryWaits, TwoLists
  <2> QED BY <1>0, <1>1, <2>1, <2>3, DqSameTypes
<1>6. ASSUME NEW t \in Thread, DqPopWaitsAgain(t) PROVE CarryInv'
  <2>1. /\ Wait(t, Receivers, Enqueue(suspended[Receivers], t), "popping", Nothing,
                pc[t].timeout)
        /\ t \notin Waiters /\ pc[t].at = "popping" /\ UNCHANGED object
        /\ UNCHANGED dqVars
    BY <1>6 DEF DqPopWaitsAgain, Woken, At
  <2>2. pc[t].timeout \in Timeouts
    BY <1>0 DEF WaitInv, PcOK
  <2>3. WaitInv' /\ CarriesOK'
    BY <2>1, <2>2, CarryWaits, TwoLists
  <2> QED BY <1>0, <1>1, <2>1, <2>3, DqSameTypes
<1>7. ASSUME NEW t \in Thread, DqPushReturns(t) PROVE CarryInv'
  <2>1. /\ t \notin Waiters /\ pc[t].at = "pushing" /\ DqStore(pc[t].arg) /\ UNCHANGED object
        /\ ResumeIfAny(Receivers) /\ error' = [error EXCEPT ![t] = "ok"]
        /\ pc' = [pc EXCEPT ![t] = [at |-> "run", timeout |-> "none", arg |-> Nothing]]
    BY <1>7 DEF DqPushReturns, Woken, At, DqStore, Return, Running
  <2>2. pc[t].arg \in Value
    BY <1>0, <2>1 DEF CarriesOK
  <2>3. DqTypeOK'
    BY <1>0, <2>1, <2>2, DqStoreTypes
  <2>4. WaitInv' /\ CarriesOK'
    BY <2>1, CarryGoes, TwoLists
  <2> QED BY <1>1, <2>3, <2>4
<1>8. ASSUME NEW t \in Thread, DqPop(t) PROVE CarryInv'
  <2>1. /\ t \notin Waiters /\ DqTake(t) /\ UNCHANGED object
        /\ get_index' = (get_index + 1) % IndexRange /\ UNCHANGED <<ring, put_index>>
        /\ UNCHANGED <<suspended, timed>> \/ ResumeIfAny(Senders)
        /\ error' = [error EXCEPT ![t] = "ok"]
        /\ pc' = [pc EXCEPT ![t] = [at |-> "popped", timeout |-> "none",
                                    arg |-> ring[get_index % DqSize]]]
    BY <1>8 DEF DqPop, DqTake, May, Woken, At, Goto
  <2>2. PICK arg \in Args : arg = ring[get_index % DqSize]
    <3>1. get_index \in Int
      BY <1>0, DqAssumption DEF DqTypeOK
    <3> QED BY <1>0, <3>1, DqTypeFacts, TwoLists
  <2>3. "popped" \in BusySteps \cup {"run"} /\ "popped" \notin {"pushed", "starting"}
    BY DEF BusySteps
  <2>4. WaitInv' /\ CarriesOK'
    BY <2>1, <2>2, <2>3, CarryGoes, TwoLists
  <2>5. DqTypeOK'
    BY <1>0, <2>1, DqTakeTypes
  <2> QED BY <1>1, <2>4, <2>5
<1>9. ASSUME NEW t \in Thread, DqPushFails(t) \/ DqPopFails(t) \/ DqPopReturns(t)
      PROVE  CarryInv'
  <2>1. /\ t \notin Waiters /\ UNCHANGED <<suspended, timed, object>> /\ UNCHANGED dqVars
        /\ error' = [error EXCEPT ![t] = "ok"]
        /\ pc' = [pc EXCEPT ![t] = [at |-> "run", timeout |-> "none", arg |-> Nothing]]
    BY <1>9 DEF DqPushFails, DqPopFails, DqPopReturns, Fails, At, Return, Running
  <2>2. WaitInv' /\ CarriesOK'
    BY <2>1, CarryGoes, TwoLists
  <2> QED BY <1>0, <1>1, <2>1, <2>2, DqSameTypes
<1>10. ASSUME NEW t \in Thread, DqReset(t) \/ (Timeout(t) /\ UNCHANGED dqVars) PROVE CarryInv'
  <2>1. WaitInv' /\ Quiet /\ UNCHANGED dqVars
    <3>1. CASE DqReset(t)
      <4>1. /\ Detach(t, "locked") \/ DetachTest(t) \/ DetachResume(t) \/ DetachEnds(t, "live")
            /\ UNCHANGED dqVars
        BY <3>1 DEF DqReset
      <4> QED BY <1>0, <4>1, DetachesQuiet
    <3> QED BY <1>0, <1>10, <3>1, TimeoutQuiet
  <2>2. WaitInv' /\ CarriesOK'
    BY <2>1, CarryQuiet
  <2> QED BY <1>0, <1>1, <2>1, <2>2, DqSameTypes
<1> QED BY <1>2, <1>3, <1>4, <1>5, <1>6, <1>7, <1>8, <1>9, <1>10 DEF DqNext

LEMMA TxTypesStep ==
    ASSUME CarryInv, TxNext
    PROVE  CarryInv'
<1>0. DqTypeOK /\ WaitInv /\ CarriesOK /\ activated \in BOOLEAN /\ dma \in Value \cup {Nothing}
  BY DEF CarryInv
<1>1. ASSUME NEW t \in Thread, NEW v \in Value, DqStore(v), Goto(t, "pushed", v),
             t \notin Waiters, UNCHANGED object, UNCHANGED txVars
      PROVE  CarryInv'
  <2>1. /\ ResumeIfAny(Receivers) /\ error' = [error EXCEPT ![t] = "ok"]
        /\ pc' = [pc EXCEPT ![t] = [at |-> "pushed", timeout |-> "none", arg |-> v]]
    BY <1>1 DEF DqStore, Goto
  <2>2. "pushed" \in BusySteps \cup {"run"} /\ v \in Args
    BY TwoLists DEF BusySteps
  <2>3. WaitInv' /\ CarriesOK'
    BY <1>1, <2>1, <2>2, CarryGoes, TwoLists
  <2>4. DqTypeOK'
    BY <1>0, <1>1, DqStoreTypes
  <2> QED BY <1>0, <1>1, <2>3, <2>4, CarryMakes DEF txVars
<1>2. ASSUME NEW t \in Thread, NEW v \in Value, NEW timeout \in Timeouts,
             Wait(t, Senders, Enqueue(suspended[Senders], t), "pushing", v, timeout),
             t \notin Waiters, pc[t].at \in {"run", "pushing"}, UNCHANGED object,
             UNCHANGED dqVars, UNCHANGED txVars
      PROVE  CarryInv'
  <2>1. v \in Args
    BY TwoLists
  <2>2. WaitInv' /\ CarriesOK'
    BY <1>2, <2>1, CarryWaits, TwoLists
  <2>3. DqTypeOK'
    BY <1>0, <1>2, DqSameTypes
  <2> QED BY <1>0, <1>2, <2>2, <2>3, CarryMakes DEF txVars
<1>3. ASSUME NEW t \in Thread, pc[t].at = "pushing" PROVE pc[t].arg \in Value
  BY <1>0, <1>3 DEF CarriesOK
<1>4. ASSUME NEW t \in Thread, NEW v \in Value, TxPush(t, v) PROVE CarryInv'
  BY <1>1, <1>4 DEF TxPush, May, At
<1>5. ASSUME NEW t \in Thread, NEW v \in Value, TxPushWaits(t, v) PROVE CarryInv'
  <2>1. Wait(t, Senders, Enqueue(suspended[Senders], t), "pushing", v, "forever")
    BY <1>5 DEF TxPushWaits, Blocks
  <2>2. /\ t \notin Waiters /\ pc[t].at = "run" /\ UNCHANGED object
        /\ UNCHANGED dqVars /\ UNCHANGED txVars
    BY <1>5 DEF TxPushWaits, Blocks, May, At
  <2> QED BY <1>2, <2>1, <2>2 DEF Timeouts
<1>6. ASSUME NEW t \in Thread, TxPushWaitsAgain(t) PROVE CarryInv'
  <2>1. /\ Wait(t, Senders, Enqueue(suspended[Senders], t), "pushing", pc[t].arg, pc[t].timeout)
        /\ t \notin Waiters /\ pc[t].at = "pushing" /\ UNCHANGED object
        /\ UNCHANGED dqVars /\ UNCHANGED txVars
    BY <1>6 DEF TxPushWaitsAgain, DqPushWaitsAgain, Woken, At
  <2>2. pc[t].timeout \in Timeouts
    BY <1>0 DEF WaitInv, PcOK
  <2> QED BY <1>2, <1>3, <2>1, <2>2
<1>7. ASSUME NEW t \in Thread, TxPushReturns(t) PROVE CarryInv'
  <2>1. /\ t \notin Waiters /\ pc[t].at = "pushing" /\ DqStore(pc[t].arg)
        /\ Goto(t, "pushed", pc[t].arg) /\ UNCHANGED object /\ UNCHANGED txVars
    BY <1>7 DEF TxPushReturns, Woken, At
  <2> QED BY <1>1, <1>3, <2>1
<1>8. ASSUME NEW t \in Thread, NEW step \in {"run", "starting"}, NEW arg \in Args,
             step = "starting" => arg \in Value, t \notin Waiters,
             UNCHANGED <<suspended, timed, object>>, UNCHANGED dqVars,
             activated' \in BOOLEAN, dma' \in Value \cup {Nothing},
             error' = [error EXCEPT ![t] = "ok"],
             pc' = [pc EXCEPT ![t] = [at |-> step, timeout |-> "none", arg |-> arg]]
      PROVE  CarryInv'
  <2>1. step \in BusySteps \cup {"run"}
    BY DEF BusySteps
  <2>2. WaitInv' /\ CarriesOK'
    BY <1>8, <2>1, CarryGoes
  <2>3. DqTypeOK'
    BY <1>0, <1>8, DqSameTypes
  <2> QED BY <1>8, <2>2, <2>3, CarryMakes
<1>9. ASSUME NEW t \in Thread, TxActivate(t) PROVE CarryInv'
  <2>1. /\ t \notin Waiters /\ pc[t].at = "pushed"
        /\ UNCHANGED <<suspended, timed, object>> /\ UNCHANGED dqVars
        /\ activated' = TRUE /\ dma' = dma
        /\ error' = [error EXCEPT ![t] = "ok"]
        /\ IF activated
           THEN pc' = [pc EXCEPT ![t] = [at |-> "run", timeout |-> "none", arg |-> Nothing]]
           ELSE pc' = [pc EXCEPT ![t] = [at |-> "starting", timeout |-> "none",
                                         arg |-> pc[t].arg]]
    BY <1>9 DEF TxActivate, At, Return, Running, Goto
  <2>2. pc[t].arg \in Value /\ pc[t].arg \in Args /\ Nothing \in Args
    BY <1>0, <2>1, TwoLists DEF CarriesOK
  <2>3. CASE activated
    BY <1>0, <1>8, <2>1, <2>2, <2>3
  <2>4. CASE ~activated
    BY <1>0, <1>8, <2>1, <2>2, <2>4
  <2> QED BY <2>3, <2>4
<1>10. ASSUME NEW t \in Thread, TxTransmit(t) PROVE CarryInv'
  <2>1. /\ t \notin Waiters /\ pc[t].at = "starting"
        /\ UNCHANGED <<suspended, timed, object>> /\ UNCHANGED dqVars
        /\ activated' = activated /\ dma' = pc[t].arg
        /\ error' = [error EXCEPT ![t] = "ok"]
        /\ pc' = [pc EXCEPT ![t] = [at |-> "run", timeout |-> "none", arg |-> Nothing]]
    BY <1>10 DEF TxTransmit, At, Return, Running
  <2>2. dma' \in Value /\ Nothing \in Args
    BY <1>0, <2>1, TwoLists DEF CarriesOK
  <2> QED BY <1>0, <1>8, <2>1, <2>2
<1>11. CASE TxDone
  <2>1. /\ get_index' \in {get_index, (get_index + 1) % IndexRange}
        /\ UNCHANGED <<suspended, timed>> \/ ResumeIfAny(Senders)
        /\ activated' = (get_index' # put_index)
        /\ dma' = IF get_index' = put_index THEN Nothing ELSE ring[get_index' % DqSize]
        /\ UNCHANGED <<ring, put_index>> /\ UNCHANGED <<error, pc, object>>
    BY <1>11 DEF TxDone, TxPop
  <2>2. DqTypeOK'
    BY <1>0, <2>1, DqTakeTypes
  <2>3. get_index' \in Int
    BY <2>2, DqAssumption DEF DqTypeOK
  <2>4. dma' \in Value \cup {Nothing} /\ activated' \in BOOLEAN
    BY <1>0, <2>1, <2>3, DqTypeFacts
  <2>5. WaitInv' /\ CarriesOK'
    BY <2>1, CarryHandler, TwoLists
  <2> QED BY <2>2, <2>4, <2>5, CarryMakes
<1> QED BY <1>4, <1>5, <1>6, <1>7, <1>9, <1>10, <1>11 DEF TxNext

LEMMA CarryStarts == IpcInit /\ DqInit /\ TxInit => CarryInv
<1> SUFFICES ASSUME IpcInit, DqInit, TxInit PROVE CarryInv
  OBVIOUS
<1>1. WaitInv
  BY WaitStarts
<1>2. CarriesOK
  BY DEF IpcInit, Running, CarriesOK
<1>3. DqTypeOK
  BY DqAssumption DEF DqInit, DqTypeOK
<1> QED BY <1>1, <1>2, <1>3 DEF TxInit, CarryInv

LEMMA CarryStutters ==
    ASSUME CarryInv, UNCHANGED <<ipcVars, dqVars, txVars>>
    PROVE  CarryInv'
<1>1. /\ UNCHANGED <<suspended, timed, error, pc, object>> /\ UNCHANGED dqVars
      /\ UNCHANGED txVars
  BY DEF ipcVars, waitVars
<1>2. WaitInv' /\ CarriesOK'
  BY <1>1, CarryHandler
<1>3. DqTypeOK'
  BY <1>1, DqSameTypes DEF CarryInv
<1> QED BY <1>1, <1>2, <1>3, CarryMakes DEF CarryInv, txVars

\* The worker and its clients are threads, the worker alone on a list.
LEMMA WorkFacts ==
    /\ Worker \in Thread /\ Clients \subseteq Thread /\ Worker \notin Clients
    /\ Nothing \notin Work
    /\ Receivers # Senders /\ List = {Receivers, Senders}
    /\ <<Worker>> # <<>> /\ ToSet(<<Worker>>) = {Worker} /\ ToSet(<<>>) = {}
    /\ Unlink(<<Worker>>, Worker) = <<>> /\ \A w : Unlink(<<>>, w) = <<>>
<1>1. /\ Worker \in Thread /\ Clients \subseteq Thread /\ Worker \notin Clients
      /\ Nothing \notin Work /\ Receivers # Senders /\ List = {Receivers, Senders}
  BY WorkAssumption, TwoLists DEF List
<1>2. <<Worker>> # <<>> /\ ToSet(<<Worker>>) = {Worker} /\ ToSet(<<>>) = {}
  BY DEF ToSet
<1>3. \A w : Unlink(<<>>, w) = <<>>
  BY <1>2 DEF Unlink
<1>4. Unlink(<<Worker>>, Worker) = <<>>
  <2>1. <<Worker>> \in Seq(Thread) /\ IsInjective(<<Worker>>)
    BY <1>1 DEF IsInjective
  <2>2. PICK q \in Seq(Thread) : q = <<Worker>> /\ IsInjective(q) /\ ToSet(q) = {Worker}
    BY <1>2, <2>1
  <2>3. PICK n : n = Worker
    OBVIOUS
  <2>4. /\ Unlink(q, n) \in Seq(Thread)
        /\ ToSet(Unlink(q, n)) = ToSet(q) \ {n}
    BY ONLY <2>2, UnlinkElements
  <2>5. PICK r \in Seq(Thread) : r = Unlink(q, n) /\ ToSet(r) = {}
    BY <2>2, <2>3, <2>4
  <2>6. r = <<>>
    BY <2>5, TailElements
  <2> QED BY <2>2, <2>3, <2>5, <2>6
<1> QED BY <1>1, <1>2, <1>3, <1>4

\* Of a work queue, whoever submits and cancels.
WorkPcs ==
    /\ error \in [Thread -> {"ok", "timeout", "error"}]
    /\ timed = {}
    /\ DOMAIN pc = Thread /\ \A t \in Thread : pc[t].timeout \in {"none", "ticks", "forever"}
    /\ object = "live"

WorkData ==
    /\ suspended \in [List -> Seq(Thread)] /\ suspended[Senders] \in {<<>>, <<Worker>>}
    /\ work_list \in Seq(Work) /\ IsInjective(work_list) /\ pending \subseteq Work
    /\ work_current \in Work \cup {Nothing}

WorkTypes == WorkPcs /\ WorkData

\* t goes on.
WorkGoes(t) ==
    /\ \E step, arg : \E timeout \in {"none", "ticks", "forever"} :
           pc' = [pc EXCEPT ![t] = [at |-> step, timeout |-> timeout, arg |-> arg]]
    /\ error' = [error EXCEPT ![t] = "ok"]
    /\ UNCHANGED <<timed, object>>

LEMMA WorkTypesMake ==
    ASSUME WorkTypes, NEW t \in Thread, WorkGoes(t), WorkData'
    PROVE  WorkTypes'
<1>1. PICK step, arg : \E timeout \in {"none", "ticks", "forever"} :
          pc' = [pc EXCEPT ![t] = [at |-> step, timeout |-> timeout, arg |-> arg]]
  BY DEF WorkGoes
<1>2. /\ DOMAIN pc' = Thread
      /\ \A u \in Thread : pc'[u].timeout \in {"none", "ticks", "forever"}
  BY <1>1 DEF WorkTypes, WorkPcs
<1>3. WorkPcs'
  BY <1>2 DEF WorkTypes, WorkPcs, WorkGoes
<1> QED BY <1>3 DEF WorkTypes

LEMMA WorkCalls ==
    ASSUME NEW t, NEW step, NEW arg, Goto(t, step, arg) \/ Return(t), UNCHANGED <<timed, object>>
    PROVE  WorkGoes(t)
BY DEF Goto, Return, Running, WorkGoes

LEMMA WorkWaits ==
    ASSUME NEW t, NEW l, NEW list, NEW step, NEW arg,
           Wait(t, l, list, step, arg, "forever"), UNCHANGED object
    PROVE  WorkGoes(t)
BY DEF Wait, WorkGoes

LEMMA WorkListTypes ==
    ASSUME WorkTypes, NEW w \in Work
    PROVE  /\ Unlink(work_list, w) \in Seq(Work) /\ IsInjective(Unlink(work_list, w))
           /\ Enqueue(Unlink(work_list, w), w) \in Seq(Work)
           /\ IsInjective(Enqueue(Unlink(work_list, w), w))
<1>1. PICK q \in Seq(Work) : q = Unlink(work_list, w) /\ IsInjective(q) /\ w \notin ToSet(q)
  BY UnlinkElements DEF WorkTypes, WorkData
<1>2. PICK S : S = Work
  OBVIOUS
<1>3. q \in Seq(S) /\ w \in S /\ IsInjective(q) /\ w \notin ToSet(q)
  BY <1>1, <1>2
<1>4. Enqueue(q, w) \in Seq(S) /\ IsInjective(Enqueue(q, w))
  BY ONLY <1>3, EnqueueElements
<1> QED BY <1>1, <1>2, <1>4

LEMMA WorkTypesStep ==
    ASSUME WorkTypes, WorkNext
    PROVE  WorkTypes'
<1>1. /\ suspended \in [List -> Seq(Thread)] /\ suspended[Senders] \in {<<>>, <<Worker>>}
      /\ work_list \in Seq(Work) /\ IsInjective(work_list) /\ pending \subseteq Work
      /\ work_current \in Work \cup {Nothing}
  BY DEF WorkTypes, WorkData
<1>2. <<>> \in Seq(Thread) /\ <<Worker>> \in Seq(Thread) /\ Worker \in Thread
      /\ Clients \subseteq Thread
  BY WorkFacts
<1>3. CASE WorkTest
  <2>1. WorkGoes(Worker)
    BY <1>3, WorkCalls DEF WorkTest
  <2>2. UNCHANGED <<suspended, work_list, work_current, pending>>
    BY <1>3 DEF WorkTest, workVars
  <2>3. WorkData'
    BY <1>1, <2>2 DEF WorkData
  <2> QED BY <1>2, <2>1, <2>3, WorkTypesMake
<1>4. CASE WorkSleep
  <2>1. WorkGoes(Worker)
    BY <1>4, WorkWaits DEF WorkSleep
  <2>2. /\ suspended' = [suspended EXCEPT ![Senders] = <<Worker>>]
        /\ UNCHANGED <<work_list, work_current, pending>>
    BY <1>4 DEF WorkSleep, Wait, workVars
  <2>3. suspended' \in [List -> Seq(Thread)] /\ suspended'[Senders] = <<Worker>>
    BY <1>1, <1>2, <2>2, TwoLists
  <2>4. WorkData'
    BY <1>1, <2>2, <2>3 DEF WorkData
  <2> QED BY <1>2, <2>1, <2>4, WorkTypesMake
<1>5. CASE WorkTake
  <2>1. WorkGoes(Worker)
    BY <1>5, WorkCalls DEF WorkTake
  <2>2. /\ work_list # <<>> /\ work_current' = Head(work_list) /\ work_list' = Tail(work_list)
        /\ pending' = pending \ {Head(work_list)} /\ UNCHANGED suspended
    BY <1>5 DEF WorkTake
  <2>3. Tail(work_list) \in Seq(Work) /\ IsInjective(Tail(work_list)) /\ Head(work_list) \in Work
    BY <1>1, <2>2, TailElements, ListMembers
  <2>4. WorkData'
    BY <1>1, <2>2, <2>3 DEF WorkData
  <2> QED BY <1>2, <2>1, <2>4, WorkTypesMake
<1>6. CASE WorkDone
  <2>1. WorkGoes(Worker)
    BY <1>6, WorkCalls DEF WorkDone
  <2>2. work_current' = Nothing /\ UNCHANGED <<suspended, work_list, pending>>
    BY <1>6 DEF WorkDone
  <2>3. WorkData'
    BY <1>1, <2>2 DEF WorkData
  <2> QED BY <1>2, <2>1, <2>3, WorkTypesMake
<1>7. CASE WorkCompletion
  <2>1. WorkGoes(Worker)
    BY <1>7, WorkCalls DEF WorkCompletion
  <2>2. /\ suspended' = [suspended EXCEPT ![Receivers] = <<>>]
        /\ UNCHANGED <<work_list, work_current, pending>>
    BY <1>7 DEF WorkCompletion, workVars
  <2>3. suspended' \in [List -> Seq(Thread)] /\ suspended'[Senders] = suspended[Senders]
    BY <1>1, <1>2, <2>2, TwoLists
  <2>4. WorkData'
    BY <1>1, <2>2, <2>3 DEF WorkData
  <2> QED BY <1>2, <2>1, <2>4, WorkTypesMake
<1>8. ASSUME NEW t \in Clients, WorkResume(t) PROVE WorkTypes'
  <2>1. WorkGoes(t)
    BY <1>8, WorkCalls DEF WorkResume
  <2>2. /\ suspended' = [suspended EXCEPT ![Senders] = Unlink(suspended[Senders], Worker)]
        /\ UNCHANGED <<work_list, work_current, pending>>
    BY <1>8 DEF WorkResume, workVars
  <2>3. Unlink(suspended[Senders], Worker) = <<>>
    BY <1>1, WorkFacts
  <2>4. suspended' \in [List -> Seq(Thread)] /\ suspended'[Senders] = <<>>
    BY <1>1, <1>2, <2>2, <2>3, TwoLists
  <2>5. WorkData'
    BY <1>1, <2>2, <2>4 DEF WorkData
  <2> QED BY <1>2, <2>1, <2>5, WorkTypesMake
<1>9. ASSUME NEW t \in Clients, WorkCancelReturns(t) PROVE WorkTypes'
  <2>1. WorkGoes(t)
    BY <1>9, WorkCalls DEF WorkCancelReturns
  <2>2. UNCHANGED <<suspended, work_list, work_current, pending>>
    BY <1>9 DEF WorkCancelReturns, workVars
  <2>3. WorkData'
    BY <1>1, <2>2 DEF WorkData
  <2> QED BY <1>2, <2>1, <2>3, WorkTypesMake
<1>10. ASSUME NEW t \in Clients, NEW w \in Work, WorkSubmit(t, w) PROVE WorkTypes'
  <2>1. /\ work_list' = Enqueue(Unlink(work_list, w), w) /\ pending' = pending \cup {w}
        /\ UNCHANGED <<suspended, work_current>> /\ UNCHANGED <<timed, object>>
    BY <1>10 DEF WorkSubmit
  <2>2. WorkData'
    BY <1>1, <2>1, WorkListTypes DEF WorkData
  <2>3. CASE UNCHANGED <<error, pc>>
    BY <2>1, <2>2, <2>3 DEF WorkTypes, WorkPcs
  <2>4. CASE Goto(t, "submitted", Nothing)
    <3>1. WorkGoes(t)
      BY <2>1, <2>4, WorkCalls
    <3> QED BY <1>2, <2>2, <3>1, WorkTypesMake
  <2> QED BY <1>10, <2>3, <2>4 DEF WorkSubmit
<1>11. ASSUME NEW t \in Clients, NEW w \in Work, WorkCancel(t, w) PROVE WorkTypes'
  <2>1. /\ work_list' = Unlink(work_list, w) /\ pending' = pending \ {w}
        /\ UNCHANGED <<suspended, error, timed, pc, object, work_current>>
    BY <1>11 DEF WorkCancel, ipcVars, waitVars
  <2>2. WorkData'
    BY <1>1, <2>1, WorkListTypes DEF WorkData
  <2> QED BY <2>1, <2>2 DEF WorkTypes, WorkPcs
<1>12. ASSUME NEW t \in Clients, NEW w \in Work, WorkCancelWaits(t, w) PROVE WorkTypes'
  <2>1. /\ Wait(t, Receivers, Enqueue(suspended[Receivers], t), "cancelling", w, "forever")
        /\ UNCHANGED object
    BY <1>12 DEF WorkCancelWaits, Blocks
  <2>2. WorkGoes(t)
    BY <2>1, WorkWaits
  <2>3. /\ suspended' = [suspended EXCEPT ![Receivers] = Enqueue(suspended[Receivers], t)]
        /\ UNCHANGED <<work_list, work_current>> /\ pending' = pending \ {w}
    BY <1>12, <2>1 DEF WorkCancelWaits, Wait
  <2>4. PICK q \in Seq(Thread) : q = suspended[Receivers]
    BY <1>1, TwoLists
  <2>5. t \in Thread
    BY <1>2
  <2>6. Enqueue(q, t) \in Seq(Thread)
    BY <2>5, EnqueueElements
  <2>7. suspended' \in [List -> Seq(Thread)] /\ suspended'[Senders] = suspended[Senders]
    BY <1>1, <2>3, <2>4, <2>6, TwoLists
  <2>8. WorkData'
    BY <1>1, <2>3, <2>7 DEF WorkData
  <2> QED BY <2>2, <2>5, <2>8, WorkTypesMake
<1> QED BY <1>3, <1>4, <1>5, <1>6, <1>7, <1>8, <1>9, <1>10, <1>11, <1>12 DEF WorkNext

LEMMA WorkTypesStart == IpcInit /\ WorkInit => WorkTypes
<1> SUFFICES ASSUME IpcInit, WorkInit PROVE WorkTypes
  OBVIOUS
<1>1. suspended \in [List -> Seq(Thread)] /\ suspended[Senders] = <<>>
  BY TwoLists DEF IpcInit
<1>2. work_list \in Seq(Work) /\ IsInjective(work_list)
  BY DEF WorkInit, IsInjective
<1> QED BY <1>1, <1>2 DEF IpcInit, WorkInit, Running, WorkTypes, WorkPcs, WorkData

LEMMA WorkTypesStutter ==
    ASSUME WorkTypes, UNCHANGED <<ipcVars, workVars>>
    PROVE  WorkTypes'
BY DEF WorkTypes, WorkPcs, WorkData, ipcVars, waitVars, workVars

LEMMA WorkTypesSay ==
    ASSUME WorkTypes
    PROVE  IpcTypeOK /\ WorkTypeOK
BY DEF WorkTypes, WorkPcs, WorkData, IpcTypeOK, WorkTypeOK

LEMMA SemTypes == SemInv => IpcTypeOK /\ SemTypeOK
<1> SUFFICES ASSUME SemInv PROVE IpcTypeOK /\ SemTypeOK
  OBVIOUS
<1>1. PICK n : n = Cardinality(Arriving("taking"))
  OBVIOUS
<1>2. PICK m : m = Cardinality(Thread)
  OBVIOUS
<1>3. n <= m /\ m \in Nat /\ n \in Nat
  BY <1>1, <1>2, ArrivingBound, ArrivingFinite
<1>4. value \in 0 .. MaxValue /\ balance = value + n /\ MaxValue \in Nat
  BY <1>1, MaxValueType DEF SemInv, TokensConserved
<1>5. SemTypeOK
  BY <1>2, <1>3, <1>4 DEF SemTypeOK
<1> QED BY <1>5, WaitTypes DEF SemInv

LEMMA MbTypes == MbInv => IpcTypeOK /\ MbTypeOK
<1> SUFFICES ASSUME MbInv PROVE IpcTypeOK /\ MbTypeOK
  OBVIOUS
<1>1. MbTypeOK
  BY MbAssumption DEF MbInv, RingOK, RingTypeOK, MbTypeOK
<1> QED BY <1>1, WaitTypes DEF MbInv

LEMMA PoolTypes == PoolInv => IpcTypeOK /\ PoolTypeOK
<1> SUFFICES ASSUME PoolInv PROVE IpcTypeOK /\ PoolTypeOK
  OBVIOUS
<1>1. block_list \in Seq(Block) /\ IsInjective(block_list) /\ block_free_count = Len(block_list)
  BY DEF PoolInv, BlocksOK, BlocksConserved
<1>2. Len(block_list) \in 0 .. Cardinality(Block)
  BY <1>1, PoolAssumption, NoLonger
<1>3. PoolTypeOK
  BY <1>1, <1>2 DEF PoolInv, BlocksOK, PoolWaitOK, PoolTypeOK
<1> QED BY <1>3, WaitTypes DEF PoolInv, PoolWaitOK

LEMMA MqTypesSay == MqInv => IpcTypeOK /\ MqTypeOK
<1> SUFFICES ASSUME MqInv PROVE IpcTypeOK /\ MqTypeOK
  OBVIOUS
<1>1. PICK q, f : MqLists(q, f)
  BY DEF MqInv, MqPlaces
<1>2. q \in Seq(Item) /\ f \in Seq(Item) /\ IsInjective(q) /\ entries = Len(q)
  BY <1>1 DEF MqLists
<1>3. entries \in 0 .. Cardinality(Item)
  BY <1>2, MqAssumption, NoLonger
<1>4. PICK n \in Nat, m \in Nat : n = Len(q) /\ m = Len(f)
  BY <1>2, SeqFacts
<1>5. /\ q # <<>> => 1 \in 1 .. n /\ n \in 1 .. n
      /\ f # <<>> => 1 \in 1 .. m
  BY <1>2, <1>4, SeqFacts
<1>6. /\ \A k \in 1 .. n : q[k] \in Item
      /\ \A k \in 1 .. m : f[k] \in Item
  BY <1>2, <1>4, SeqFacts
<1>7. /\ msg_queue_head = IF q = <<>> THEN Nothing ELSE q[1]
      /\ msg_queue_free = IF f = <<>> THEN Nothing ELSE f[1]
      /\ msg_queue_tail = IF q = <<>> THEN Nothing ELSE q[n]
  BY <1>1, <1>4 DEF MqLists, Chain
<1>8. {msg_queue_head, msg_queue_tail, msg_queue_free} \subseteq Item \cup {Nothing}
  BY <1>5, <1>6, <1>7
<1>9. MqTypeOK
  BY <1>3, <1>8 DEF MqInv, MqTypes, MqTypeOK
<1> QED BY <1>9, WaitTypes DEF MqInv

LEMMA EventTypes == EventInv => IpcTypeOK /\ EventTypeOK
<1> SUFFICES ASSUME EventInv PROVE IpcTypeOK /\ EventTypeOK
  OBVIOUS
<1>1. EventTypeOK
  BY DEF EventInv, EventPcOK, Wants, EventTypeOK
<1> QED BY <1>1, WaitTypes DEF EventInv

LEMMA RxTypes ==
    ASSUME RxInv
    PROVE  /\ buffer \in [0 .. bufsz - 1 -> Value \cup {Nothing}]
           /\ rx_put \in 0 .. bufsz - 1 /\ rx_get \in 0 .. bufsz - 1
           /\ is_full \in BOOLEAN
<1>1. bufsz \in Nat
  BY SerialAssumption
<1> QED BY <1>1 DEF RxInv, RxTypeOK

\* The invariants of the kinds whose variables the others do not have; a thread that
\* reads from a serial device waits for nothing.
KindInv ==
    /\ kind \in {"dq", "tx"} => CarryInv
    /\ kind \in {"int_rx", "dma_rx"} => WaitInv
    /\ kind = "work" => WorkTypes

\* The variables of the objects that are not of this kind stay as they were.
RestTypes ==
    /\ kind \in Kind
    /\ kind # "sem" => SemTypeOK
    /\ kind # "mb" => MbTypeOK
    /\ kind # "mq" => MqTypeOK
    /\ kind # "pool" => PoolTypeOK
    /\ kind # "event" => set \subseteq Bit
    /\ kind # "completion" => flag \in BOOLEAN
    /\ kind \notin {"dq", "tx"} => DqTypeOK /\ activated \in BOOLEAN /\ dma \in Value \cup {Nothing}
    /\ kind # "work" => WorkTypeOK

LEMMA TypesStart == Init => KindInv /\ RestTypes
<1> SUFFICES ASSUME Init PROVE KindInv /\ RestTypes
  OBVIOUS
<1>1. /\ kind \in Kind /\ IpcInit /\ SemInit /\ EventInit /\ MbInit /\ MqInit /\ PoolInit
      /\ CompletionInit /\ DqInit /\ TxInit /\ WorkInit
  BY DEF Init
<1>2. SemTypeOK /\ MbTypeOK /\ MqTypeOK /\ PoolTypeOK /\ WorkTypeOK
  BY <1>1, SemStarts, MbStarts, MqStarts, PoolStarts, WorkTypesStart,
     SemTypes, MbTypes, MqTypesSay, PoolTypes, WorkTypesSay
<1>3. WaitInv /\ CarryInv /\ WorkTypes
  BY <1>1, WaitStarts, CarryStarts, WorkTypesStart
<1>4. set \subseteq Bit /\ flag \in BOOLEAN
  BY <1>1 DEF EventInit, CompletionInit
<1> QED BY <1>1, <1>2, <1>3, <1>4 DEF KindInv, RestTypes, CarryInv

LEMMA RestStep ==
    ASSUME RestTypes, [Next]_vars
    PROVE  RestTypes'
<1>1. kind' = kind
  BY StepsOf, StutterKeeps
<1>2. /\ kind # "sem" => UNCHANGED <<value, balance>>
      /\ kind # "mb" => UNCHANGED <<msg_pool, entry, in_offset, out_offset>>
      /\ kind # "mq" => UNCHANGED <<msg_queue_head, msg_queue_tail, msg_queue_free, next,
                                    content, entries>>
      /\ kind # "pool" => UNCHANGED <<block_list, block_free_count, suspend_thread_count,
                                      allocated>>
  BY DEF Next, vars, semVars, mbVars, mqVars, poolVars
<1>3. /\ kind # "event" => UNCHANGED set
      /\ kind # "completion" => UNCHANGED flag
      /\ kind \notin {"dq", "tx"} => UNCHANGED <<ring, put_index, get_index, activated, dma>>
      /\ kind # "work" => UNCHANGED <<work_list, work_current, pending>>
  BY DEF Next, vars, dqVars, txVars, workVars
<1>4. /\ kind # "sem" => SemTypeOK'
      /\ kind # "mb" => MbTypeOK'
      /\ kind # "mq" => MqTypeOK'
      /\ kind # "pool" => PoolTypeOK'
  BY <1>2 DEF RestTypes, SemTypeOK, MbTypeOK, MqTypeOK, PoolTypeOK
<1>5. /\ kind # "event" => set' \subseteq Bit
      /\ kind # "completion" => flag' \in BOOLEAN
      /\ kind # "work" => WorkTypeOK'
  BY <1>3 DEF RestTypes, WorkTypeOK
<1>6. kind \notin {"dq", "tx"} =>
          DqTypeOK' /\ activated' \in BOOLEAN /\ dma' \in Value \cup {Nothing}
  BY <1>3 DEF RestTypes, DqTypeOK
<1> QED BY <1>1, <1>4, <1>5, <1>6 DEF RestTypes

LEMMA KindStep ==
    ASSUME KindInv, [Next]_vars
    PROVE  KindInv'
<1>1. kind' = kind
  BY StepsOf, StutterKeeps
<1>2. CASE UNCHANGED vars
  <2>1. /\ UNCHANGED <<ipcVars, dqVars, txVars>> /\ UNCHANGED <<ipcVars, workVars>>
        /\ UNCHANGED <<suspended, timed, error, pc, object>>
    BY <1>2 DEF vars, ipcVars, waitVars
  <2> QED BY <1>1, <2>1, CarryStutters, WorkTypesStutter, HandlerGoes DEF KindInv, Goes
<1>3. CASE Next
  <2>1. /\ kind = "dq" => DqNext /\ UNCHANGED txVars
        /\ kind = "tx" => TxNext
        /\ kind \in {"int_rx", "dma_rx"} => UNCHANGED ipcVars
        /\ kind = "work" => WorkNext
    BY <1>3 DEF Next
  <2>2. kind \in {"int_rx", "dma_rx"} => UNCHANGED <<suspended, timed, error, pc, object>>
    BY <2>1 DEF ipcVars, waitVars
  <2> QED BY <1>1, <2>1, <2>2, DqTypesStep, TxTypesStep, WorkTypesStep, HandlerGoes
          DEF KindInv, Goes
<1> QED BY <1>2, <1>3

\* Every variable keeps its type, whoever races with whom and whatever index wraps: no
\* index leaves its ring, no counter its range, no list holds anything but threads and
\* a timer runs only for a thread that waits.
THEOREM TypeCorrect == Spec => []TypeOK
<1> DEFINE Types == KindInv /\ RestTypes /\ RxInv
<1>1. Init => Types
  BY TypesStart, RxStarts DEF Init
<1>2. Types /\ [Next]_vars => Types'
  BY KindStep, RestStep, RxStep
<1>3. Types /\ ObjectInv /\ OthersInv => TypeOK
  <2> SUFFICES ASSUME Types, ObjectInv, OthersInv PROVE TypeOK
    OBVIOUS
  <2>1. CarryInv => IpcTypeOK /\ DqTypeOK /\ activated \in BOOLEAN /\ dma \in Value \cup {Nothing}
    BY WaitTypes DEF CarryInv
  <2>2. kind \in Kind /\ Kind \subseteq {"sem", "event", "mb", "mq", "pool", "completion", "dq",
                                          "tx", "int_rx", "dma_rx", "work"}
    BY KindAssumption DEF RestTypes
  <2>3. CompletionInv => IpcTypeOK /\ flag \in BOOLEAN
    BY WaitTypes DEF CompletionInv
  <2>4. EventInv => set \subseteq Bit
    BY DEF EventInv
  <2>5. IpcTypeOK
    BY <2>1, <2>2, <2>3, SemTypes, MbTypes, MqTypesSay, PoolTypes, EventTypes, WorkTypesSay,
       WaitTypes DEF ObjectInv, OthersInv, KindInv
  <2>6. /\ SemTypeOK /\ MbTypeOK /\ MqTypeOK /\ PoolTypeOK /\ WorkTypeOK
        /\ kind = "event" => EventTypeOK
    BY SemTypes, MbTypes, MqTypesSay, PoolTypes, EventTypes, WorkTypesSay
       DEF ObjectInv, OthersInv, KindInv, RestTypes
  <2>7. DqTypeOK /\ activated \in BOOLEAN /\ dma \in Value \cup {Nothing}
    BY <2>1 DEF KindInv, RestTypes
  <2>8. set \subseteq Bit /\ flag \in BOOLEAN
    BY <2>3, <2>4 DEF OthersInv, RestTypes
  <2>9. SerialTypeOK
    BY <2>7, RxTypes DEF SerialTypeOK
  <2> QED BY <2>2, <2>5, <2>6, <2>7, <2>8, <2>9 DEF TypeOK
<1> HIDE DEF Types
<1> QED BY <1>1, <1>2, <1>3, ObjectInvariant, OthersInvariant, PTL DEF Spec

=============================================================================
