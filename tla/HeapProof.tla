----------------------------- MODULE HeapProof -----------------------------
(***************************************************************************)
(* The small memory heap, for every size of the heap, of a header and of   *)
(* the requests, and for any number of threads: the blocks stay chained,   *)
(* what a caller has got stays its own, and used_mem is what is in use.    *)
(***************************************************************************)
EXTENDS Heap, RtListProof, FiniteSetTheorems

-----------------------------------------------------------------------------
(* The inductive invariant.                                                *)

Header == [next : 0 .. heap_end, prev : 0 .. heap_end, used : BOOLEAN]

\* h is a chain of the blocks at D, in both directions.  What the last header has
\* in prev nobody reads.
Chain(h, D) ==
    /\ D \subseteq 0 .. heap_end /\ 0 \in D /\ heap_end \in D
    /\ h \in [D -> Header]
    /\ h[0].prev = 0 /\ h[heap_end].used /\ h[heap_end].next = heap_end
    /\ \A p \in D : p # heap_end =>
          /\ h[p].next \in D /\ h[p].next > p + SIZEOF_STRUCT_MEM
          /\ \A q \in D : q > p => q >= h[p].next
          /\ h[p].next # heap_end => h[h[p].next].prev = p
    /\ \A p \in D : p # heap_end /\ p # 0 =>
          h[p].prev \in D /\ h[p].prev < p /\ h[h[p].prev].next = p

\* No two free blocks are neighbours, but for the one at x and those next to it.
ApartBut(h, D, x) ==
    \A p \in D : p # heap_end /\ p # x /\ h[p].next # x => h[p].used \/ h[h[p].next].used

Apart(h, D) ==
    \A p \in D : p # heap_end => h[p].used \/ h[h[p].next].used

\* A search may begin at low.
Start(h, D, low) == low \in D /\ (low = heap_end \/ ~h[low].used)

\* The requests R are met by the used blocks of h.
Met(h, D, R) ==
    /\ R \subseteq [at : 0 .. heap_end, size : 1 .. MaxSize]
    /\ \A r \in R : /\ r.at \in D /\ r.at # heap_end /\ h[r.at].used
                    /\ r.size <= h[r.at].next - (r.at + SIZEOF_STRUCT_MEM)
    /\ \A r, s \in R : r.at = s.at => r = s
    /\ \A p \in D : p # heap_end /\ h[p].used => \E r \in R : r.at = p

\* A thread reallocates a block of its own, which nobody else gives back.
Moving ==
    /\ DOMAIN pc = Thread
    /\ \A t \in Thread : pc[t].at \in {"run", "expand", "copy"}
    /\ \A t \in Thread : pc[t].at # "run" => pc[t].old \in live
    /\ \A t \in Thread : pc[t].at = "expand" => pc[t].size \in 1 .. MaxSize
    /\ \A t, u \in Thread :
          t # u /\ pc[t].at # "run" /\ pc[u].at # "run" => pc[t].old # pc[u].old

Good(h, D, low, R) == Chain(h, D) /\ Apart(h, D) /\ Start(h, D, low) /\ Met(h, D, R)

HeapInv ==
    /\ Good(heap, DOMAIN heap, lfree, live)
    /\ UsedCounted
    /\ Moving

-----------------------------------------------------------------------------
(* What Split, Merge and PlugHoles do to a chain.                          *)

LEMMA HeapSize == /\ heap_end \in Nat /\ mem_size_aligned \in Nat \ {0}
                  /\ SIZEOF_STRUCT_MEM \in Nat \ {0} /\ MIN_SIZE \in Nat \ {0}
                  /\ MaxSize \in Nat \ {0} /\ heap_end > SIZEOF_STRUCT_MEM
BY HeapAssumption DEF heap_end

\* The headers s after the block at p, of h, has been split at q.
IsSplit(h, D, p, q, s) ==
    /\ s \in [D \cup {q} -> Header]
    /\ s[q].next = h[p].next /\ s[q].prev = p /\ ~s[q].used
    /\ s[p].next = q
    /\ h[p].next # heap_end => s[h[p].next].prev = q
    /\ \A x \in D : x # p => s[x].next = h[x].next
    /\ \A x \in D : x # h[p].next \/ x = heap_end => s[x].prev = h[x].prev
    /\ \A x \in D : s[x].used = h[x].used

LEMMA SplitHeaders ==
    ASSUME NEW D, NEW h \in [D -> Header], NEW p \in D, NEW size \in Nat, NEW q, NEW n \in D,
           q = p + SIZEOF_STRUCT_MEM + size, n = h[p].next,
           q \in 0 .. heap_end, p \in 0 .. heap_end, q \notin D, n # p,
           NEW s, s = Split(h, p, size)
    PROVE  IsSplit(h, D, p, q, s)
<1> DEFINE top == [next |-> n, prev |-> p, used |-> FALSE]
           cut == [h EXCEPT ![p].next = q]
           split == With(cut, q, top)
<1>1. s = IF n = heap_end THEN split ELSE [split EXCEPT ![n].prev = q]
  BY DEF Split
<1>2. top \in Header
  BY DEF Header
<1>3. /\ cut \in [D -> Header] /\ cut[p].next = q
      /\ cut[p].prev = h[p].prev /\ cut[p].used = h[p].used
      /\ \A x \in D : x # p => cut[x] = h[x]
  BY DEF Header
<1>4. split = [x \in D \cup {q} |-> IF x = q THEN top ELSE cut[x]]
  BY <1>3 DEF With
<1> HIDE DEF cut, split
<1>5. /\ split \in [D \cup {q} -> Header]
      /\ split[q].next = n /\ split[q].prev = p /\ ~split[q].used
      /\ \A x \in D : split[x] = cut[x]
  BY <1>2, <1>3, <1>4
<1>6. CASE n = heap_end
  BY <1>1, <1>3, <1>5, <1>6 DEF IsSplit
<1>7. CASE n # heap_end
  <2>1. s = [split EXCEPT ![n].prev = q]
    BY <1>1, <1>7
  <2>2. /\ s \in [D \cup {q} -> Header] /\ s[n].prev = q
        /\ s[n].next = split[n].next /\ s[n].used = split[n].used
        /\ \A x \in D \cup {q} : x # n => s[x] = split[x]
    BY <2>1, <1>5 DEF Header
  <2>3. s[q] = split[q] /\ \A x \in D : x # n => s[x] = cut[x]
    BY <2>2, <1>5
  <2>4. s[n].next = h[n].next /\ s[n].used = h[n].used
    BY <2>2, <1>3, <1>5
  <2>5. \A x \in D : x # p => s[x].next = h[x].next
    BY <2>3, <2>4, <1>3
  <2>6. \A x \in D : x # n => s[x].prev = h[x].prev
    BY <2>3, <1>3
  <2>7. \A x \in D : s[x].used = h[x].used
    BY <2>3, <2>4, <1>3
  <2>8. s[q].next = n /\ s[q].prev = p /\ ~s[q].used /\ s[p].next = q
    BY <2>3, <1>3, <1>5
  <2> QED BY <2>2, <2>5, <2>6, <2>7, <2>8, <1>7 DEF IsSplit
<1> QED BY <1>6, <1>7

\* The headers m after the block at q, of h, has become part of the one at p.
IsMerged(h, D, p, q, m) ==
    /\ m \in [D \ {q} -> Header]
    /\ m[p].next = h[q].next /\ m[h[q].next].prev = p
    /\ \A x \in D : x # q /\ x # p => m[x].next = h[x].next
    /\ \A x \in D : x # q /\ x # h[q].next => m[x].prev = h[x].prev
    /\ \A x \in D : x # q => m[x].used = h[x].used

LEMMA MergeHeaders ==
    ASSUME NEW D, NEW h \in [D -> Header], NEW p \in D, NEW q \in D, NEW n \in D,
           n = h[q].next, n # p, n # q, p # q, n \in 0 .. heap_end, p \in 0 .. heap_end,
           NEW m, m = Merge(h, p, q)
    PROVE  IsMerged(h, D, p, q, m)
<1> DEFINE g == [h EXCEPT ![p].next = n, ![n].prev = p]
<1>1. /\ g \in [D -> Header] /\ g[p].next = n /\ g[n].prev = p
      /\ g[p].prev = h[p].prev /\ g[p].used = h[p].used
      /\ g[n].next = h[n].next /\ g[n].used = h[n].used
      /\ \A x \in D : x # p /\ x # n => g[x] = h[x]
  BY DEF Header
<1>2. m = [x \in D \ {q} |-> g[x]]
  BY DEF Merge, Restrict
<1> HIDE DEF g
<1>3. m \in [D \ {q} -> Header] /\ \A x \in D : x # q => m[x] = g[x]
  BY <1>1, <1>2
<1>4. m[p].next = n /\ m[n].prev = p
  BY <1>1, <1>3
<1>5. \A x \in D : x # q /\ x # p => m[x].next = h[x].next
  BY <1>1, <1>3
<1>6. \A x \in D : x # q /\ x # n => m[x].prev = h[x].prev
  BY <1>1, <1>3
<1>7. \A x \in D : x # q => m[x].used = h[x].used
  BY <1>1, <1>3
<1> QED BY <1>3, <1>4, <1>5, <1>6, <1>7 DEF IsMerged

LEMMA SplitChain ==
    ASSUME NEW D, NEW h, Chain(h, D), NEW p \in D, p # heap_end, NEW size \in Nat \ {0}, NEW q,
           q = p + SIZEOF_STRUCT_MEM + size, h[p].next > q + SIZEOF_STRUCT_MEM,
           NEW s, s = Split(h, p, size)
    PROVE  /\ Chain(s, D \cup {q}) /\ q \notin D
           /\ s[p].next = q /\ s[q].next = h[p].next /\ ~s[q].used
           /\ \A x \in D : x # p => s[x].next = h[x].next
           /\ \A x \in D : s[x].used = h[x].used
<1> DEFINE n == h[p].next
<1>1. /\ D \subseteq 0 .. heap_end /\ h \in [D -> Header] /\ n \in D
      /\ \A x \in D : x > p => x >= n
      /\ n # heap_end => h[n].prev = p
      /\ p \in Nat /\ n \in Nat /\ q \in Nat /\ n > q + SIZEOF_STRUCT_MEM /\ q > p + SIZEOF_STRUCT_MEM
      /\ n <= heap_end /\ n > q /\ q > p
      /\ heap_end \in Nat /\ SIZEOF_STRUCT_MEM \in Nat \ {0}
  <2>1. /\ D \subseteq 0 .. heap_end /\ h \in [D -> Header] /\ n \in D
        /\ \A x \in D : x > p => x >= n
        /\ n # heap_end => h[n].prev = p
    BY DEF Chain
  <2> HIDE DEF n
  <2>2. n > q + SIZEOF_STRUCT_MEM
    BY DEF n
  <2> QED BY <2>1, <2>2, HeapSize
<1>2. q \notin D /\ q \in 0 .. heap_end /\ n # p /\ p \in 0 .. heap_end /\ size \in Nat
  BY <1>1
<1> HIDE DEF n
<1>3. /\ s \in [D \cup {q} -> Header]
      /\ s[q].next = n /\ s[q].prev = p /\ ~s[q].used
      /\ s[p].next = q
      /\ n # heap_end => s[n].prev = q
      /\ \A x \in D : x # p => s[x].next = h[x].next
      /\ \A x \in D : x # n \/ n = heap_end => s[x].prev = h[x].prev
      /\ \A x \in D : s[x].used = h[x].used
  <2>1. n = h[p].next
    BY DEF n
  <2>2. h \in [D -> Header] /\ n \in D
    BY <1>1
  <2>3. IsSplit(h, D, p, q, s)
    BY <1>2, <2>1, <2>2, SplitHeaders
  <2> QED BY <2>1, <2>3 DEF IsSplit
<1>4. D \cup {q} \subseteq 0 .. heap_end /\ 0 \in D /\ heap_end \in D
  BY <1>1, <1>2 DEF Chain
<1>5. s[0].prev = 0 /\ s[heap_end].used /\ s[heap_end].next = heap_end
  <2>1. n # 0
    BY <1>1
  <2> QED BY <2>1, <1>1, <1>3, <1>4 DEF Chain
<1>6. ASSUME NEW x \in D \cup {q}, x # heap_end
      PROVE  /\ s[x].next \in D \cup {q} /\ s[x].next > x + SIZEOF_STRUCT_MEM
             /\ \A y \in D \cup {q} : y > x => y >= s[x].next
             /\ s[x].next # heap_end => s[s[x].next].prev = x
  <2>1. CASE x = p
    BY <2>1, <1>1, <1>2, <1>3
  <2>2. CASE x = q
    <3>1. ASSUME NEW y \in D, y > q PROVE y >= n
      <4>1. y > p
        BY <3>1, <1>1
      <4> QED BY <4>1, <1>1
    <3> QED BY <3>1, <2>2, <1>1, <1>2, <1>3
  <2>3. CASE x # p /\ x \in D
    <3>1. /\ h[x].next \in D /\ h[x].next > x + SIZEOF_STRUCT_MEM
          /\ \A y \in D : y > x => y >= h[x].next
          /\ h[x].next # heap_end => h[h[x].next].prev = x
      BY <2>3, <1>6 DEF Chain
    <3>2. s[x].next = h[x].next
      BY <2>3, <1>3
    <3>3. x \in Nat /\ x <= heap_end
      BY <2>3, <1>1
    <3>4. q > x => q >= h[x].next
      <4>1. x > p => x > q
        BY <3>3, <2>3, <1>1
      <4>2. x < p => p >= h[x].next
        BY <3>1, <3>3, <1>1
      <4>3. h[x].next \in Nat
        <5>1. h[x].next \in 0 .. heap_end
          BY <3>1, <1>1
        <5> QED BY <5>1
      <4> QED BY <4>1, <4>2, <4>3, <3>3, <2>3, <1>1
    <3>5. h[x].next # heap_end => h[x].next # n
      BY <3>1, <2>3, <1>1
    <3> QED BY <3>1, <3>2, <3>4, <3>5, <1>3
  <2> QED BY <2>1, <2>2, <2>3
<1>7. ASSUME NEW x \in D \cup {q}, x # heap_end, x # 0
      PROVE  s[x].prev \in D \cup {q} /\ s[x].prev < x /\ s[s[x].prev].next = x
  <2>1. CASE x = n
    BY <2>1, <1>1, <1>2, <1>3, <1>7
  <2>2. CASE x = q
    BY <2>2, <1>1, <1>2, <1>3
  <2>3. CASE x # n /\ x \in D
    <3>1. h[x].prev \in D /\ h[x].prev < x /\ h[h[x].prev].next = x
      BY <2>3, <1>7 DEF Chain
    <3>2. s[x].prev = h[x].prev /\ h[x].prev # p
      BY <3>1, <2>3, <1>3 DEF n
    <3> QED BY <3>1, <3>2, <1>3
  <2> QED BY <2>1, <2>2, <2>3
<1>8. Chain(s, D \cup {q})
  BY <1>3, <1>4, <1>5, <1>6, <1>7 DEF Chain
<1> QED BY <1>2, <1>3, <1>8 DEF n

LEMMA MergeChain ==
    ASSUME NEW D, NEW h, Chain(h, D), NEW p \in D, p # heap_end,
           NEW q, q = h[p].next, q # heap_end, NEW m, m = Merge(h, p, q)
    PROVE  /\ Chain(m, D \ {q}) /\ q \in D /\ q # p /\ h[q].next \in D \ {q}
           /\ m[p].next = h[q].next
           /\ m[p].prev = h[p].prev
           /\ \A x \in D : x # q /\ x # p => m[x].next = h[x].next /\ h[x].next # q
           /\ \A x \in D : x # q => m[x].used = h[x].used
<1> DEFINE n == h[q].next
<1>1. /\ D \subseteq 0 .. heap_end /\ h \in [D -> Header] /\ q \in D /\ n \in D
      /\ \A x \in D : x > p => x >= q
      /\ \A x \in D : x > q => x >= n
      /\ h[q].prev = p /\ (n # heap_end => h[n].prev = q)
      /\ p \in Nat /\ n \in Nat /\ q \in Nat
      /\ n > q + SIZEOF_STRUCT_MEM /\ q > p + SIZEOF_STRUCT_MEM /\ n <= heap_end
      /\ heap_end \in Nat /\ SIZEOF_STRUCT_MEM \in Nat \ {0}
  <2>1. /\ D \subseteq 0 .. heap_end /\ h \in [D -> Header] /\ q \in D
        /\ \A x \in D : x > p => x >= q
        /\ h[q].prev = p /\ q > p + SIZEOF_STRUCT_MEM
    BY DEF Chain
  <2>2. /\ n \in D /\ \A x \in D : x > q => x >= n
        /\ n > q + SIZEOF_STRUCT_MEM /\ (n # heap_end => h[n].prev = q)
    BY <2>1 DEF Chain
  <2> HIDE DEF n
  <2> QED BY <2>1, <2>2, HeapSize
<1>2. n # p /\ n # q /\ p # q /\ n \in 0 .. heap_end /\ p \in 0 .. heap_end
  BY <1>1
<1> HIDE DEF n
<1>3. /\ m \in [D \ {q} -> Header]
      /\ m[p].next = n /\ m[n].prev = p
      /\ \A x \in D : x # q /\ x # p => m[x].next = h[x].next
      /\ \A x \in D : x # q /\ x # n => m[x].prev = h[x].prev
      /\ \A x \in D : x # q => m[x].used = h[x].used
  <2>1. n = h[q].next
    BY DEF n
  <2>2. h \in [D -> Header] /\ n \in D /\ q \in D
    BY <1>1
  <2>3. IsMerged(h, D, p, q, m)
    BY <1>2, <2>1, <2>2, MergeHeaders
  <2> QED BY <2>1, <2>3 DEF IsMerged
<1>4. D \ {q} \subseteq 0 .. heap_end /\ 0 \in D \ {q} /\ heap_end \in D \ {q}
  <2>1. 0 \in D /\ heap_end \in D
    BY DEF Chain
  <2>2. q # 0
    BY <1>1
  <2> QED BY <2>1, <2>2, <1>1
<1>a. h[p].next = q /\ h[q].next = n
  BY DEF n
<1>5. m[0].prev = 0 /\ m[heap_end].used /\ m[heap_end].next = heap_end
  <2>1. n # 0 /\ p # heap_end
    BY <1>1
  <2> QED BY <2>1, <1>1, <1>3, <1>4 DEF Chain
<1>b. ASSUME NEW x \in D, x # q, x # p
      PROVE  h[x].next # q
  <2>1. CASE x = heap_end
    BY <2>1 DEF Chain
  <2>2. CASE x # heap_end
    <3>1. h[x].next # heap_end => h[h[x].next].prev = x
      BY <2>2 DEF Chain
    <3> QED BY <3>1, <1>1, <1>b
  <2> QED BY <2>1, <2>2
<1>6. ASSUME NEW x \in D \ {q}, x # heap_end
      PROVE  /\ m[x].next \in D \ {q} /\ m[x].next > x + SIZEOF_STRUCT_MEM
             /\ \A y \in D \ {q} : y > x => y >= m[x].next
             /\ m[x].next # heap_end => m[m[x].next].prev = x
  <2>1. CASE x = p
    <3>1. ASSUME NEW y \in D \ {q}, y > p PROVE y >= n
      <4>1. y >= q /\ y # q /\ y \in Nat
        BY <3>1, <1>1
      <4>2. y > q
        BY <4>1, <1>1
      <4> QED BY <4>2, <1>1
    <3> QED BY <3>1, <2>1, <1>1, <1>2, <1>3
  <2>2. CASE x # p
    <3>1. /\ h[x].next \in D /\ h[x].next > x + SIZEOF_STRUCT_MEM
          /\ \A y \in D : y > x => y >= h[x].next
          /\ h[x].next # heap_end => h[h[x].next].prev = x
      BY <1>6 DEF Chain
    <3>2. m[x].next = h[x].next /\ h[x].next # q
      BY <2>2, <1>3, <1>b
    <3>3. h[x].next # heap_end => h[x].next # n
      BY <3>1, <2>2, <1>1
    <3> QED BY <3>1, <3>2, <3>3, <1>3
  <2> QED BY <2>1, <2>2
<1>7. ASSUME NEW x \in D \ {q}, x # heap_end, x # 0
      PROVE  m[x].prev \in D \ {q} /\ m[x].prev < x /\ m[m[x].prev].next = x
  <2>1. CASE x = n
    BY <2>1, <1>1, <1>2, <1>3, <1>7
  <2>2. CASE x # n
    <3>1. h[x].prev \in D /\ h[x].prev < x /\ h[h[x].prev].next = x
      BY <1>7 DEF Chain
    <3>2. m[x].prev = h[x].prev /\ h[x].prev # p /\ h[x].prev # q
      BY <3>1, <2>2, <1>3, <1>a
    <3> QED BY <3>1, <3>2, <1>3
  <2> QED BY <2>1, <2>2
<1>8. Chain(m, D \ {q})
  BY <1>3, <1>4, <1>5, <1>6, <1>7 DEF Chain
<1>9. m[p].prev = h[p].prev
  BY <1>2, <1>3
<1>10. \A x \in D : x # q /\ x # p => m[x].next = h[x].next /\ h[x].next # q
  BY <1>3, <1>b
<1> QED BY <1>1, <1>2, <1>3, <1>8, <1>9, <1>10 DEF n

\* The used blocks of h are those of g, and as large.
Kept(h, D, g, C) ==
    /\ C \subseteq D
    /\ \A x \in D : h[x].used => x \in C /\ g[x].used /\ g[x].next = h[x].next
    /\ \A x \in C : g[x].used => h[x].used

\* Only behind the block that ends at p may two free ones be neighbours.
ApartBefore(h, D, p) ==
    \A x \in D : x # heap_end /\ h[x].next # p => h[x].used \/ h[h[x].next].used

LEMMA Joins ==
    ASSUME NEW D, NEW h, Chain(h, D), NEW p \in D, p # heap_end, ~h[p].used,
           NEW q, q = h[p].next, ~h[q].used, q # heap_end,
           NEW low, Start(h, D, low),
           NEW m, m = Merge(h, p, q), NEW l, l = IF low = q THEN p ELSE low
    PROVE  /\ Chain(m, D \ {q}) /\ Start(m, D \ {q}, l) /\ Kept(h, D, m, D \ {q})
           /\ p \in D \ {q} /\ q \in D
           /\ m[p].next = h[q].next /\ m[p].prev = h[p].prev
           /\ h[q].next \in D \ {q}
           /\ \A x \in D : x # q /\ x # p => m[x].next = h[x].next /\ h[x].next # q
           /\ \A x \in D : x # q => m[x].used = h[x].used
<1>1. /\ Chain(m, D \ {q}) /\ q \in D /\ q # p /\ h[q].next \in D \ {q}
      /\ m[p].next = h[q].next
      /\ m[p].prev = h[p].prev
      /\ \A x \in D : x # q /\ x # p => m[x].next = h[x].next /\ h[x].next # q
      /\ \A x \in D : x # q => m[x].used = h[x].used
  BY MergeChain
<1>2. Kept(h, D, m, D \ {q})
  BY <1>1 DEF Kept
<1>3. Start(m, D \ {q}, l)
  <2>1. CASE low = q
    BY <2>1, <1>1 DEF Start
  <2>2. CASE low # q
    <3>1. l = low /\ low \in D \ {q}
      BY <2>2 DEF Start
    <3> QED BY <3>1, <1>1 DEF Start
  <2> QED BY <2>1, <2>2
<1> QED BY <1>1, <1>2, <1>3

LEMMA PlugsForward ==
    ASSUME NEW D, NEW h, Chain(h, D), NEW p \in D, p # heap_end, ~h[p].used,
           ApartBut(h, D, p), NEW low, Start(h, D, low),
           NEW n, n = h[p].next, NEW f,
           f = IF p # n /\ ~h[n].used /\ n # heap_end
               THEN [heap |-> Merge(h, p, n), lfree |-> IF low = n THEN p ELSE low]
               ELSE [heap |-> h, lfree |-> low]
    PROVE  \E C : /\ Chain(f.heap, C) /\ Start(f.heap, C, f.lfree) /\ Kept(h, D, f.heap, C)
                  /\ p \in C /\ ~f.heap[p].used /\ ApartBefore(f.heap, C, p)
<1>1. n \in D /\ n # p
  <2>1. n \in D /\ n > p + SIZEOF_STRUCT_MEM /\ D \subseteq 0 .. heap_end
    BY DEF Chain
  <2>2. p \in Nat /\ n \in Nat
    BY <2>1, HeapSize
  <2> QED BY <2>1, <2>2, HeapSize
<1>2. CASE ~h[n].used /\ n # heap_end
  <2> DEFINE m == Merge(h, p, n)
             l == IF low = n THEN p ELSE low
  <2>1. f.heap = m /\ f.lfree = l
    BY <1>1, <1>2
  <2>2. /\ Chain(m, D \ {n}) /\ Start(m, D \ {n}, l) /\ Kept(h, D, m, D \ {n})
        /\ p \in D \ {n} /\ n \in D
        /\ m[p].next = h[n].next /\ m[p].prev = h[p].prev
        /\ h[n].next \in D \ {n}
        /\ \A x \in D : x # n /\ x # p => m[x].next = h[x].next /\ h[x].next # n
        /\ \A x \in D : x # n => m[x].used = h[x].used
    BY <1>2, Joins
  <2> HIDE DEF m, l
  <2>3. ASSUME NEW x \in D \ {n}, x # heap_end, m[x].next # p
        PROVE  m[x].used \/ m[m[x].next].used
    <3>1. CASE x = p
      <4>1. h[n].next # p /\ n # p
        BY <3>1, <2>2, <2>3, <1>1
      <4>2. h[n].used \/ h[h[n].next].used
        BY <4>1, <1>1, <1>2 DEF ApartBut
      <4> QED BY <3>1, <4>2, <1>2, <2>2
    <3>2. CASE x # p
      <4>1. m[x].next = h[x].next /\ h[x].next # n /\ m[x].used = h[x].used
        BY <3>2, <2>2
      <4>2. h[x].used \/ h[h[x].next].used
        BY <4>1, <3>2, <2>3 DEF ApartBut
      <4>3. h[x].next \in D
        BY <2>3 DEF Chain
      <4> QED BY <4>1, <4>2, <4>3, <2>2
    <3> QED BY <3>1, <3>2
  <2>4. ApartBefore(m, D \ {n}, p) /\ ~m[p].used
    BY <2>2, <2>3 DEF ApartBefore
  <2> QED BY <2>1, <2>2, <2>4
<1>3. CASE ~(~h[n].used /\ n # heap_end)
  <2>1. f.heap = h /\ f.lfree = low
    BY <1>3
  <2>2. h[n].used
    BY <1>3 DEF Chain
  <2>3. ApartBefore(h, D, p)
    BY <2>2 DEF ApartBut, ApartBefore
  <2>4. Kept(h, D, h, D)
    BY DEF Kept
  <2> QED BY <2>1, <2>3, <2>4
<1> QED BY <1>2, <1>3

LEMMA PlugsBackward ==
    ASSUME NEW D, NEW h, Chain(h, D), NEW p \in D, p # heap_end, ~h[p].used,
           ApartBefore(h, D, p), NEW low, Start(h, D, low),
           NEW b, b = h[p].prev, NEW g,
           g = IF b # p /\ ~h[b].used
               THEN [heap |-> Merge(h, b, p), lfree |-> IF low = p THEN b ELSE low]
               ELSE [heap |-> h, lfree |-> low]
    PROVE  \E C : /\ Chain(g.heap, C) /\ Start(g.heap, C, g.lfree) /\ Kept(h, D, g.heap, C)
                  /\ Apart(g.heap, C)
<1>1. p # 0 => b \in D /\ b < p /\ h[b].next = p /\ b # heap_end
  <2>1. p # 0 => b \in D /\ b < p /\ h[b].next = p
    BY DEF Chain
  <2>2. p \in 0 .. heap_end
    BY DEF Chain
  <2> QED BY <2>1, <2>2, HeapSize
<1>2. p = 0 => b = p
  BY DEF Chain
<1>3. CASE b # p /\ ~h[b].used
  <2> DEFINE m == Merge(h, b, p)
             l == IF low = p THEN b ELSE low
  <2>1. g.heap = m /\ g.lfree = l
    BY <1>3
  <2>a. b \in D /\ h[b].next = p /\ b # heap_end
    BY <1>1, <1>2, <1>3
  <2>2. /\ Chain(m, D \ {p}) /\ Start(m, D \ {p}, l) /\ Kept(h, D, m, D \ {p})
        /\ b \in D \ {p} /\ p \in D
        /\ m[b].next = h[p].next
        /\ h[p].next \in D \ {p}
        /\ \A x \in D : x # p /\ x # b => m[x].next = h[x].next /\ h[x].next # p
        /\ \A x \in D : x # p => m[x].used = h[x].used
    BY <1>3, <2>a, Joins
  <2> HIDE DEF m, l
  <2>3. ASSUME NEW x \in D \ {p}, x # heap_end
        PROVE  m[x].used \/ m[m[x].next].used
    <3>1. CASE x = b
      <4>1. h[p].used \/ h[h[p].next].used
        BY <2>2 DEF ApartBefore
      <4> QED BY <3>1, <4>1, <2>2
    <3>2. CASE x # b
      <4>1. m[x].next = h[x].next /\ h[x].next # p /\ m[x].used = h[x].used
        BY <3>2, <2>2
      <4>2. h[x].used \/ h[h[x].next].used
        BY <4>1, <2>3 DEF ApartBefore
      <4>3. h[x].next \in D
        BY <2>3 DEF Chain
      <4> QED BY <4>1, <4>2, <4>3, <2>2
    <3> QED BY <3>1, <3>2
  <2>4. Apart(m, D \ {p})
    BY <2>3 DEF Apart
  <2> QED BY <2>1, <2>2, <2>4
<1>4. CASE ~(b # p /\ ~h[b].used)
  <2>1. g.heap = h /\ g.lfree = low
    BY <1>4
  <2>2. ASSUME NEW x \in D, x # heap_end
        PROVE  h[x].used \/ h[h[x].next].used
    <3>1. CASE h[x].next # p
      BY <2>2, <3>1 DEF ApartBefore
    <3>2. CASE h[x].next = p
      <4>1. h[p].prev = x
        BY <2>2, <3>2 DEF Chain
      <4>2. h[x].next > x + SIZEOF_STRUCT_MEM /\ x \in 0 .. heap_end
        BY <2>2 DEF Chain
      <4>3. x # p
        BY <4>2, <3>2, HeapSize
      <4> QED BY <4>1, <4>3, <1>4
    <3> QED BY <3>1, <3>2
  <2>3. Apart(h, D) /\ Kept(h, D, h, D)
    BY <2>2 DEF Apart, Kept
  <2> QED BY <2>1, <2>3
<1> QED BY <1>3, <1>4

\* plug_holes, of a block that has just become free
LEMMA Plugs ==
    ASSUME NEW D, NEW h, Chain(h, D), NEW p \in D, p # heap_end, ~h[p].used,
           ApartBut(h, D, p), NEW low, Start(h, D, low),
           NEW g, g = PlugHoles(h, low, p)
    PROVE  \E C : /\ Chain(g.heap, C) /\ Start(g.heap, C, g.lfree) /\ Kept(h, D, g.heap, C)
                  /\ Apart(g.heap, C)
<1>0. PICK n, f :
         /\ n = h[p].next
         /\ f = IF p # n /\ ~h[n].used /\ n # heap_end
                THEN [heap |-> Merge(h, p, n), lfree |-> IF low = n THEN p ELSE low]
                ELSE [heap |-> h, lfree |-> low]
  OBVIOUS
<1>1. PICK C : /\ Chain(f.heap, C) /\ Start(f.heap, C, f.lfree) /\ Kept(h, D, f.heap, C)
               /\ p \in C /\ ~f.heap[p].used /\ ApartBefore(f.heap, C, p)
  BY <1>0, PlugsForward
<1>2. g = IF f.heap[p].prev # p /\ ~f.heap[f.heap[p].prev].used
          THEN [heap |-> Merge(f.heap, f.heap[p].prev, p),
                lfree |-> IF f.lfree = p THEN f.heap[p].prev ELSE f.lfree]
          ELSE [heap |-> f.heap, lfree |-> f.lfree]
  <2>1. f = [heap |-> f.heap, lfree |-> f.lfree]
    BY <1>0
  <2> QED BY <1>0, <2>1 DEF PlugHoles
<1>a. PICK k, l, b : k = f.heap /\ l = f.lfree /\ b = k[p].prev
  OBVIOUS
<1>b. g = IF b # p /\ ~k[b].used
          THEN [heap |-> Merge(k, b, p), lfree |-> IF l = p THEN b ELSE l]
          ELSE [heap |-> k, lfree |-> l]
  BY <1>2, <1>a
<1>c. /\ Chain(k, C) /\ Start(k, C, l) /\ p \in C /\ ~k[p].used /\ ApartBefore(k, C, p)
  BY <1>1, <1>a
<1>3. PICK B : /\ Chain(g.heap, B) /\ Start(g.heap, B, g.lfree) /\ Kept(k, C, g.heap, B)
               /\ Apart(g.heap, B)
  BY <1>a, <1>b, <1>c, PlugsBackward
<1>4. Kept(h, D, g.heap, B)
  BY <1>1, <1>3, <1>a DEF Kept
<1> QED BY <1>3, <1>4

\* g is h but for the flag of the block at p.
IsMarked(h, D, p, g) ==
    /\ g \in [D -> Header]
    /\ g[p].next = h[p].next /\ g[p].prev = h[p].prev
    /\ \A x \in D : x # p => g[x] = h[x]

LEMMA Marks ==
    ASSUME NEW D, NEW h, Chain(h, D), NEW p \in D, p # heap_end, NEW g, IsMarked(h, D, p, g)
    PROVE  /\ Chain(g, D)
           /\ \A x \in D : g[x].next = h[x].next
           /\ \A x \in D : x # p => g[x].used = h[x].used
<1>1. /\ D \subseteq 0 .. heap_end /\ 0 \in D /\ heap_end \in D
      /\ h[0].prev = 0 /\ h[heap_end].next = heap_end /\ h[heap_end].used
  BY DEF Chain
<1>2. \A x \in D : g[x].next = h[x].next /\ g[x].prev = h[x].prev
  BY DEF IsMarked
<1>3. \A x \in D : x # p => g[x].used = h[x].used
  BY DEF IsMarked
<1>4. ASSUME NEW x \in D, x # heap_end
      PROVE  /\ g[x].next \in D /\ g[x].next > x + SIZEOF_STRUCT_MEM
             /\ \A q \in D : q > x => q >= g[x].next
             /\ g[x].next # heap_end => g[g[x].next].prev = x
  <2>1. /\ h[x].next \in D /\ h[x].next > x + SIZEOF_STRUCT_MEM
        /\ \A q \in D : q > x => q >= h[x].next
        /\ h[x].next # heap_end => h[h[x].next].prev = x
    BY <1>4 DEF Chain
  <2> QED BY <2>1, <1>2
<1>5. ASSUME NEW x \in D, x # heap_end, x # 0
      PROVE  g[x].prev \in D /\ g[x].prev < x /\ g[g[x].prev].next = x
  <2>1. h[x].prev \in D /\ h[x].prev < x /\ h[h[x].prev].next = x
    BY <1>5 DEF Chain
  <2> QED BY <2>1, <1>2
<1>6. g[0].prev = 0 /\ g[heap_end].next = heap_end /\ g[heap_end].used
  BY <1>1, <1>2, <1>3
<1>7. g \in [D -> Header]
  BY DEF IsMarked
<1>8. Chain(g, D)
  BY <1>1, <1>4, <1>5, <1>6, <1>7 DEF Chain
<1> QED BY <1>2, <1>3, <1>8

Marked(h, p, size) ==
    [(IF Room(h, p) >= size + SIZEOF_STRUCT_MEM + MIN_SIZE
      THEN Split(h, p, size) ELSE h) EXCEPT ![p].used = TRUE]

Unmarked(h, p) == [h EXCEPT ![p].used = FALSE]

\* rt_malloc takes the free block at p, all of it or its beginning.
LEMMA TakesBlock ==
    ASSUME NEW D, NEW h, Chain(h, D), Apart(h, D), NEW p \in D, ~h[p].used,
           NEW size \in Nat \ {0}, Room(h, p) >= size,
           NEW g, g = Marked(h, p, size)
    PROVE  \E C : /\ Chain(g, C) /\ Apart(g, C) /\ D \subseteq C
                  /\ g[p].used /\ Room(g, p) >= size
                  /\ \A x \in D : x # p => g[x].used = h[x].used /\ g[x].next = h[x].next
                  /\ \A x \in C : g[x].used => x \in D
<1>1. p # heap_end /\ D \subseteq 0 .. heap_end /\ h[p].next \in D
  BY DEF Chain
<1>2. p \in Nat /\ h[p].next \in Nat
  <2>1. p \in 0 .. heap_end /\ h[p].next \in 0 .. heap_end
    BY <1>1
  <2> QED BY <2>1
<1>3. h[h[p].next].used
  BY <1>1 DEF Apart
<1>4. CASE Room(h, p) >= size + SIZEOF_STRUCT_MEM + MIN_SIZE
  <2>1. PICK q, s : q = p + SIZEOF_STRUCT_MEM + size /\ s = Split(h, p, size)
    OBVIOUS
  <2>2. h[p].next > q + SIZEOF_STRUCT_MEM
    BY <1>2, <1>4, <2>1, HeapSize DEF Room
  <2>3. /\ Chain(s, D \cup {q}) /\ q \notin D
        /\ s[p].next = q /\ s[q].next = h[p].next /\ ~s[q].used
        /\ \A x \in D : x # p => s[x].next = h[x].next
        /\ \A x \in D : s[x].used = h[x].used
    BY <2>1, <2>2, <1>1, SplitChain
  <2>4. g = [s EXCEPT ![p].used = TRUE]
    BY <1>4, <2>1 DEF Marked
  <2>5. /\ Chain(g, D \cup {q}) /\ g[p].used
        /\ \A x \in D \cup {q} : g[x].next = s[x].next
        /\ \A x \in D \cup {q} : x # p => g[x].used = s[x].used
    <3>1. p \in D \cup {q} /\ s \in [D \cup {q} -> Header]
      BY <2>3 DEF Chain
    <3>2. IsMarked(s, D \cup {q}, p, g) /\ g[p].used
      BY ONLY <3>1, <2>4 DEF IsMarked, Header
    <3> QED BY ONLY <3>1, <3>2, <2>3, <1>1, Marks
  <2>6. Room(g, p) >= size
    BY <2>1, <2>3, <2>5, <1>2, HeapSize DEF Room
  <2>7. ASSUME NEW x \in D \cup {q}, x # heap_end
        PROVE  g[x].used \/ g[g[x].next].used
    <3>1. CASE x = p
      BY <3>1, <2>5
    <3>2. CASE x = q
      <4>1. g[x].next = h[p].next
        BY <3>2, <2>3, <2>5
      <4>2. h[p].next # p
        BY <2>2, <2>1, <1>2, HeapSize
      <4> QED BY <4>1, <4>2, <1>1, <1>3, <2>3, <2>5
    <3>3. CASE x \in D /\ x # p
      <4>1. g[x].next = h[x].next /\ g[x].used = h[x].used
        BY <3>3, <2>3, <2>5
      <4>2. h[x].used \/ h[h[x].next].used
        BY <3>3, <2>7 DEF Apart
      <4>3. h[x].next \in D
        BY <3>3, <2>7 DEF Chain
      <4>4. h[h[x].next].used => g[h[x].next].used
        BY <4>3, <2>3, <2>5
      <4> QED BY <4>1, <4>2, <4>4
    <3> QED BY <3>1, <3>2, <3>3
  <2>8. Apart(g, D \cup {q})
    BY <2>7 DEF Apart
  <2>9. \A x \in D \cup {q} : g[x].used => x \in D
    BY <2>3, <2>5
  <2>10. \A x \in D : x # p => g[x].used = h[x].used /\ g[x].next = h[x].next
    BY <2>3, <2>5
  <2> QED BY <2>5, <2>6, <2>8, <2>9, <2>10
<1>5. CASE ~(Room(h, p) >= size + SIZEOF_STRUCT_MEM + MIN_SIZE)
  <2>4. g = [h EXCEPT ![p].used = TRUE]
    BY <1>5 DEF Marked
  <2>5. /\ Chain(g, D) /\ g[p].used
        /\ \A x \in D : g[x].next = h[x].next
        /\ \A x \in D : x # p => g[x].used = h[x].used
    <3>1. h \in [D -> Header]
      BY DEF Chain
    <3>2. IsMarked(h, D, p, g) /\ g[p].used
      BY ONLY <3>1, <2>4, p \in D DEF IsMarked, Header
    <3> QED BY ONLY <3>2, <1>1, Chain(h, D), p \in D, Marks
  <2>6. Room(g, p) >= size
    BY <2>5 DEF Room
  <2>7. ASSUME NEW x \in D, x # heap_end
        PROVE  g[x].used \/ g[g[x].next].used
    <3>1. h[x].used \/ h[h[x].next].used
      BY <2>7 DEF Apart
    <3>2. h[x].next \in D
      BY <2>7 DEF Chain
    <3> QED BY <3>1, <3>2, <2>5
  <2>8. Apart(g, D)
    BY <2>7 DEF Apart
  <2> QED BY <2>5, <2>6, <2>8
<1> QED BY <1>4, <1>5

\* rt_free gives the used block at p back and joins it to its neighbours.
LEMMA GivesBlock ==
    ASSUME NEW D, NEW h, Chain(h, D), Apart(h, D), NEW p \in D, p # heap_end, h[p].used,
           NEW low, Start(h, D, low),
           NEW l, l = low \/ l = p, NEW g, g = PlugHoles(Unmarked(h, p), l, p)
    PROVE  \E C : /\ Chain(g.heap, C) /\ Start(g.heap, C, g.lfree) /\ Apart(g.heap, C)
                  /\ \A x \in D : x # p /\ h[x].used =>
                        x \in C /\ g.heap[x].used /\ g.heap[x].next = h[x].next
                  /\ \A x \in C : g.heap[x].used => x \in D /\ x # p /\ h[x].used
<1>1. PICK k : k = Unmarked(h, p)
  OBVIOUS
<1>2. /\ Chain(k, D) /\ ~k[p].used
      /\ \A x \in D : k[x].next = h[x].next
      /\ \A x \in D : x # p => k[x].used = h[x].used
  <2>1. h \in [D -> Header]
    BY DEF Chain
  <2>2. IsMarked(h, D, p, k) /\ ~k[p].used
    BY <2>1, <1>1 DEF IsMarked, Header, Unmarked
  <2> QED BY <2>2, Marks
<1>4. Start(k, D, l)
  BY <1>2 DEF Start
<1>5. ApartBut(k, D, p)
  <2> SUFFICES ASSUME NEW x \in D, x # heap_end, x # p, k[x].next # p
               PROVE  k[x].used \/ k[k[x].next].used
    BY DEF ApartBut
  <2>1. h[x].used \/ h[h[x].next].used
    BY DEF Apart
  <2>2. h[x].next \in D
    BY DEF Chain
  <2> QED BY <2>1, <2>2, <1>2
<1>6. PICK C : /\ Chain(g.heap, C) /\ Start(g.heap, C, g.lfree) /\ Kept(k, D, g.heap, C)
               /\ Apart(g.heap, C)
  BY <1>1, <1>2, <1>4, <1>5, Plugs
<1> QED BY <1>2, <1>6 DEF Kept

\* rt_realloc keeps the beginning of the used block at p.
LEMMA CutsBlock ==
    ASSUME NEW D, NEW h, Chain(h, D), Apart(h, D), NEW p \in D, p # heap_end, h[p].used,
           NEW low, Start(h, D, low),
           NEW size \in Nat \ {0}, size + SIZEOF_STRUCT_MEM + MIN_SIZE < Room(h, p),
           NEW q, q = p + SIZEOF_STRUCT_MEM + size,
           NEW g, g = PlugHoles(Split(h, p, size), low, q)
    PROVE  \E C : /\ Chain(g.heap, C) /\ Start(g.heap, C, g.lfree) /\ Apart(g.heap, C)
                  /\ p \in C /\ g.heap[p].used /\ g.heap[p].next = q
                  /\ \A x \in D : x # p /\ h[x].used =>
                        x \in C /\ g.heap[x].used /\ g.heap[x].next = h[x].next
                  /\ \A x \in C : g.heap[x].used => x \in D /\ h[x].used
<1>1. PICK s : s = Split(h, p, size)
  OBVIOUS
<1>2. h[p].next > q + SIZEOF_STRUCT_MEM
  <2>1. p \in 0 .. heap_end /\ h[p].next \in 0 .. heap_end
    BY DEF Chain
  <2> QED BY <2>1, HeapSize DEF Room
<1>3. /\ Chain(s, D \cup {q}) /\ q \notin D
      /\ s[p].next = q /\ s[q].next = h[p].next /\ ~s[q].used
      /\ \A x \in D : x # p => s[x].next = h[x].next
      /\ \A x \in D : s[x].used = h[x].used
  BY <1>1, <1>2, SplitChain
<1>4. Start(s, D \cup {q}, low)
  BY <1>3 DEF Start
<1>5. ApartBut(s, D \cup {q}, q)
  <2> SUFFICES ASSUME NEW x \in D, x # heap_end, s[x].next # q
               PROVE  s[x].used \/ s[s[x].next].used
    BY DEF ApartBut
  <2>1. h[x].used \/ h[h[x].next].used
    BY DEF Apart
  <2>2. h[x].next \in D
    BY DEF Chain
  <2> QED BY <2>1, <2>2, <1>3
<1>6. PICK C : /\ Chain(g.heap, C) /\ Start(g.heap, C, g.lfree)
               /\ Kept(s, D \cup {q}, g.heap, C) /\ Apart(g.heap, C)
  <2>1. q \in D \cup {q} /\ q # heap_end
    BY <1>3 DEF Chain
  <2> QED BY <1>1, <1>3, <1>4, <1>5, <2>1, Plugs
<1> QED BY <1>3, <1>6 DEF Kept

-----------------------------------------------------------------------------
(* The memory that the requests R take in h.                               *)

Taken(h, R) == UNION {Units(h, r) : r \in R}

LEMMA TakenBy ==
    ASSUME NEW h, NEW R, NEW u
    PROVE  u \in Taken(h, R) <=> \E r \in R : u \in Units(h, r)
BY DEF Taken

LEMMA SameTaken ==
    ASSUME NEW h, NEW g, NEW R, \A r \in R : g[r.at].next = h[r.at].next
    PROVE  Taken(g, R) = Taken(h, R)
<1>1. \A r \in R : Units(g, r) = Units(h, r)
  BY DEF Units
<1> QED BY <1>1 DEF Taken

\* A request is met by units of its own.
LEMMA OwnUnits ==
    ASSUME NEW D, NEW h, Chain(h, D), NEW R, Met(h, D, R), NEW r \in R
    PROVE  /\ r.at \in Nat /\ h[r.at].next \in Nat /\ h[r.at].next > r.at
           /\ h[r.at].next <= heap_end
           /\ \A s \in R : s # r => Units(h, s) \cap Units(h, r) = {}
<1>1. ASSUME NEW s \in R
      PROVE  /\ s.at \in D /\ s.at \in 0 .. heap_end /\ h[s.at].next \in 0 .. heap_end
             /\ h[s.at].next > s.at + SIZEOF_STRUCT_MEM
             /\ \A q \in D : q > s.at => q >= h[s.at].next
  <2>1. s.at \in D /\ s.at # heap_end
    BY DEF Met
  <2> QED BY <2>1 DEF Chain
<1>2. ASSUME NEW s \in R
      PROVE  s.at \in Nat /\ h[s.at].next \in Nat /\ h[s.at].next > s.at /\ h[s.at].next <= heap_end
  <2>1. /\ s.at \in 0 .. heap_end /\ h[s.at].next \in 0 .. heap_end
        /\ h[s.at].next > s.at + SIZEOF_STRUCT_MEM
    BY <1>1
  <2> QED BY <2>1, HeapSize
<1>3. ASSUME NEW s \in R, s # r
      PROVE  Units(h, s) \cap Units(h, r) = {}
  <2>1. s.at # r.at
    BY <1>3 DEF Met
  <2>2. \/ s.at > r.at /\ s.at >= h[r.at].next
        \/ r.at > s.at /\ r.at >= h[s.at].next
    <3>1. s.at > r.at \/ r.at > s.at
      BY <2>1, <1>2
    <3>2. s.at \in D /\ r.at \in D
      BY <1>1
    <3> QED BY <3>1, <3>2, <1>1
  <2>3. /\ s.at \in Nat /\ h[s.at].next \in Nat /\ r.at \in Nat /\ h[r.at].next \in Nat
    BY <1>2
  <2> QED BY <2>2, <2>3 DEF Units
<1> QED BY <1>2, <1>3

\* What one request takes is counted once.
LEMMA CountOne ==
    ASSUME NEW D, NEW h, Chain(h, D), NEW R, Met(h, D, R)
    PROVE  /\ IsFiniteSet(Taken(h, R)) /\ Cardinality(Taken(h, R)) \in 0 .. heap_end
           /\ \A r \in R : Cardinality(Taken(h, R)) =
                 Cardinality(Taken(h, R \ {r})) + (h[r.at].next - r.at)
<1>1. Taken(h, R) \subseteq 0 .. heap_end - 1
  <2> SUFFICES ASSUME NEW r \in R, NEW u \in Units(h, r) PROVE u \in 0 .. heap_end - 1
    BY TakenBy
  <2>1. /\ r.at \in Nat /\ h[r.at].next \in Nat /\ h[r.at].next <= heap_end
    BY OwnUnits
  <2> QED BY <2>1, HeapSize DEF Units
<1>2. IsFiniteSet(0 .. heap_end - 1) /\ Cardinality(0 .. heap_end - 1) = heap_end
  BY FS_Interval, HeapSize
<1>3. IsFiniteSet(Taken(h, R)) /\ Cardinality(Taken(h, R)) <= heap_end
  BY <1>1, <1>2, FS_Subset
<1>4. Cardinality(Taken(h, R)) \in Nat
  BY <1>3, FS_CardinalityType
<1>5. ASSUME NEW r \in R
      PROVE  Cardinality(Taken(h, R)) = Cardinality(Taken(h, R \ {r})) + (h[r.at].next - r.at)
  <2>1. /\ r.at \in Nat /\ h[r.at].next \in Nat /\ h[r.at].next > r.at
        /\ \A s \in R : s # r => Units(h, s) \cap Units(h, r) = {}
    BY OwnUnits
  <2>2. Taken(h, R) = Taken(h, R \ {r}) \cup Units(h, r)
    BY DEF Taken
  <2>3. Taken(h, R \ {r}) \cap Units(h, r) = {}
    BY <2>1 DEF Taken
  <2>4. IsFiniteSet(Taken(h, R \ {r})) /\ IsFiniteSet(Units(h, r))
    BY <1>3, <2>2, FS_Subset
  <2>5. Cardinality(Units(h, r)) = h[r.at].next - r.at
    <3>1. r.at \in Int /\ h[r.at].next - 1 \in Int
      BY <2>1
    <3>2. Cardinality(r.at .. h[r.at].next - 1) =
             IF r.at > h[r.at].next - 1 THEN 0 ELSE h[r.at].next - 1 - r.at + 1
      BY <3>1, FS_Interval
    <3> QED BY <2>1, <3>2 DEF Units
  <2>6. Cardinality(Taken(h, R)) = Cardinality(Taken(h, R \ {r})) + Cardinality(Units(h, r))
                                   - Cardinality({})
    BY <2>2, <2>3, <2>4, FS_Union
  <2>7. Cardinality({}) = 0 /\ Cardinality(Taken(h, R \ {r})) \in Nat
    BY <2>4, FS_EmptySet, FS_CardinalityType
  <2> QED BY <2>1, <2>5, <2>6, <2>7
<1> QED BY <1>3, <1>4, <1>5, HeapSize

-----------------------------------------------------------------------------
(* The steps.                                                              *)

Counted(h, R, n) == n = Cardinality(Taken(h, R))

LEMMA AllocatesWell ==
    ASSUME Good(heap, DOMAIN heap, lfree, live), Counted(heap, live, used_mem),
           NEW size \in 1 .. MaxSize, Fitting(Needed(size)) # {},
           NEW p, p = Min(Fitting(Needed(size))), Allocated(p, Needed(size)),
           NEW r, r = [at |-> p, size |-> size], live' = live \cup {r}
    PROVE  Good(heap', DOMAIN heap', lfree', live') /\ Counted(heap', live', used_mem')
<1>1. PICK h, D, k, g : h = heap /\ D = DOMAIN heap /\ k = Needed(size) /\ g = heap'
  OBVIOUS
<1>2. Chain(h, D) /\ Apart(h, D) /\ Start(h, D, lfree) /\ Met(h, D, live)
  BY <1>1 DEF Good
<1>3. k \in Nat \ {0} /\ size <= k /\ size \in Nat
  BY <1>1, HeapSize DEF Needed
<1>4. p \in D /\ ~h[p].used /\ Room(h, p) >= k
  <2>1. D \subseteq 0 .. heap_end
    BY <1>2 DEF Chain
  <2>2. Fitting(k) \in SUBSET Nat /\ Fitting(k) # {}
    BY <2>1, <1>1 DEF Fitting
  <2>3. Min(Fitting(k)) \in Fitting(k)
    BY ONLY <2>2, LeastPlace
  <2> QED BY <2>3, <1>1 DEF Fitting
<1>5. /\ g = Marked(h, p, k)
      /\ lfree' = IF p # lfree THEN lfree
                  ELSE Min({q \in DOMAIN g : q >= p /\ (~g[q].used \/ q = heap_end)})
      /\ used_mem' = used_mem + (g[p].next - p)
  BY <1>1 DEF Allocated, Marked
<1>6. PICK C : /\ Chain(g, C) /\ Apart(g, C) /\ D \subseteq C
               /\ g[p].used /\ Room(g, p) >= k
               /\ \A x \in D : x # p => g[x].used = h[x].used /\ g[x].next = h[x].next
               /\ \A x \in C : g[x].used => x \in D
  BY <1>2, <1>3, <1>4, <1>5, TakesBlock
<1>7. DOMAIN g = C /\ C \subseteq 0 .. heap_end /\ heap_end \in C
  BY <1>6 DEF Chain
<1>8. Start(g, C, lfree')
  <2>1. CASE p # lfree
    <3>1. lfree' = lfree
      BY <2>1, <1>5
    <3> QED BY <3>1, <2>1, <1>2, <1>6 DEF Start
  <2>2. CASE p = lfree
    <3> DEFINE Q == {q \in DOMAIN g : q >= p /\ (~g[q].used \/ q = heap_end)}
    <3>1. p \in 0 .. heap_end
      BY <1>2, <1>4 DEF Chain
    <3>2. Q \in SUBSET Nat /\ Q # {}
      <4>1. heap_end \in Q
        BY <3>1, <1>7, HeapSize
      <4>2. Q \subseteq C
        BY <1>7
      <4> HIDE DEF Q
      <4> QED BY <4>1, <4>2, <1>7
    <3> HIDE DEF Q
    <3>3. Min(Q) \in Q
      BY ONLY <3>2, LeastPlace
    <3>4. lfree' = Min(Q)
      BY <2>2, <1>5 DEF Q
    <3> QED BY <3>3, <3>4, <1>7 DEF Q, Start
  <2> QED BY <2>1, <2>2
<1>9. p # heap_end /\ p \in 0 .. heap_end /\ g[p].next \in 0 .. heap_end
  BY <1>2, <1>4, <1>6 DEF Chain
<1>10. \A s \in live : s.at \in D /\ s.at # p
  BY <1>2, <1>4 DEF Met
<1>11. Met(g, C, live')
  <2>1. live' \subseteq [at : 0 .. heap_end, size : 1 .. MaxSize]
    BY <1>2, <1>9 DEF Met
  <2>2. ASSUME NEW s \in live'
        PROVE  /\ s.at \in C /\ s.at # heap_end /\ g[s.at].used
               /\ s.size <= g[s.at].next - (s.at + SIZEOF_STRUCT_MEM)
    <3>1. CASE s = r
      <4>1. size <= g[p].next - (p + SIZEOF_STRUCT_MEM)
        <5>1. Room(g, p) \in Int
          BY <1>9, HeapSize DEF Room
        <5>2. size <= Room(g, p)
          BY <5>1, <1>3, <1>6
        <5> QED BY <5>2 DEF Room
      <4> QED BY <3>1, <4>1, <1>4, <1>6, <1>9
    <3>2. CASE s \in live
      <4>1. /\ s.at \in D /\ s.at # heap_end /\ h[s.at].used
            /\ s.size <= h[s.at].next - (s.at + SIZEOF_STRUCT_MEM)
        BY <3>2, <1>2 DEF Met
      <4>2. s.at # p
        BY <3>2, <1>10
      <4> QED BY <4>1, <4>2, <1>6
    <3> QED BY <3>1, <3>2
  <2>3. ASSUME NEW s \in live', NEW t \in live', s.at = t.at
        PROVE  s = t
    <3>1. \A x, y \in live : x.at = y.at => x = y
      BY <1>2 DEF Met
    <3> QED BY <2>3, <3>1, <1>10
  <2>4. ASSUME NEW x \in C, x # heap_end, g[x].used
        PROVE  \E s \in live' : s.at = x
    <3>1. CASE x = p
      BY <3>1
    <3>2. CASE x # p
      <4>1. x \in D /\ h[x].used
        BY <3>2, <2>4, <1>6
      <4>2. PICK s \in live : s.at = x
        BY <4>1, <2>4, <1>2 DEF Met
      <4> QED BY <4>2
    <3> QED BY <3>1, <3>2
  <2> QED BY <2>1, <2>2, <2>3, <2>4 DEF Met
<1>12. used_mem' = Cardinality(Taken(g, live'))
  <2>1. r \notin live /\ r \in live' /\ live' \ {r} = live /\ r.at = p
    BY <1>10
  <2>2. Cardinality(Taken(g, live')) = Cardinality(Taken(g, live)) + (g[p].next - p)
    <3>1. PICK R : R = live'
      OBVIOUS
    <3>2. Cardinality(Taken(g, R)) = Cardinality(Taken(g, R \ {r})) + (g[r.at].next - r.at)
      BY <3>1, <2>1, <1>6, <1>11, CountOne
    <3> QED BY <3>1, <3>2, <2>1
  <2>3. \A s \in live : g[s.at].next = h[s.at].next
    BY <1>6, <1>10
  <2>4. Taken(g, live) = Taken(h, live)
    BY <2>3, SameTaken
  <2> QED BY <2>2, <2>4, <1>1, <1>5 DEF Counted
<1> QED BY <1>1, <1>6, <1>7, <1>8, <1>11, <1>12 DEF Good, Counted

LEMMA FreesWell ==
    ASSUME Good(heap, DOMAIN heap, lfree, live), Counted(heap, live, used_mem),
           NEW r \in live, Freed(r.at), live' = live \ {r}
    PROVE  Good(heap', DOMAIN heap', lfree', live') /\ Counted(heap', live', used_mem')
<1>1. PICK h, D, p, g, R : /\ h = heap /\ D = DOMAIN heap /\ p = r.at /\ R = live'
                           /\ g = PlugHoles(Unmarked(heap, r.at), Min({lfree, r.at}), r.at)
  OBVIOUS
<1>2. Chain(h, D) /\ Apart(h, D) /\ Start(h, D, lfree) /\ Met(h, D, live)
  BY <1>1 DEF Good
<1>3. p \in D /\ p # heap_end /\ h[p].used
  BY <1>1, <1>2 DEF Met
<1>4. heap' = g.heap /\ lfree' = g.lfree /\ used_mem' = used_mem - (h[p].next - p)
  BY <1>1 DEF Freed, Unmarked
<1>5. PICK C : /\ Chain(g.heap, C) /\ Start(g.heap, C, g.lfree) /\ Apart(g.heap, C)
               /\ \A x \in D : x # p /\ h[x].used =>
                     x \in C /\ g.heap[x].used /\ g.heap[x].next = h[x].next
               /\ \A x \in C : g.heap[x].used => x \in D /\ x # p /\ h[x].used
  <2>1. PICK low : low = lfree
    OBVIOUS
  <2>2. PICK l : l = Min({low, p})
    OBVIOUS
  <2>3. low \in 0 .. heap_end /\ p \in 0 .. heap_end
    BY <2>1, <1>2, <1>3 DEF Start, Chain
  <2>4. {low, p} \in SUBSET Nat /\ {low, p} # {}
    BY <2>3
  <2>5. Min({low, p}) \in {low, p}
    BY ONLY <2>4, LeastPlace
  <2>6. g = PlugHoles(Unmarked(h, p), l, p) /\ Start(h, D, low) /\ (l = low \/ l = p)
    BY <2>1, <2>2, <2>5, <1>1, <1>2
  <2> QED BY ONLY <2>6, <1>2, <1>3, GivesBlock
<1>6. DOMAIN g.heap = C
  BY <1>5 DEF Chain
<1>7. R = live \ {r} /\ R \subseteq live
  BY <1>1
<1>8. \A s \in R : s.at \in D /\ s.at # p /\ h[s.at].used
  BY <1>1, <1>2, <1>7 DEF Met
<1>9. Met(g.heap, C, R)
  <2>1. R \subseteq [at : 0 .. heap_end, size : 1 .. MaxSize]
    BY <1>2, <1>7 DEF Met
  <2>2. ASSUME NEW s \in R
        PROVE  /\ s.at \in C /\ s.at # heap_end /\ g.heap[s.at].used
               /\ s.size <= g.heap[s.at].next - (s.at + SIZEOF_STRUCT_MEM)
    <3>1. s.at # heap_end /\ s.size <= h[s.at].next - (s.at + SIZEOF_STRUCT_MEM)
      BY <1>2, <1>7 DEF Met
    <3> QED BY <3>1, <1>5, <1>8
  <2>3. \A s, t \in R : s.at = t.at => s = t
    BY <1>2, <1>7 DEF Met
  <2>4. ASSUME NEW x \in C, x # heap_end, g.heap[x].used
        PROVE  \E s \in R : s.at = x
    <3>1. x \in D /\ x # p /\ h[x].used
      BY <2>4, <1>5
    <3>2. PICK s \in live : s.at = x
      BY <3>1, <2>4, <1>2 DEF Met
    <3> QED BY <3>1, <3>2, <1>1, <1>7
  <2> QED BY <2>1, <2>2, <2>3, <2>4 DEF Met
<1>10. used_mem' = Cardinality(Taken(g.heap, R))
  <2>1. /\ Cardinality(Taken(h, live)) \in 0 .. heap_end
        /\ Cardinality(Taken(h, live)) = Cardinality(Taken(h, live \ {r})) + (h[r.at].next - r.at)
    BY <1>2, CountOne
  <2>2. Taken(g.heap, R) = Taken(h, R)
    <3>1. \A s \in R : g.heap[s.at].next = h[s.at].next
      BY <1>5, <1>8
    <3> QED BY <3>1, SameTaken
  <2>3. used_mem = Cardinality(Taken(h, live))
    BY <1>1 DEF Counted
  <2>4. p \in Nat /\ h[p].next \in Nat
    BY <1>1, <1>2, OwnUnits
  <2>5. Cardinality(Taken(h, R)) \in Nat
    <3>1. PICK k : k = g.heap
      OBVIOUS
    <3>2. Cardinality(Taken(k, R)) \in 0 .. heap_end
      BY <3>1, <1>5, <1>9, CountOne
    <3> QED BY <3>1, <3>2, <2>2
  <2> QED BY <2>1, <2>2, <2>3, <2>4, <2>5, <1>1, <1>4, <1>7
<1> QED BY <1>1, <1>4, <1>5, <1>6, <1>9, <1>10 DEF Good, Counted

\* The caller of the request r has another size instead, in the block where it was.
LEMMA ResizesWell ==
    ASSUME NEW D, NEW h, Chain(h, D), NEW R, Met(h, D, R), NEW r \in R,
           NEW C, NEW g, Chain(g, C),
           \A x \in D : x # r.at /\ h[x].used => x \in C /\ g[x].used /\ g[x].next = h[x].next,
           \A x \in C : g[x].used => x \in D /\ h[x].used,
           r.at \in C, g[r.at].used,
           NEW size \in 1 .. MaxSize, size <= Room(g, r.at),
           NEW s, s = [at |-> r.at, size |-> size], NEW S, S = (R \ {r}) \cup {s}
    PROVE  /\ Met(g, C, S)
           /\ Cardinality(Taken(g, S)) =
                 Cardinality(Taken(h, R)) - (h[r.at].next - r.at) + (g[r.at].next - r.at)
<1>1. s.at = r.at /\ s.size = size /\ s \in S
  OBVIOUS
<1>2. /\ R \subseteq [at : 0 .. heap_end, size : 1 .. MaxSize]
      /\ \A u \in R : /\ u.at \in D /\ u.at # heap_end /\ h[u.at].used
                      /\ u.size <= h[u.at].next - (u.at + SIZEOF_STRUCT_MEM)
      /\ \A u, v \in R : u.at = v.at => u = v
      /\ \A p \in D : p # heap_end /\ h[p].used => \E u \in R : u.at = p
  BY DEF Met
<1>3. \A u \in R \ {r} : u.at # r.at
  BY <1>2
<1>4. Met(g, C, S)
  <2>1. S \subseteq [at : 0 .. heap_end, size : 1 .. MaxSize]
    <3>1. r.at \in 0 .. heap_end
      BY <1>2
    <3>2. s \in [at : 0 .. heap_end, size : 1 .. MaxSize]
      BY <3>1
    <3> QED BY <3>2, <1>2
  <2>2. ASSUME NEW u \in S
        PROVE  /\ u.at \in C /\ u.at # heap_end /\ g[u.at].used
               /\ u.size <= g[u.at].next - (u.at + SIZEOF_STRUCT_MEM)
    <3>1. CASE u = s
      <4>1. r.at # heap_end
        BY <1>2
      <4> QED BY <3>1, <4>1, <1>1 DEF Room
    <3>2. CASE u \in R \ {r}
      <4>1. /\ u.at \in D /\ u.at # heap_end /\ h[u.at].used /\ u.at # r.at
            /\ u.size <= h[u.at].next - (u.at + SIZEOF_STRUCT_MEM)
        BY <3>2, <1>2, <1>3
      <4>2. u.at \in C /\ g[u.at].used /\ g[u.at].next = h[u.at].next
        BY <4>1
      <4> QED BY <4>1, <4>2
    <3> QED BY <3>1, <3>2
  <2>3. ASSUME NEW u \in S, NEW v \in S, u.at = v.at
        PROVE  u = v
    <3>1. CASE u = s
      <4>1. v.at = r.at
        BY <2>3, <3>1, <1>1
      <4>2. v \notin R \ {r}
        BY <4>1, <1>3
      <4> QED BY <3>1, <4>2
    <3>2. CASE v = s
      <4>1. u.at = r.at
        BY <2>3, <3>2, <1>1
      <4>2. u \notin R \ {r}
        BY <4>1, <1>3
      <4> QED BY <3>2, <4>2
    <3>3. CASE u # s /\ v # s
      <4>1. u \in R /\ v \in R
        BY <3>3
      <4> QED BY <2>3, <4>1, <1>2
    <3> QED BY <3>1, <3>2, <3>3
  <2>4. ASSUME NEW x \in C, x # heap_end, g[x].used
        PROVE  \E u \in S : u.at = x
    <3>1. PICK u \in R : u.at = x
      BY <2>4, <1>2
    <3> QED BY <3>1, <1>1
  <2> QED BY <2>1, <2>2, <2>3, <2>4 DEF Met
<1>5. Cardinality(Taken(h, R)) = Cardinality(Taken(h, R \ {r})) + (h[r.at].next - r.at)
  BY CountOne
<1>6. Cardinality(Taken(g, S)) = Cardinality(Taken(g, R \ {r})) + (g[r.at].next - r.at)
  <2>1. s \notin R \ {r}
    BY <1>1, <1>3
  <2>2. S \ {s} = R \ {r}
    BY <2>1
  <2>3. Cardinality(Taken(g, S)) = Cardinality(Taken(g, S \ {s})) + (g[s.at].next - s.at)
    BY ONLY <1>1, <1>4, Chain(g, C), CountOne
  <2> QED BY <2>2, <2>3, <1>1
<1>7. Taken(g, R \ {r}) = Taken(h, R \ {r})
  <2>1. ASSUME NEW u \in R \ {r} PROVE g[u.at].next = h[u.at].next
    <3>1. u.at \in D /\ u.at # r.at /\ h[u.at].used
      BY <1>2, <1>3
    <3> QED BY <3>1
  <2> QED BY <2>1, SameTaken
<1>8. /\ r.at \in Nat /\ h[r.at].next \in Nat /\ g[r.at].next \in Nat
  <2>1. r.at \in Nat /\ h[r.at].next \in Nat
    BY OwnUnits
  <2>2. g[s.at].next \in Nat
    BY <1>1, <1>4, OwnUnits
  <2> QED BY <2>1, <2>2, <1>1
<1>9. Cardinality(Taken(h, R)) \in 0 .. heap_end
  BY CountOne
<1>10. Cardinality(Taken(h, R \ {r})) \in Int
  <2>1. Taken(h, R \ {r}) \subseteq Taken(h, R)
    BY DEF Taken
  <2>2. IsFiniteSet(Taken(h, R))
    BY CountOne
  <2>3. IsFiniteSet(Taken(h, R \ {r}))
    BY <2>1, <2>2, FS_Subset
  <2> QED BY <2>3, FS_CardinalityType
<1> QED BY <1>4, <1>5, <1>6, <1>7, <1>8, <1>9, <1>10

LEMMA ShrinksWell ==
    ASSUME Good(heap, DOMAIN heap, lfree, live), Counted(heap, live, used_mem),
           NEW r \in live, NEW size \in 1 .. MaxSize, Shrink(r, size)
    PROVE  Good(heap', DOMAIN heap', lfree', live') /\ Counted(heap', live', used_mem')
<1>1. PICK h, D, p, q, low, g, k, R, S :
         /\ h = heap /\ D = DOMAIN heap /\ p = r.at /\ low = lfree /\ k = g.heap
         /\ q = p + SIZEOF_STRUCT_MEM + size /\ R = live /\ S = live'
         /\ g = PlugHoles(Split(heap, r.at, size), lfree, r.at + SIZEOF_STRUCT_MEM + size)
  OBVIOUS
<1>2. Chain(h, D) /\ Apart(h, D) /\ Start(h, D, low) /\ Met(h, D, R)
  BY <1>1 DEF Good
<1>3. /\ p \in D /\ p # heap_end /\ h[p].used /\ size \in Nat \ {0}
      /\ size + SIZEOF_STRUCT_MEM + MIN_SIZE < Room(h, p)
  <2>1. p \in D /\ p # heap_end /\ h[p].used
    BY <1>1, <1>2 DEF Met
  <2> QED BY <2>1, <1>1, HeapSize DEF Shrink, Shrinks
<1>4. /\ heap' = k /\ lfree' = g.lfree /\ used_mem' = used_mem - (Room(h, p) - size)
      /\ S = (R \ {r}) \cup {[at |-> r.at, size |-> size]} /\ r \in R
  BY <1>1 DEF Shrink
<1>5. PICK C : /\ Chain(g.heap, C) /\ Start(g.heap, C, g.lfree) /\ Apart(g.heap, C)
               /\ p \in C /\ g.heap[p].used /\ g.heap[p].next = q
               /\ \A x \in D : x # p /\ h[x].used =>
                     x \in C /\ g.heap[x].used /\ g.heap[x].next = h[x].next
               /\ \A x \in C : g.heap[x].used => x \in D /\ h[x].used
  <2>1. g = PlugHoles(Split(h, p, size), low, q) /\ q = p + SIZEOF_STRUCT_MEM + size
    BY <1>1
  <2> QED BY ONLY <2>1, <1>2, <1>3, CutsBlock
<1>6. /\ Chain(k, C) /\ Start(k, C, lfree') /\ Apart(k, C)
      /\ r.at \in C /\ k[r.at].used /\ k[p].next = q
      /\ \A x \in D : x # r.at /\ h[x].used => x \in C /\ k[x].used /\ k[x].next = h[x].next
      /\ \A x \in C : k[x].used => x \in D /\ h[x].used
  BY <1>1, <1>4, <1>5
<1>7. p \in Nat /\ h[p].next \in Nat
  BY <1>1, <1>2, <1>4, OwnUnits
<1>8. size <= Room(k, r.at)
  BY <1>1, <1>3, <1>6, <1>7, HeapSize DEF Room
<1>9. PICK s : s = [at |-> r.at, size |-> size] /\ S = (R \ {r}) \cup {s}
  BY <1>4
<1>10. /\ Met(k, C, S)
       /\ Cardinality(Taken(k, S)) =
             Cardinality(Taken(h, R)) - (h[r.at].next - r.at) + (k[r.at].next - r.at)
  BY ONLY <1>2, <1>4, <1>6, <1>8, <1>9, size \in 1 .. MaxSize, ResizesWell
<1>11. used_mem' = Cardinality(Taken(k, S))
  <2>1. used_mem = Cardinality(Taken(h, R)) /\ Cardinality(Taken(h, R)) \in 0 .. heap_end
    BY <1>1, <1>2, CountOne DEF Counted
  <2> QED BY <2>1, <1>1, <1>3, <1>4, <1>6, <1>7, <1>10, HeapSize DEF Room
<1>12. DOMAIN k = C
  BY <1>6 DEF Chain
<1> QED BY <1>1, <1>4, <1>6, <1>10, <1>11, <1>12 DEF Good, Counted

LEMMA SameWell ==
    ASSUME Good(heap, DOMAIN heap, lfree, live), Counted(heap, live, used_mem),
           NEW r \in live, NEW size \in 1 .. MaxSize, Same(r, size)
    PROVE  Good(heap', DOMAIN heap', lfree', live') /\ Counted(heap', live', used_mem')
<1>1. PICK h, D, R, S : h = heap /\ D = DOMAIN heap /\ R = live /\ S = live'
  OBVIOUS
<1>2. Chain(h, D) /\ Apart(h, D) /\ Start(h, D, lfree) /\ Met(h, D, R)
  BY <1>1 DEF Good
<1>3. /\ UNCHANGED <<heap, lfree, used_mem>> /\ size = Room(h, r.at)
      /\ S = (R \ {r}) \cup {[at |-> r.at, size |-> size]} /\ r \in R
  BY <1>1 DEF Same
<1>4. PICK s : s = [at |-> r.at, size |-> size] /\ S = (R \ {r}) \cup {s}
  BY <1>3
<1>5. r.at \in D /\ h[r.at].used
  BY <1>2, <1>3 DEF Met
<1>6. size <= Room(h, r.at)
  BY <1>3
<1>7. /\ Met(h, D, S)
      /\ Cardinality(Taken(h, S)) =
            Cardinality(Taken(h, R)) - (h[r.at].next - r.at) + (h[r.at].next - r.at)
  BY ONLY <1>2, <1>3, <1>4, <1>5, <1>6, size \in 1 .. MaxSize, ResizesWell
<1>8. Cardinality(Taken(h, R)) \in 0 .. heap_end /\ h[r.at].next \in Nat /\ r.at \in Nat
  BY <1>2, <1>3, CountOne, OwnUnits
<1>9. used_mem = Cardinality(Taken(h, R))
  BY <1>1 DEF Counted
<1>10. used_mem' = Cardinality(Taken(h, S))
  BY <1>3, <1>7, <1>8, <1>9
<1> QED BY <1>1, <1>2, <1>3, <1>7, <1>10 DEF Good, Counted

-----------------------------------------------------------------------------
(* The invariant is inductive.                                             *)

LEMMA InitHeapInv == Init => HeapInv
<1> SUFFICES ASSUME Init PROVE HeapInv
  OBVIOUS
<1>1. PICK D, h : /\ D = {0, heap_end} /\ h = heap
  OBVIOUS
<1>2. heap_end # 0 /\ heap_end \in Nat /\ 0 \in 0 .. heap_end /\ heap_end \in 0 .. heap_end
  BY HeapSize
<1>3. /\ h \in [D -> Header] /\ DOMAIN heap = D
      /\ h[0].next = heap_end /\ h[0].prev = 0 /\ ~h[0].used
      /\ h[heap_end].next = heap_end /\ h[heap_end].used
  BY <1>1, <1>2 DEF Init, Header
<1>4. Chain(h, D)
  BY <1>1, <1>2, <1>3, HeapSize DEF Chain
<1>5. Apart(h, D) /\ Start(h, D, 0) /\ Met(h, D, {})
  BY <1>1, <1>3 DEF Apart, Start, Met
<1>6. UsedCounted
  <2>1. UNION {Units(heap, r) : r \in live} = {}
    BY DEF Init
  <2>2. Cardinality({}) = 0
    BY FS_EmptySet
  <2> QED BY <2>1, <2>2 DEF Init, UsedCounted
<1>7. Moving
  BY DEF Init, Running, Moving
<1> QED BY <1>1, <1>3, <1>4, <1>5, <1>6, <1>7 DEF Init, HeapInv, Good

\* A thread that is in rt_realloc still has the block it reallocates.
LEMMA MovingStep ==
    ASSUME Moving, [Next]_vars
    PROVE  Moving'
<1>1. CASE UNCHANGED vars
  BY <1>1 DEF vars, Moving
<1>2. ASSUME NEW size \in 1 .. MaxSize, Malloc(size) PROVE Moving'
  <2>1. pc' = pc /\ live \subseteq live'
    BY <1>2 DEF Malloc
  <2> QED BY <2>1 DEF Moving
<1>3. ASSUME NEW r \in live, Free(r) \/ \E size \in 1 .. MaxSize : Shrink(r, size) \/ Same(r, size)
      PROVE  Moving'
  <2>1. pc' = pc /\ r \notin Busy /\ live \ {r} \subseteq live'
    BY <1>3 DEF Free, Shrink, Same
  <2>2. \A t \in Thread : pc[t].at # "run" => pc[t].old # r
    BY <2>1 DEF Busy
  <2> QED BY <2>1, <2>2 DEF Moving
<1>4. ASSUME NEW t \in Thread, NEW r \in live, NEW size \in 1 .. MaxSize, Expand(t, r, size)
      PROVE  Moving'
  <2>1. /\ pc' = [pc EXCEPT ![t] = [at |-> "expand", old |-> r, size |-> size]]
        /\ r \notin Busy /\ live' = live
    BY <1>4 DEF Expand
  <2>2. \A u \in Thread : pc[u].at # "run" => pc[u].old # r
    BY <2>1 DEF Busy
  <2>3. /\ DOMAIN pc' = Thread
        /\ pc'[t].at = "expand" /\ pc'[t].old = r /\ pc'[t].size = size
        /\ \A u \in Thread : u # t => pc'[u] = pc[u]
    BY <2>1 DEF Moving
  <2> QED BY <2>1, <2>2, <2>3 DEF Moving
<1>5. ASSUME NEW t \in Thread, ExpandMalloc(t) PROVE Moving'
  <2>1. CASE Fitting(Needed(pc[t].size)) # {}
    <3>1. /\ pc' = [pc EXCEPT ![t] = [at |-> "copy", old |-> pc[t].old]]
          /\ live \subseteq live' /\ pc[t].at = "expand"
      BY <1>5, <2>1 DEF ExpandMalloc
    <3>2. /\ DOMAIN pc' = Thread
          /\ pc'[t].at = "copy" /\ pc'[t].old = pc[t].old
          /\ \A u \in Thread : u # t => pc'[u] = pc[u]
      BY <3>1 DEF Moving
    <3> QED BY <3>1, <3>2 DEF Moving
  <2>2. CASE Fitting(Needed(pc[t].size)) = {}
    <3>1. pc' = [pc EXCEPT ![t] = Running] /\ live' = live
      BY <1>5, <2>2 DEF ExpandMalloc
    <3>2. /\ DOMAIN pc' = Thread /\ pc'[t].at = "run"
          /\ \A u \in Thread : u # t => pc'[u] = pc[u]
      BY <3>1 DEF Moving, Running
    <3> QED BY <3>1, <3>2 DEF Moving
  <2> QED BY <2>1, <2>2
<1>6. ASSUME NEW t \in Thread, ExpandFree(t) PROVE Moving'
  <2>1. /\ pc' = [pc EXCEPT ![t] = Running] /\ live' = live \ {pc[t].old} /\ pc[t].at = "copy"
    BY <1>6 DEF ExpandFree
  <2>2. /\ DOMAIN pc' = Thread /\ pc'[t].at = "run"
        /\ \A u \in Thread : u # t => pc'[u] = pc[u]
    BY <2>1 DEF Moving, Running
  <2>3. \A u \in Thread : u # t /\ pc[u].at # "run" => pc[u].old # pc[t].old
    BY <2>1 DEF Moving
  <2> QED BY <2>1, <2>2, <2>3 DEF Moving
<1> QED BY <1>1, <1>2, <1>3, <1>4, <1>5, <1>6 DEF Next

\* Every call leaves a good heap.
LEMMA BlocksStep ==
    ASSUME Good(heap, DOMAIN heap, lfree, live), Counted(heap, live, used_mem), Moving,
           [Next]_vars
    PROVE  Good(heap', DOMAIN heap', lfree', live') /\ Counted(heap', live', used_mem')
<1>1. CASE UNCHANGED <<heap, lfree, used_mem, live>>
  BY <1>1
<1>2. ASSUME NEW size \in 1 .. MaxSize, Malloc(size)
      PROVE  Good(heap', DOMAIN heap', lfree', live') /\ Counted(heap', live', used_mem')
  <2>1. PICK p, r : p = Min(Fitting(Needed(size))) /\ r = [at |-> p, size |-> size]
    OBVIOUS
  <2>2. /\ Fitting(Needed(size)) # {} /\ Allocated(p, Needed(size)) /\ live' = live \cup {r}
    BY <1>2, <2>1 DEF Malloc
  <2> QED BY <2>1, <2>2, AllocatesWell
<1>3. ASSUME NEW r \in live, Free(r)
      PROVE  Good(heap', DOMAIN heap', lfree', live') /\ Counted(heap', live', used_mem')
  BY <1>3, FreesWell DEF Free
<1>4. ASSUME NEW r \in live, NEW size \in 1 .. MaxSize, Shrink(r, size) \/ Same(r, size)
      PROVE  Good(heap', DOMAIN heap', lfree', live') /\ Counted(heap', live', used_mem')
  BY <1>4, ShrinksWell, SameWell
<1>5. ASSUME NEW t \in Thread, ExpandMalloc(t), Fitting(Needed(pc[t].size)) # {}
      PROVE  Good(heap', DOMAIN heap', lfree', live') /\ Counted(heap', live', used_mem')
  <2>1. PICK size : size = pc[t].size
    OBVIOUS
  <2>2. size \in 1 .. MaxSize /\ Fitting(Needed(size)) # {}
    BY <1>5, <2>1 DEF ExpandMalloc, Moving
  <2>3. PICK p, r : p = Min(Fitting(Needed(size))) /\ r = [at |-> p, size |-> size]
    OBVIOUS
  <2>4. Allocated(p, Needed(size)) /\ live' = live \cup {r}
    BY <1>5, <2>1, <2>3 DEF ExpandMalloc
  <2> QED BY <2>2, <2>3, <2>4, AllocatesWell
<1>6. ASSUME NEW t \in Thread, ExpandFree(t)
      PROVE  Good(heap', DOMAIN heap', lfree', live') /\ Counted(heap', live', used_mem')
  <2>1. PICK r \in live : r = pc[t].old
    BY <1>6 DEF ExpandFree, Moving
  <2>2. Freed(r.at) /\ live' = live \ {r}
    BY <1>6, <2>1 DEF ExpandFree
  <2> QED BY <2>2, FreesWell
<1>7. ASSUME NEW t \in Thread, ExpandMalloc(t), Fitting(Needed(pc[t].size)) = {}
      PROVE  UNCHANGED <<heap, lfree, used_mem, live>>
  BY <1>7 DEF ExpandMalloc
<1>8. ASSUME NEW t \in Thread, NEW r \in live, NEW size \in 1 .. MaxSize, Expand(t, r, size)
      PROVE  UNCHANGED <<heap, lfree, used_mem, live>>
  BY <1>8 DEF Expand
<1> QED BY <1>1, <1>2, <1>3, <1>4, <1>5, <1>6, <1>7, <1>8 DEF Next, vars

LEMMA HeapInvStep == HeapInv /\ [Next]_vars => HeapInv'
<1>1. UsedCounted <=> Counted(heap, live, used_mem)
  BY DEF UsedCounted, Counted, Taken
<1>2. UsedCounted' <=> Counted(heap', live', used_mem')
  BY DEF UsedCounted, Counted, Taken
<1> QED BY <1>1, <1>2, MovingStep, BlocksStep DEF HeapInv

LEMMA HeapInvHolds == Spec => []HeapInv
BY InitHeapInv, HeapInvStep, PTL DEF Spec

-----------------------------------------------------------------------------
(* The theorems.                                                           *)

\* Offsets stay within the heap, and used_mem neither below zero nor above its size.
THEOREM TypeCorrect == Spec => []TypeOK
<1>1. HeapInv => TypeOK
  <2> SUFFICES ASSUME HeapInv PROVE TypeOK
    OBVIOUS
  <2>1. PICK h, D : h = heap /\ D = DOMAIN heap
    OBVIOUS
  <2>2. Chain(h, D) /\ Start(h, D, lfree) /\ Met(h, D, live) /\ used_mem = Cardinality(Taken(h, live))
    BY <2>1 DEF HeapInv, Good, UsedCounted, Taken
  <2>3. used_mem \in 0 .. heap_end
    BY <2>2, CountOne
  <2>4. D \subseteq 0 .. heap_end
    BY <2>2 DEF Chain
  <2>5. ASSUME NEW p \in D
        PROVE  h[p] \in [next : D, prev : 0 .. heap_end, used : BOOLEAN]
    <3>1. h[p] \in Header
      BY <2>2 DEF Chain
    <3>2. h[p].next \in D
      BY <2>2 DEF Chain
    <3> QED BY <3>1, <3>2 DEF Header
  <2>6. lfree \in D /\ live \subseteq [at : 0 .. heap_end, size : 1 .. MaxSize]
    BY <2>2 DEF Start, Met
  <2> QED BY <2>1, <2>3, <2>4, <2>5, <2>6 DEF TypeOK
<1> QED BY <1>1, HeapInvHolds, PTL

\* The blocks lie one behind the other, know their neighbours, and no two free ones are
\* next to each other, after any calls of rt_malloc, rt_free and rt_realloc.
THEOREM TilesCorrect == Spec => []Tiled
<1>1. HeapInv => Tiled
  <2> SUFFICES ASSUME HeapInv PROVE Tiled
    OBVIOUS
  <2>1. PICK h, D : h = heap /\ D = DOMAIN heap
    OBVIOUS
  <2>2. Chain(h, D) /\ Apart(h, D) /\ Start(h, D, lfree)
    BY <2>1 DEF HeapInv, Good
  <2>3. ASSUME NEW p \in D \ {heap_end}
        PROVE  LET n == Min({q \in D : q > p})
               IN  /\ h[p].next = n /\ n > p + SIZEOF_STRUCT_MEM
                   /\ n # heap_end => h[n].prev = p
                   /\ h[p].used \/ h[n].used
    <3>1. PICK n : n = h[p].next
      OBVIOUS
    <3>2. /\ n \in D /\ n > p + SIZEOF_STRUCT_MEM /\ (n # heap_end => h[n].prev = p)
          /\ \A q \in D : q > p => q >= n
          /\ D \subseteq 0 .. heap_end
      BY <2>2, <3>1 DEF Chain
    <3>3. h[p].used \/ h[n].used
      BY <2>2, <3>1 DEF Apart
    <3>4. p \in Nat /\ n \in Nat /\ n > p
      <4>1. p \in 0 .. heap_end /\ n \in 0 .. heap_end
        BY <3>2
      <4> QED BY <4>1, <3>2, HeapSize
    <3> DEFINE Q == {q \in D : q > p}
    <3>5. n \in Q /\ \A q \in Q : n <= q /\ q \in Nat
      BY <3>2, <3>4
    <3> HIDE DEF Q
    <3>6. Q \in SUBSET Nat /\ Q # {}
      BY <3>5
    <3>a. Min(Q) \in Q /\ \A q \in Q : Min(Q) <= q
      BY ONLY <3>6, LeastPlace
    <3>7. Min(Q) \in Q /\ Min(Q) <= n
      BY <3>5, <3>a
    <3>8. Min(Q) = n
      <4>1. PICK m : m = Min(Q)
        OBVIOUS
      <4>2. m \in Nat /\ n <= m /\ m <= n
        BY <3>5, <3>7, <4>1
      <4> QED BY <4>1, <4>2, <3>4
    <3> QED BY <3>1, <3>2, <3>3, <3>8 DEF Q
  <2>4. {0, heap_end} \subseteq D /\ h[heap_end].used /\ h[0].prev = 0
    BY <2>2 DEF Chain
  <2>5. lfree = heap_end \/ ~h[lfree].used
    BY <2>2 DEF Start
  <2> QED BY <2>1, <2>3, <2>4, <2>5 DEF Tiled
<1> QED BY <1>1, HeapInvHolds, PTL

\* What a caller has got is its own until it gives it back, large enough and shared with
\* nobody, although rt_realloc gives heap_sem back between its steps; and no block stays
\* used that belongs to nobody.
THEOREM BlocksCorrect == Spec => []BlocksKept
<1>1. HeapInv => BlocksKept
  <2> SUFFICES ASSUME HeapInv PROVE BlocksKept
    OBVIOUS
  <2>1. Met(heap, DOMAIN heap, live)
    BY DEF HeapInv, Good
  <2>2. \A r \in live : r.at \in DOMAIN heap /\ heap[r.at].used /\ r.size <= Room(heap, r.at)
    BY <2>1 DEF Met, Room
  <2>3. \A r, s \in live : r.at = s.at => r = s
    BY <2>1 DEF Met
  <2>4. {p \in DOMAIN heap \ {heap_end} : heap[p].used} = {r.at : r \in live}
    BY <2>1 DEF Met
  <2> QED BY <2>2, <2>3, <2>4 DEF BlocksKept
<1> QED BY <1>1, HeapInvHolds, PTL

\* used_mem is the memory in the blocks of the callers: malloc, realloc and free put on
\* and take off the same, wherever a block was split or joined in between.
THEOREM CountCorrect == Spec => []UsedCounted
<1>1. HeapInv => UsedCounted
  BY DEF HeapInv
<1> QED BY <1>1, HeapInvHolds, PTL

=============================================================================
