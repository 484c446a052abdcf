------------------------------ MODULE HeapProofs ------------------------------
(***************************************************************************)
(* Theorems about Heap, for any sizes of header, chunk and heap: the list  *)
(* describes the heap, and what a program wrote into an allocation stays.  *)
(***************************************************************************)
EXTENDS Heap, FiniteSetTheorems, WellFoundedInduction, TLAPS

(***************************************************************************)
(* Arithmetic.                                                             *)
(***************************************************************************)
LEMMA AlignUpType ==
  \A n \in Nat : AlignUp(n) \in Nat /\ n <= AlignUp(n)
<1>1. ALIGN \in Nat /\ ALIGN > 0
  BY LayoutAssumption
<1>2. SUFFICES ASSUME NEW n \in Nat PROVE AlignUp(n) \in Nat /\ n <= AlignUp(n)
  OBVIOUS
<1>. DEFINE m == n + ALIGN - 1  q == m \div ALIGN
<1>3. m \in Int
  BY <1>1
<1>4. q \in Nat
  <2>1. m \in Nat
    BY <1>1
  <2>. HIDE DEF m
  <2>. QED
    BY <1>1, <2>1
<1>5. ALIGN * q <= m /\ m < ALIGN * q + ALIGN
  <2>. HIDE DEF m
  <2>. QED
    BY <1>1, <1>3
<1>6. q * ALIGN = ALIGN * q /\ ALIGN * q \in Nat
  <2>. HIDE DEF q
  <2>. QED
    BY <1>1, <1>4
<1>7. AlignUp(n) = q * ALIGN
  BY DEF AlignUp
<1>. HIDE DEF q
<1>. QED
  BY <1>1, <1>5, <1>6, <1>7

LEMMA Numbers ==
  /\ HDR \in Nat /\ HDR > 0 /\ MinRest \in Nat /\ MinRest > 0
  /\ Static \in Nat /\ Top \in Nat /\ HDR < Static /\ Static <= Top
  /\ \A n \in Nat : ChunkSize(n) \in Nat /\ n + HDR <= ChunkSize(n)
<1>1. \A n \in Nat : ChunkSize(n) \in Nat /\ n + HDR <= ChunkSize(n)
  BY LayoutAssumption, AlignUpType DEF ChunkSize
<1>. QED
  BY <1>1, LayoutAssumption

(***************************************************************************)
(* The list operations keep the chain.                                     *)
(***************************************************************************)
LEMMA ChainValues ==
  ASSUME NEW h, NEW end \in Nat, Chain(h, end), NEW a \in Blocks(h)
  PROVE  /\ a \in Nat /\ h.blk[a].size \in Nat /\ h.blk[a].free \in BOOLEAN
         /\ h.blk[a].next \in Blocks(h) \cup {NULL} /\ h.blk[a].prev \in Blocks(h) \cup {NULL}
         /\ h.blk[a] = [size |-> h.blk[a].size, free |-> h.blk[a].free,
                        next |-> h.blk[a].next, prev |-> h.blk[a].prev]
         /\ NULL \notin Blocks(h)
  BY Numbers, NullAssumption DEF Chain, BlockRec, Cells

LEMMA SplitChain ==
  ASSUME NEW h, NEW end \in 0 .. Top, Chain(h, end), NEW b \in Blocks(h), NEW n \in Nat
  PROVE  Chain(Split(h, b, n), end)
<1>. DEFINE s == Split(h, b, n)  t == b + HDR + n  nx == h.blk[b].next
<1>1. CASE h.blk[b].size < n + HDR + MinRest
  BY <1>1 DEF Split
<1>2. CASE ~(h.blk[b].size < n + HDR + MinRest)
  <2>0. end \in Nat /\ HDR \in Nat /\ HDR > 0 /\ MinRest \in Nat /\ MinRest > 0
    BY Numbers
  <2>1. \A a \in Blocks(h) : a \in Nat /\ h.blk[a].size \in Nat
    BY <2>0, ChainValues
  <2>l. \A a \in Blocks(h) :
          h.blk[a].next \in Blocks(h) \cup {NULL} /\ h.blk[a].prev \in Blocks(h) \cup {NULL}
    BY <2>0, ChainValues
  <2>r. \A a \in Blocks(h) :
          /\ h.blk[a] = [size |-> h.blk[a].size, free |-> h.blk[a].free,
                         next |-> h.blk[a].next, prev |-> h.blk[a].prev]
          /\ h.blk[a].free \in BOOLEAN
    BY <2>0, ChainValues
  <2>2. NULL \notin Blocks(h) /\ NULL \notin Nat
    BY <2>0, ChainValues, NullAssumption
  <2>c1. \A a \in Blocks(h) : h.blk[a].next # NULL =>
           /\ h.blk[a].next \in Blocks(h) /\ h.blk[h.blk[a].next].prev = a
           /\ a + HDR + h.blk[a].size <= h.blk[a].next
    BY DEF Chain
  <2>c2. \A a \in Blocks(h) : h.blk[a].prev # NULL =>
           h.blk[a].prev \in Blocks(h) /\ h.blk[h.blk[a].prev].next = a
    BY DEF Chain
  <2>c3. \A a, c \in Blocks(h) : a < c =>
           /\ h.blk[a].next # NULL /\ h.blk[a].next <= c
           /\ h.blk[c].prev # NULL /\ a <= h.blk[c].prev
    BY DEF Chain
  <2>c4. \A a \in Blocks(h) : a + HDR + h.blk[a].size <= end
    BY DEF Chain
  <2>d. PICK sb \in Nat : h.blk[b].size = sb
    BY <2>1
  <2>3. b \in Nat /\ b + HDR + sb <= end /\ n + HDR + MinRest <= sb
    BY <1>2, <2>0, <2>1, <2>c4, <2>d
  <2>4. /\ t \in Nat /\ b < t /\ t + HDR + (sb - n - HDR) = b + HDR + sb
        /\ sb - n - HDR \in Nat /\ t < end /\ b + HDR <= t
    BY <2>0, <2>3
  <2>e. t \in Cells /\ t # NULL
    BY <2>2, <2>4, Numbers DEF Cells
  <2>5. \A a \in Blocks(h) : a <= b \/ t < a
    <3>1. SUFFICES ASSUME NEW a \in Blocks(h), ~(a <= b) PROVE t < a
      OBVIOUS
    <3>2. a \in Nat /\ b < a
      BY <2>1, <3>1
    <3>3. nx # NULL /\ nx <= a /\ nx \in Nat
      BY <2>1, <2>l, <2>2, <2>c3, <3>2
    <3>4. b + HDR + sb <= nx
      BY <2>c1, <2>d, <3>3
    <3>. QED
      BY <2>0, <2>3, <3>2, <3>3, <3>4
  <2>6. t \notin Blocks(h)
    BY <2>3, <2>4, <2>5
  <2>. DEFINE nb == [size |-> sb - n - HDR, free |-> TRUE, next |-> nx, prev |-> b]
  <2>7. s = [blk  |-> [a \in Blocks(h) \cup {t} |->
                          IF a = t THEN nb
                          ELSE IF a = b THEN [h.blk[b] EXCEPT !.size = n, !.next = t]
                          ELSE IF a = nx THEN [h.blk[a] EXCEPT !.prev = t]
                          ELSE h.blk[a]],
              head |-> h.head,
              tail |-> IF nx = NULL THEN t ELSE h.tail]
    BY <1>2, <2>d DEF Split
  <2>8. nx # b
    BY <2>0, <2>3, <2>d, <2>2, <2>c1
  <2>9. /\ s = [blk |-> s.blk, head |-> s.head, tail |-> s.tail]
        /\ s.head = h.head /\ s.tail = IF nx = NULL THEN t ELSE h.tail
        /\ Blocks(s) = Blocks(h) \cup {t}
        /\ s.blk = [a \in Blocks(s) |-> s.blk[a]]
        /\ s.blk[t] = nb
    BY <2>7 DEF Blocks
  <2>10. s.blk[b] = [size |-> n, free |-> h.blk[b].free, next |-> t, prev |-> h.blk[b].prev]
    <3>1. s.blk[b] = [h.blk[b] EXCEPT !.size = n, !.next = t]
      BY <2>6, <2>7
    <3>. QED
      BY <2>r, <3>1
  <2>11. \A a \in Blocks(h) \ {b} :
             s.blk[a] = [size |-> h.blk[a].size, free |-> h.blk[a].free, next |-> h.blk[a].next,
                         prev |-> IF a = nx THEN t ELSE h.blk[a].prev]
    <3>1. SUFFICES ASSUME NEW a \in Blocks(h) \ {b}
                   PROVE s.blk[a] = [size |-> h.blk[a].size, free |-> h.blk[a].free, next |-> h.blk[a].next,
                         prev |-> IF a = nx THEN t ELSE h.blk[a].prev]
      OBVIOUS
    <3>2. s.blk[a] = IF a = nx THEN [h.blk[a] EXCEPT !.prev = t] ELSE h.blk[a]
      BY <2>6, <2>7
    <3>. QED
      BY <2>r, <3>2
  <2>. HIDE DEF s, t, nb, nx
  <2>12. /\ s.blk[t].size = sb - n - HDR /\ s.blk[t].free = TRUE /\ s.blk[t].next = nx /\ s.blk[t].prev = b
         /\ s.blk[b].size = n /\ s.blk[b].free = h.blk[b].free /\ s.blk[b].next = t
         /\ s.blk[b].prev = h.blk[b].prev
         /\ \A a \in Blocks(h) \ {b} :
              /\ s.blk[a].size = h.blk[a].size /\ s.blk[a].free = h.blk[a].free
              /\ s.blk[a].next = h.blk[a].next
              /\ s.blk[a].prev = IF a = nx THEN t ELSE h.blk[a].prev
    <3>1. s.blk[t].size = sb - n - HDR /\ s.blk[t].free = TRUE /\ s.blk[t].next = nx /\ s.blk[t].prev = b
      BY <2>9 DEF nb
    <3>2. /\ s.blk[b].size = n /\ s.blk[b].free = h.blk[b].free /\ s.blk[b].next = t
          /\ s.blk[b].prev = h.blk[b].prev
      BY <2>10
    <3>3. \A a \in Blocks(h) \ {b} :
              /\ s.blk[a].size = h.blk[a].size /\ s.blk[a].free = h.blk[a].free
              /\ s.blk[a].next = h.blk[a].next
              /\ s.blk[a].prev = IF a = nx THEN t ELSE h.blk[a].prev
      <4>1. SUFFICES ASSUME NEW a \in Blocks(h) \ {b}
              PROVE /\ s.blk[a].size = h.blk[a].size /\ s.blk[a].free = h.blk[a].free
                    /\ s.blk[a].next = h.blk[a].next
                    /\ s.blk[a].prev = IF a = nx THEN t ELSE h.blk[a].prev
        OBVIOUS
      <4>2. s.blk[a] = [size |-> h.blk[a].size, free |-> h.blk[a].free, next |-> h.blk[a].next,
                         prev |-> IF a = nx THEN t ELSE h.blk[a].prev]
        BY <2>11
      <4>. QED
        BY <4>2
    <3>. QED
      BY <3>1, <3>2, <3>3
  <2>13. nx = h.blk[b].next
    BY DEF nx
  <2>14. s.blk \in [Blocks(s) -> BlockRec] /\ Blocks(s) \subseteq Cells
    <3>0. Blocks(h) \subseteq Cells
      BY DEF Chain
    <3>1. s.blk[t] \in BlockRec
      <4>1. nx \in Cells \cup {NULL} /\ b \in Cells
        BY <2>l, <2>13, <3>0
      <4>2. PICK rest \in Nat : sb - n - HDR = rest
        BY <2>4
      <4>3. s.blk[t] = [size |-> rest, free |-> TRUE, next |-> nx, prev |-> b]
        BY <2>9, <4>2 DEF nb
      <4>. QED
        BY <4>1, <4>3 DEF BlockRec
    <3>2. s.blk[b] \in BlockRec
      <4>1. h.blk[b].prev \in Cells \cup {NULL} /\ h.blk[b].free \in BOOLEAN
        BY <2>l, <2>r, <3>0
      <4>. QED
        BY <2>e, <2>10, <4>1 DEF BlockRec
    <3>3. ASSUME NEW a \in Blocks(h) \ {b} PROVE s.blk[a] \in BlockRec
      <4>1. /\ h.blk[a].prev \in Cells \cup {NULL} /\ h.blk[a].next \in Cells \cup {NULL}
            /\ h.blk[a].free \in BOOLEAN /\ h.blk[a].size \in Nat
        BY <2>1, <2>l, <2>r, <3>0
      <4>2. s.blk[a] = [size |-> h.blk[a].size, free |-> h.blk[a].free, next |-> h.blk[a].next,
                         prev |-> IF a = nx THEN t ELSE h.blk[a].prev]
        BY <2>11
      <4>. QED
        BY <2>e, <4>1, <4>2 DEF BlockRec
    <3>4. \A a \in Blocks(s) : s.blk[a] \in BlockRec
      BY <2>9, <3>1, <3>2, <3>3
    <3>. QED
      BY <2>e, <2>9, <3>0, <3>4
  <2>15. /\ s.head \in Blocks(s) /\ s.blk[s.head].prev = NULL
         /\ s.tail \in Blocks(s) /\ s.blk[s.tail].next = NULL
    <3>0. h.head \in Blocks(h) /\ h.blk[h.head].prev = NULL /\ h.tail \in Blocks(h) /\ h.blk[h.tail].next = NULL
      BY DEF Chain
    <3>1. h.head # nx
      BY <2>1, <2>2, <2>c1, <2>13, <3>0
    <3>2. nx # NULL => h.tail # b
      BY <2>13, <3>0
    <3>. QED
      BY <2>6, <2>9, <2>12, <3>0, <3>1, <3>2
  <2>16. \A a \in Blocks(s) : s.blk[a].next # NULL =>
           /\ s.blk[a].next \in Blocks(s) /\ s.blk[s.blk[a].next].prev = a
           /\ a + HDR + s.blk[a].size <= s.blk[a].next
    <3>1. nx # NULL => nx \in Blocks(h) \ {b} /\ b + HDR + sb <= nx
      BY <2>8, <2>13, <2>c1, <2>d
    <3>2. t + HDR + s.blk[t].size = b + HDR + sb
      BY <2>4, <2>12
    <3>5. /\ s.blk[b].next \in Blocks(s) /\ s.blk[s.blk[b].next].prev = b
          /\ b + HDR + s.blk[b].size <= s.blk[b].next
      <4>1. s.blk[b].next = t /\ t \in Blocks(s) /\ s.blk[t].prev = b /\ s.blk[b].size = n
        BY <2>9, <2>12
      <4>2. b + HDR + n <= t
        BY <2>0, <2>3, <2>4 DEF t
      <4>. QED
        BY <4>1, <4>2
    <3>3. CASE nx = NULL
      <4>1. \A a \in Blocks(h) \ {b} : h.blk[a].next # NULL
              => (h.blk[a].next # b => s.blk[s.blk[a].next].prev = a)
        BY <2>2, <2>12, <2>c1, <3>3
      <4>2. \A a \in Blocks(h) \ {b} : h.blk[a].next = b => s.blk[s.blk[a].next].prev = a
        BY <2>2, <2>12, <2>c1
      <4>3. \A a \in Blocks(h) \ {b} : s.blk[a].next # NULL =>
              /\ s.blk[a].next \in Blocks(s) /\ s.blk[s.blk[a].next].prev = a
              /\ a + HDR + s.blk[a].size <= s.blk[a].next
        BY <2>9, <2>12, <2>c1, <4>1, <4>2
      <4>4. /\ s.blk[b].next \in Blocks(s) /\ s.blk[s.blk[b].next].prev = b
            /\ b + HDR + s.blk[b].size <= s.blk[b].next
        BY <3>5
      <4>5. s.blk[t].next = NULL
        BY <2>12, <3>3
      <4>. QED
        BY <2>9, <4>3, <4>4, <4>5
    <3>4. CASE nx # NULL
      <4>1. \A a \in Blocks(h) \ {b} : h.blk[a].next # NULL => h.blk[a].next # nx
        BY <2>2, <2>13, <2>c1, <3>1, <3>4
      <4>2. \A a \in Blocks(h) \ {b} : h.blk[a].next # NULL => s.blk[s.blk[a].next].prev = a
        BY <2>2, <2>12, <2>c1, <4>1
      <4>3. \A a \in Blocks(h) \ {b} : s.blk[a].next # NULL =>
              /\ s.blk[a].next \in Blocks(s) /\ s.blk[s.blk[a].next].prev = a
              /\ a + HDR + s.blk[a].size <= s.blk[a].next
        BY <2>9, <2>12, <2>c1, <4>2
      <4>4. s.blk[nx].prev = t
        BY <2>12, <3>1, <3>4
      <4>5. t + HDR + s.blk[t].size <= nx
        BY <3>1, <3>2, <3>4
      <4>6. s.blk[t].next = nx /\ nx \in Blocks(s)
        BY <2>9, <2>12, <3>1, <3>4
      <4>. QED
        BY <2>9, <3>5, <4>3, <4>4, <4>5, <4>6
    <3>. QED
      BY <3>3, <3>4
  <2>17. \A a \in Blocks(s) : s.blk[a].prev # NULL =>
           s.blk[a].prev \in Blocks(s) /\ s.blk[s.blk[a].prev].next = a
    <3>1. \A a \in Blocks(h) \ {b} : a # nx => h.blk[a].prev # b
      BY <2>2, <2>13, <2>c2
    <3>2. \A a \in Blocks(h) \ {b} : a # nx /\ h.blk[a].prev # NULL => s.blk[h.blk[a].prev].next = a
      BY <2>12, <2>c2, <3>1
    <3>3. h.blk[b].prev # NULL => h.blk[b].prev \in Blocks(h) \ {b}
      BY <2>0, <2>2, <2>3, <2>d, <2>8, <2>13, <2>c2
    <3>4. h.blk[b].prev # NULL => s.blk[h.blk[b].prev].next = b
      BY <2>12, <2>c2, <3>3
    <3>. QED
      BY <2>6, <2>9, <2>12, <2>c2, <3>1, <3>2, <3>3, <3>4
  <2>18. \A a, c \in Blocks(s) : a < c =>
           /\ s.blk[a].next # NULL /\ s.blk[a].next <= c
           /\ s.blk[c].prev # NULL /\ a <= s.blk[c].prev
    <3>0. b < t /\ t \in Nat /\ b \in Nat
      BY <2>3, <2>4
    <3>1. \A c \in Blocks(h) : t < c => nx # NULL /\ nx <= c /\ (c # nx => h.blk[c].prev # b)
      <4>1. SUFFICES ASSUME NEW c \in Blocks(h), t < c PROVE nx # NULL /\ nx <= c /\ (c # nx => h.blk[c].prev # b)
        OBVIOUS
      <4>2. b < c
        BY <2>1, <3>0, <4>1
      <4>. QED
        BY <2>2, <2>13, <2>c2, <2>c3, <4>2
    <3>2. \A a, c \in Blocks(h) : a < c =>
           /\ s.blk[a].next # NULL /\ s.blk[a].next <= c
           /\ s.blk[c].prev # NULL /\ a <= s.blk[c].prev
      <4>1. SUFFICES ASSUME NEW a \in Blocks(h), NEW c \in Blocks(h), a < c
                     PROVE  /\ s.blk[a].next # NULL /\ s.blk[a].next <= c
                            /\ s.blk[c].prev # NULL /\ a <= s.blk[c].prev
        OBVIOUS
      <4>2. h.blk[a].next # NULL /\ h.blk[a].next <= c /\ h.blk[c].prev # NULL /\ a <= h.blk[c].prev
        BY <2>c3, <4>1
      <4>3. s.blk[a].next # NULL /\ s.blk[a].next <= c
        <5>1. CASE a = b
          <6>1. t < c
            BY <2>1, <2>5, <4>1, <5>1
          <6>2. s.blk[a].next = t
            BY <2>12, <5>1
          <6>3. t <= c
            BY <2>1, <3>0, <6>1
          <6>. QED
            BY <2>e, <6>2, <6>3
        <5>. QED
          BY <2>12, <4>2, <5>1
      <4>4. s.blk[c].prev # NULL /\ a <= s.blk[c].prev
        <5>1. CASE c = nx /\ c # b
          <6>1. h.blk[c].prev = b
            BY <2>2, <2>13, <2>c1, <5>1
          <6>2. a <= b
            BY <4>2, <6>1
          <6>3. a <= t
            BY <2>1, <3>0, <6>2
          <6>. QED
            BY <2>e, <2>12, <5>1, <6>3
        <5>. QED
          BY <2>12, <4>2, <5>1
      <4>. QED
        BY <4>3, <4>4
    <3>3. \A a \in Blocks(h) : a < t =>
           /\ s.blk[a].next # NULL /\ s.blk[a].next <= t
           /\ s.blk[t].prev # NULL /\ a <= s.blk[t].prev
      <4>1. SUFFICES ASSUME NEW a \in Blocks(h), a < t
                     PROVE  /\ s.blk[a].next # NULL /\ s.blk[a].next <= t
                            /\ s.blk[t].prev # NULL /\ a <= s.blk[t].prev
        OBVIOUS
      <4>2. a <= b
        BY <2>1, <2>5, <3>0, <4>1
      <4>3. CASE a = b
        BY <2>2, <2>e, <2>12, <3>0, <4>3
      <4>4. CASE a # b
        <5>0. a < b
          BY <2>1, <3>0, <4>2, <4>4
        <5>1. h.blk[a].next # NULL /\ h.blk[a].next <= b /\ h.blk[a].next \in Nat
          BY <2>1, <2>l, <2>c3, <5>0
        <5>2. h.blk[a].next <= t
          BY <3>0, <5>1
        <5>. QED
          BY <2>2, <2>12, <4>2, <4>4, <5>1, <5>2
      <4>. QED
        BY <4>3, <4>4
    <3>4. \A c \in Blocks(h) : t < c =>
           /\ s.blk[t].next # NULL /\ s.blk[t].next <= c
           /\ s.blk[c].prev # NULL /\ t <= s.blk[c].prev
      <4>1. SUFFICES ASSUME NEW c \in Blocks(h), t < c
                     PROVE  /\ s.blk[t].next # NULL /\ s.blk[t].next <= c
                            /\ s.blk[c].prev # NULL /\ t <= s.blk[c].prev
        OBVIOUS
      <4>0. c \in Nat /\ b < c /\ c # b
        BY <2>1, <3>0, <4>1
      <4>2. nx # NULL /\ nx <= c /\ c # b /\ c \in Nat /\ b < c
        BY <3>1, <4>0, <4>1
      <4>3. CASE c = nx
        BY <2>e, <2>12, <3>0, <4>2, <4>3
      <4>4. CASE c # nx
        <5>1. h.blk[c].prev # NULL /\ b <= h.blk[c].prev /\ h.blk[c].prev # b
          BY <2>c3, <3>1, <4>1, <4>2, <4>4
        <5>2. h.blk[c].prev \in Blocks(h) /\ h.blk[c].prev \in Nat
          BY <2>1, <2>l, <5>1
        <5>3. t <= h.blk[c].prev
          BY <2>5, <3>0, <5>1, <5>2
        <5>. QED
          BY <2>12, <4>2, <4>4, <5>1, <5>3
      <4>. QED
        BY <4>3, <4>4
    <3>. QED
      BY <2>9, <3>0, <3>2, <3>3, <3>4
  <2>19. \A a \in Blocks(s) : a + HDR + s.blk[a].size <= end
    <3>1. t + HDR + s.blk[t].size <= end
      BY <2>3, <2>4, <2>12
    <3>2. b + HDR + s.blk[b].size <= end
      BY <2>0, <2>3, <2>12
    <3>. QED
      BY <2>9, <2>12, <2>c4, <3>1, <3>2
  <2>20. Chain(s, end)
    BY <2>9, <2>14, <2>15, <2>16, <2>17, <2>18, <2>19 DEF Chain
  <2>. QED
    BY <2>20 DEF s
<1>. QED
  BY <1>1, <1>2

LEMMA MergeChain ==
  ASSUME NEW h, NEW end \in 0 .. Top, Chain(h, end), NEW b \in Blocks(h)
  PROVE  Chain(MergeNext(h, b), end)
<1>. DEFINE s == MergeNext(h, b)  n == h.blk[b].next  nn == h.blk[n].next
<1>1. CASE ~NextIsFree(h, b)
  BY <1>1 DEF MergeNext
<1>2. CASE NextIsFree(h, b)
  <2>0. end \in Nat /\ HDR \in Nat /\ HDR > 0
    BY Numbers
  <2>1. \A a \in Blocks(h) : a \in Nat /\ h.blk[a].size \in Nat
    BY <2>0, ChainValues
  <2>l. \A a \in Blocks(h) :
          h.blk[a].next \in Blocks(h) \cup {NULL} /\ h.blk[a].prev \in Blocks(h) \cup {NULL}
    BY <2>0, ChainValues
  <2>r. \A a \in Blocks(h) :
          /\ h.blk[a] = [size |-> h.blk[a].size, free |-> h.blk[a].free,
                         next |-> h.blk[a].next, prev |-> h.blk[a].prev]
          /\ h.blk[a].free \in BOOLEAN
    BY <2>0, ChainValues
  <2>2. NULL \notin Blocks(h) /\ NULL \notin Nat
    BY <2>0, ChainValues, NullAssumption
  <2>c1. \A a \in Blocks(h) : h.blk[a].next # NULL =>
           /\ h.blk[a].next \in Blocks(h) /\ h.blk[h.blk[a].next].prev = a
           /\ a + HDR + h.blk[a].size <= h.blk[a].next
    BY DEF Chain
  <2>c2. \A a \in Blocks(h) : h.blk[a].prev # NULL =>
           h.blk[a].prev \in Blocks(h) /\ h.blk[h.blk[a].prev].next = a
    BY DEF Chain
  <2>c3. \A a, c \in Blocks(h) : a < c =>
           /\ h.blk[a].next # NULL /\ h.blk[a].next <= c
           /\ h.blk[c].prev # NULL /\ a <= h.blk[c].prev
    BY DEF Chain
  <2>c4. \A a \in Blocks(h) : a + HDR + h.blk[a].size <= end
    BY DEF Chain
  <2>c5. /\ h.head \in Blocks(h) /\ h.blk[h.head].prev = NULL
         /\ h.tail \in Blocks(h) /\ h.blk[h.tail].next = NULL
         /\ Blocks(h) \subseteq Cells
    BY DEF Chain
  <2>n. n # NULL
    BY <1>2 DEF NextIsFree
  <2>d. PICK sb \in Nat : h.blk[b].size = sb
    BY <2>1
  <2>e. PICK sn \in Nat : h.blk[n].size = sn
    BY <2>1, <2>c1, <2>n
  <2>3. /\ n \in Blocks(h) /\ h.blk[n].prev = b /\ b + HDR + sb <= n /\ b \in Nat /\ n \in Nat
        /\ b < n
    BY <2>0, <2>1, <2>c1, <2>d, <2>n
  <2>4. nn # NULL => /\ nn \in Blocks(h) /\ h.blk[nn].prev = n /\ n + HDR + sn <= nn /\ nn \in Nat
                     /\ n < nn
    <3>1. ASSUME nn # NULL PROVE nn \in Blocks(h) /\ h.blk[nn].prev = n /\ n + HDR + sn <= nn
      BY <2>c1, <2>e, <2>3, <3>1
    <3>2. ASSUME nn # NULL PROVE nn \in Nat /\ n < nn
      <4>. HIDE DEF n, nn
      <4>1. nn \in Blocks(h) /\ n + HDR + sn <= nn
        BY <3>1, <3>2
      <4>2. nn \in Nat
        BY <2>1, <4>1
      <4>. QED
        BY <2>0, <2>3, <4>1, <4>2
    <3>. QED
      BY <3>1, <3>2
  <2>5. /\ s = [blk |-> s.blk, head |-> s.head, tail |-> s.tail]
        /\ s.head = h.head /\ s.tail = IF nn = NULL THEN b ELSE h.tail
        /\ Blocks(s) = Blocks(h) \ {n}
        /\ s.blk = [a \in Blocks(s) |-> s.blk[a]]
    BY <1>2, <2>d, <2>e DEF MergeNext, Blocks
  <2>6. s.blk[b] = [size |-> sb + HDR + sn, free |-> h.blk[b].free, next |-> nn, prev |-> h.blk[b].prev]
    <3>1. s.blk[b] = [h.blk[b] EXCEPT !.size = @ + HDR + h.blk[n].size, !.next = nn]
      BY <1>2, <2>3 DEF MergeNext
    <3>. QED
      BY <2>r, <2>d, <2>e, <3>1
  <2>7. ASSUME NEW a \in Blocks(h) \ {b, n}
        PROVE  s.blk[a] = [size |-> h.blk[a].size, free |-> h.blk[a].free, next |-> h.blk[a].next,
                           prev |-> IF a = nn THEN b ELSE h.blk[a].prev]
    <3>1. s.blk[a] = IF a = nn THEN [h.blk[a] EXCEPT !.prev = b] ELSE h.blk[a]
      BY <1>2 DEF MergeNext
    <3>. QED
      BY <2>r, <3>1
  <2>10. nn = h.blk[n].next /\ n = h.blk[b].next
    OBVIOUS
  <2>. HIDE DEF s, n, nn
  <2>8. s.blk[b].size = sb + HDR + sn /\ s.blk[b].next = nn /\ s.blk[b].prev = h.blk[b].prev
    BY <2>6
  <2>9. ASSUME NEW a \in Blocks(h) \ {b, n}
        PROVE  /\ s.blk[a].size = h.blk[a].size /\ s.blk[a].next = h.blk[a].next
               /\ s.blk[a].prev = IF a = nn THEN b ELSE h.blk[a].prev
    <3>1. s.blk[a] = [size |-> h.blk[a].size, free |-> h.blk[a].free, next |-> h.blk[a].next,
                      prev |-> IF a = nn THEN b ELSE h.blk[a].prev]
      BY <2>7
    <3>. QED
      BY <3>1
  <2>14. s.blk \in [Blocks(s) -> BlockRec] /\ Blocks(s) \subseteq Cells
    <3>2. s.blk[b] \in BlockRec
      <4>1. /\ h.blk[b].prev \in Cells \cup {NULL} /\ h.blk[b].free \in BOOLEAN
            /\ nn \in Cells \cup {NULL}
        BY <2>4, <2>l, <2>r, <2>c5
      <4>2. sb + HDR + sn \in Nat
        BY <2>0
      <4>. QED
        BY <2>6, <4>1, <4>2 DEF BlockRec
    <3>3. ASSUME NEW a \in Blocks(h) \ {b, n} PROVE s.blk[a] \in BlockRec
      <4>1. /\ h.blk[a].prev \in Cells \cup {NULL} /\ h.blk[a].next \in Cells \cup {NULL}
            /\ h.blk[a].free \in BOOLEAN /\ h.blk[a].size \in Nat
        BY <2>1, <2>l, <2>r, <2>c5
      <4>2. b \in Cells
        BY <2>c5
      <4>3. s.blk[a] = [size |-> h.blk[a].size, free |-> h.blk[a].free, next |-> h.blk[a].next,
                        prev |-> IF a = nn THEN b ELSE h.blk[a].prev]
        BY <2>7
      <4>. QED
        BY <4>1, <4>2, <4>3 DEF BlockRec
    <3>4. \A a \in Blocks(s) : s.blk[a] \in BlockRec
      BY <2>5, <3>2, <3>3
    <3>. QED
      BY <2>5, <2>c5, <3>4
  <2>15. /\ s.head \in Blocks(s) /\ s.blk[s.head].prev = NULL
         /\ s.tail \in Blocks(s) /\ s.blk[s.tail].next = NULL
    <3>1. h.head # n /\ h.head # nn
      BY <2>2, <2>3, <2>4, <2>c5
    <3>2. s.blk[h.head].prev = NULL
      BY <2>8, <2>9, <2>c5, <3>1
    <3>3. CASE nn = NULL
      BY <2>3, <2>5, <2>8, <2>c5, <3>1, <3>2, <3>3
    <3>4. CASE nn # NULL
      <4>1. h.tail # n /\ h.tail # b
        BY <2>10, <2>n, <2>c5, <3>4
      <4>. QED
        BY <2>5, <2>9, <2>c5, <3>1, <3>2, <3>4, <4>1
    <3>. QED
      BY <3>3, <3>4
  <2>16. ASSUME NEW a \in Blocks(s), s.blk[a].next # NULL
         PROVE  /\ s.blk[a].next \in Blocks(s) /\ s.blk[s.blk[a].next].prev = a
                /\ a + HDR + s.blk[a].size <= s.blk[a].next
    <3>1. CASE a = b
      <4>1. nn \in Blocks(h) \ {b, n} /\ s.blk[b].next = nn
        BY <2>3, <2>4, <2>8, <2>16, <3>1
      <4>2. s.blk[nn].prev = b
        BY <2>9, <4>1
      <4>3. b + HDR + (sb + HDR + sn) <= nn
        BY <2>0, <2>2, <2>3, <2>4, <4>1
      <4>. QED
        BY <2>5, <2>8, <3>1, <4>1, <4>2, <4>3
    <3>2. CASE a # b
      <4>1. a \in Blocks(h) \ {b, n} /\ s.blk[a].next = h.blk[a].next /\ s.blk[a].size = h.blk[a].size
        BY <2>5, <2>9, <3>2
      <4>2. h.blk[a].next \in Blocks(h) /\ h.blk[h.blk[a].next].prev = a
            /\ a + HDR + h.blk[a].size <= h.blk[a].next
        BY <2>16, <2>c1, <4>1
      <4>3. h.blk[a].next # n /\ h.blk[a].next # nn
        BY <2>2, <2>3, <2>4, <4>1, <4>2
      <4>4. s.blk[h.blk[a].next].prev = a
        BY <2>8, <2>9, <4>2, <4>3
      <4>. QED
        BY <2>5, <4>1, <4>2, <4>3, <4>4
    <3>. QED
      BY <3>1, <3>2
  <2>17. ASSUME NEW a \in Blocks(s), s.blk[a].prev # NULL
         PROVE  s.blk[a].prev \in Blocks(s) /\ s.blk[s.blk[a].prev].next = a
    <3>1. CASE a = nn
      <4>1. a # NULL /\ a \in Blocks(h)
        BY <2>2, <2>5
      <4>2. a # n /\ a # b
        BY <2>3, <2>4, <3>1, <4>1
      <4>3. s.blk[a].prev = b
        BY <2>9, <3>1, <4>1, <4>2
      <4>. QED
        BY <2>3, <2>5, <2>8, <3>1, <4>3
    <3>2. CASE a # nn
      <4>1. s.blk[a].prev = h.blk[a].prev /\ a \in Blocks(h) \ {n}
        BY <2>5, <2>8, <2>9, <3>2
      <4>2. h.blk[a].prev \in Blocks(h) /\ h.blk[h.blk[a].prev].next = a
        BY <2>17, <2>c2, <4>1
      <4>3. h.blk[a].prev # n /\ h.blk[a].prev # b
        BY <2>10, <3>2, <4>1, <4>2
      <4>. QED
        BY <2>5, <2>9, <4>1, <4>2, <4>3
    <3>. QED
      BY <3>1, <3>2
  <2>18. ASSUME NEW a \in Blocks(s), NEW c \in Blocks(s), a < c
         PROVE  /\ s.blk[a].next # NULL /\ s.blk[a].next <= c
                /\ s.blk[c].prev # NULL /\ a <= s.blk[c].prev
    <3>0. /\ a \in Blocks(h) \ {n} /\ c \in Blocks(h) \ {n} /\ a \in Nat /\ c \in Nat
          /\ h.blk[a].next # NULL /\ h.blk[a].next <= c /\ h.blk[c].prev # NULL /\ a <= h.blk[c].prev
      BY <2>1, <2>5, <2>18, <2>c3
    <3>1. s.blk[a].next # NULL /\ s.blk[a].next <= c
      <4>1. CASE a = b
        <5>1. n < c
          BY <2>3, <2>10, <3>0, <4>1
        <5>. QED
          BY <2>3, <2>8, <2>10, <2>c3, <3>0, <4>1, <5>1
      <4>2. CASE a # b
        BY <2>9, <3>0, <4>2
      <4>. QED
        BY <4>1, <4>2
    <3>2. s.blk[c].prev # NULL /\ a <= s.blk[c].prev
      <4>1. CASE c = nn
        <5>1. s.blk[c].prev = b
          BY <2>2, <2>3, <2>4, <2>9, <3>0, <4>1
        <5>2. a < n
          BY <2>2, <2>3, <2>4, <3>0, <4>1
        <5>3. a <= b
          BY <2>3, <2>c3, <3>0, <5>2
        <5>. QED
          BY <2>2, <5>1, <5>3
      <4>2. CASE c # nn
        BY <2>8, <2>9, <3>0, <4>2
      <4>. QED
        BY <4>1, <4>2
    <3>. QED
      BY <3>1, <3>2
  <2>19. ASSUME NEW a \in Blocks(s) PROVE a + HDR + s.blk[a].size <= end
    <3>1. n + HDR + sn <= end
      BY <2>3, <2>e, <2>c4
    <3>2. b + HDR + (sb + HDR + sn) <= end
      BY <2>0, <2>3, <3>1
    <3>. QED
      BY <2>5, <2>8, <2>9, <2>c4, <3>2
  <2>20. Chain(s, end)
    BY <2>5, <2>14, <2>15, <2>16, <2>17, <2>18, <2>19 DEF Chain
  <2>. QED
    BY <2>20 DEF s
<1>. QED
  BY <1>1, <1>2

LEMMA ChunkChain ==
  ASSUME NEW h, NEW end \in 0 .. Top, Chain(h, end), NEW need \in Nat, NEW at \in Nat,
         end <= at, at + ChunkSize(need) <= Top
  PROVE  Chain(WithChunk(h, need, at), at + ChunkSize(need))
<1>. DEFINE s == WithChunk(h, need, at)  size == ChunkSize(need) - HDR
<1>0. end \in Nat /\ HDR \in Nat /\ HDR > 0
  BY Numbers
<1>1. \A a \in Blocks(h) : a \in Nat /\ h.blk[a].size \in Nat
  BY <1>0, ChainValues
<1>l. \A a \in Blocks(h) :
        h.blk[a].next \in Blocks(h) \cup {NULL} /\ h.blk[a].prev \in Blocks(h) \cup {NULL}
  BY <1>0, ChainValues
<1>r. \A a \in Blocks(h) :
        /\ h.blk[a] = [size |-> h.blk[a].size, free |-> h.blk[a].free,
                       next |-> h.blk[a].next, prev |-> h.blk[a].prev]
        /\ h.blk[a].free \in BOOLEAN
  BY <1>0, ChainValues
<1>2. NULL \notin Blocks(h) /\ NULL \notin Nat
  BY <1>0, ChainValues, NullAssumption
<1>c1. \A a \in Blocks(h) : h.blk[a].next # NULL =>
         /\ h.blk[a].next \in Blocks(h) /\ h.blk[h.blk[a].next].prev = a
         /\ a + HDR + h.blk[a].size <= h.blk[a].next
  BY DEF Chain
<1>c2. \A a \in Blocks(h) : h.blk[a].prev # NULL =>
         h.blk[a].prev \in Blocks(h) /\ h.blk[h.blk[a].prev].next = a
  BY DEF Chain
<1>c3. \A a, c \in Blocks(h) : a < c =>
         /\ h.blk[a].next # NULL /\ h.blk[a].next <= c
         /\ h.blk[c].prev # NULL /\ a <= h.blk[c].prev
  BY DEF Chain
<1>c4. \A a \in Blocks(h) : a + HDR + h.blk[a].size <= end
  BY DEF Chain
<1>c5. /\ h.head \in Blocks(h) /\ h.blk[h.head].prev = NULL
       /\ h.tail \in Blocks(h) /\ h.blk[h.tail].next = NULL
       /\ Blocks(h) \subseteq Cells
  BY DEF Chain
<1>z. size \in Nat /\ at + HDR + size = at + ChunkSize(need) /\ at < at + ChunkSize(need)
      /\ ChunkSize(need) \in Nat
  BY Numbers
<1>y. size \in Nat
  BY <1>z
<1>3. at \in Cells /\ at # NULL
  BY <1>2, <1>z, Numbers DEF Cells
<1>4. ASSUME NEW a \in Blocks(h) PROVE a < at /\ a + HDR + h.blk[a].size <= at
  BY <1>0, <1>1, <1>c4
<1>5. at \notin Blocks(h)
  BY <1>4
<1>6. /\ s = [blk |-> s.blk, head |-> s.head, tail |-> s.tail]
      /\ s.head = h.head /\ s.tail = at
      /\ Blocks(s) = Blocks(h) \cup {at}
      /\ s.blk = [a \in Blocks(s) |-> s.blk[a]]
      /\ s.blk[at] = [size |-> size, free |-> TRUE, next |-> NULL, prev |-> h.tail]
  BY DEF WithChunk, Blocks
<1>7. ASSUME NEW a \in Blocks(h)
      PROVE  s.blk[a] = [size |-> h.blk[a].size, free |-> h.blk[a].free,
                         next |-> IF a = h.tail THEN at ELSE h.blk[a].next, prev |-> h.blk[a].prev]
  <2>1. s.blk[a] = IF a = h.tail THEN [h.blk[a] EXCEPT !.next = at] ELSE h.blk[a]
    BY <1>5 DEF WithChunk
  <2>. QED
    BY <1>r, <2>1
<1>. HIDE DEF s, size
<1>8. ASSUME NEW a \in Blocks(h)
      PROVE  /\ s.blk[a].size = h.blk[a].size /\ s.blk[a].prev = h.blk[a].prev
             /\ s.blk[a].next = IF a = h.tail THEN at ELSE h.blk[a].next
  <2>1. s.blk[a] = [size |-> h.blk[a].size, free |-> h.blk[a].free,
                    next |-> IF a = h.tail THEN at ELSE h.blk[a].next, prev |-> h.blk[a].prev]
    BY <1>7
  <2>. QED
    BY <2>1
<1>9. s.blk[at].size = size /\ s.blk[at].next = NULL /\ s.blk[at].prev = h.tail
  BY <1>6
<1>10. s.blk \in [Blocks(s) -> BlockRec] /\ Blocks(s) \subseteq Cells
  <2>1. s.blk[at] \in BlockRec
    <3>1. h.tail \in Cells
      BY <1>c5
    <3>2. s.blk[at] = [size |-> size, free |-> TRUE, next |-> NULL, prev |-> h.tail]
      BY <1>6
    <3>. QED
      BY <1>y, <3>1, <3>2 DEF BlockRec
  <2>2. ASSUME NEW a \in Blocks(h) PROVE s.blk[a] \in BlockRec
    <3>1. /\ h.blk[a].prev \in Cells \cup {NULL} /\ h.blk[a].next \in Cells \cup {NULL}
          /\ h.blk[a].free \in BOOLEAN /\ h.blk[a].size \in Nat
      BY <1>1, <1>l, <1>r, <1>c5
    <3>2. s.blk[a] = [size |-> h.blk[a].size, free |-> h.blk[a].free,
                      next |-> IF a = h.tail THEN at ELSE h.blk[a].next, prev |-> h.blk[a].prev]
      BY <1>7
    <3>. QED
      BY <1>3, <3>1, <3>2 DEF BlockRec
  <2>3. \A a \in Blocks(s) : s.blk[a] \in BlockRec
    BY <1>6, <2>1, <2>2
  <2>. QED
    BY <1>3, <1>6, <1>c5, <2>3
<1>11. /\ s.head \in Blocks(s) /\ s.blk[s.head].prev = NULL
       /\ s.tail \in Blocks(s) /\ s.blk[s.tail].next = NULL
  BY <1>6, <1>8, <1>9, <1>c5
<1>12. ASSUME NEW a \in Blocks(s), s.blk[a].next # NULL
       PROVE  /\ s.blk[a].next \in Blocks(s) /\ s.blk[s.blk[a].next].prev = a
              /\ a + HDR + s.blk[a].size <= s.blk[a].next
  <2>1. a \in Blocks(h)
    BY <1>6, <1>9, <1>12
  <2>2. CASE a = h.tail
    BY <1>4, <1>6, <1>8, <1>9, <2>1, <2>2
  <2>3. CASE a # h.tail
    BY <1>6, <1>8, <1>c1, <1>12, <2>1, <2>3
  <2>. QED
    BY <2>2, <2>3
<1>13. ASSUME NEW a \in Blocks(s), s.blk[a].prev # NULL
       PROVE  s.blk[a].prev \in Blocks(s) /\ s.blk[s.blk[a].prev].next = a
  <2>1. CASE a = at
    BY <1>6, <1>8, <1>9, <1>c5, <2>1
  <2>2. CASE a # at
    <3>1. a \in Blocks(h) /\ s.blk[a].prev = h.blk[a].prev
      BY <1>6, <1>8, <2>2
    <3>2. h.blk[a].prev \in Blocks(h) /\ h.blk[h.blk[a].prev].next = a
      BY <1>c2, <1>13, <3>1
    <3>3. h.blk[a].prev # h.tail
      BY <1>2, <1>c5, <3>1, <3>2
    <3>. QED
      BY <1>6, <1>8, <3>1, <3>2, <3>3
  <2>. QED
    BY <2>1, <2>2
<1>14. ASSUME NEW a \in Blocks(s), NEW c \in Blocks(s), a < c
       PROVE  /\ s.blk[a].next # NULL /\ s.blk[a].next <= c
              /\ s.blk[c].prev # NULL /\ a <= s.blk[c].prev
  <2>1. a \in Blocks(h)
    <3>1. SUFFICES ASSUME a = at PROVE FALSE
      BY <1>6
    <3>2. c \in Blocks(h) => c < at /\ c \in Nat
      BY <1>1, <1>4
    <3>. QED
      BY <1>6, <1>14, <3>1, <3>2
  <2>2. CASE c = at
    <3>1. s.blk[c].prev # NULL /\ a <= s.blk[c].prev
      <4>1. s.blk[c].prev = h.tail
        BY <1>9, <2>2
      <4>2. ~(h.tail < a)
        BY <1>c3, <1>c5, <2>1
      <4>. QED
        BY <1>1, <1>2, <1>c5, <2>1, <4>1, <4>2
    <3>2. s.blk[a].next # NULL /\ s.blk[a].next <= c
      <4>1. CASE a = h.tail
        BY <1>3, <1>8, <2>1, <2>2, <4>1
      <4>2. CASE a # h.tail
        <5>1. a < h.tail
          <6>1. a \in Nat /\ h.tail \in Nat /\ ~(h.tail < a)
            BY <1>1, <1>c3, <1>c5, <2>1
          <6>. QED
            BY <4>2, <6>1
        <5>2. h.blk[a].next # NULL /\ h.blk[a].next \in Blocks(h)
          BY <1>c1, <1>c3, <1>c5, <2>1, <5>1
        <5>3. h.blk[a].next <= at
          BY <1>1, <1>4, <5>2
        <5>. QED
          BY <1>8, <2>1, <2>2, <4>2, <5>2, <5>3
      <4>. QED
        BY <4>1, <4>2
    <3>. QED
      BY <3>1, <3>2
  <2>3. CASE c # at
    <3>1. c \in Blocks(h)
      BY <1>6, <2>3
    <3>2. /\ h.blk[a].next # NULL /\ h.blk[a].next <= c /\ h.blk[c].prev # NULL /\ a <= h.blk[c].prev
      BY <1>c3, <1>14, <2>1, <3>1
    <3>3. a # h.tail
      BY <1>c5, <3>2
    <3>. QED
      BY <1>8, <2>1, <3>1, <3>2, <3>3
  <2>. QED
    BY <2>2, <2>3
<1>15. ASSUME NEW a \in Blocks(s) PROVE a + HDR + s.blk[a].size <= at + ChunkSize(need)
  <2>1. CASE a = at
    BY <1>9, <1>z, <2>1
  <2>2. CASE a # at
    <3>1. a \in Blocks(h) /\ s.blk[a].size = h.blk[a].size /\ a \in Nat /\ h.blk[a].size \in Nat
      BY <1>1, <1>6, <1>8, <2>2
    <3>2. a + HDR + h.blk[a].size <= at
      BY <1>4, <3>1
    <3>. QED
      BY <1>0, <1>z, <3>1, <3>2
  <2>. QED
    BY <2>1, <2>2
<1>16. Chain(s, at + ChunkSize(need))
  BY <1>6, <1>10, <1>11, <1>12, <1>13, <1>14, <1>15 DEF Chain
<1>. QED
  BY <1>16 DEF s

\* A chain stays one when neither sizes nor links change.
LEMMA SameChain ==
  ASSUME NEW h, NEW end \in Nat, Chain(h, end), NEW g, Blocks(g) = Blocks(h),
         g.head = h.head, g.tail = h.tail, g = [blk |-> g.blk, head |-> g.head, tail |-> g.tail],
         g.blk \in [Blocks(h) -> BlockRec],
         \A a \in Blocks(h) : /\ g.blk[a].size = h.blk[a].size
                              /\ g.blk[a].next = h.blk[a].next
                              /\ g.blk[a].prev = h.blk[a].prev
  PROVE  Chain(g, end)
  BY DEF Chain

\* In the list g the flag of block b of the list h is v.
Flagged(h, g, end, b, v) ==
    /\ Chain(g, end) /\ Blocks(g) = Blocks(h) /\ g.blk[b].free = v
    /\ \A a \in Blocks(h) : g.blk[a].size = h.blk[a].size
    /\ \A a \in Blocks(h) \ {b} : g.blk[a].free = h.blk[a].free

LEMMA FlagChain ==
  ASSUME NEW h, NEW end \in Nat, Chain(h, end), NEW b \in Blocks(h), NEW v \in BOOLEAN,
         NEW g, g = [h EXCEPT !.blk[b].free = v]
  PROVE  Flagged(h, g, end, b, v)
<1>1. /\ h = [blk |-> h.blk, head |-> h.head, tail |-> h.tail]
      /\ h.blk = [a \in Blocks(h) |-> h.blk[a]]
  BY DEF Chain
<1>r. \A a \in Blocks(h) :
          /\ h.blk[a] = [size |-> h.blk[a].size, free |-> h.blk[a].free,
                         next |-> h.blk[a].next, prev |-> h.blk[a].prev]
          /\ h.blk[a].size \in Nat
  BY ChainValues
<1>2. g = [blk |-> [h.blk EXCEPT ![b].free = v], head |-> h.head, tail |-> h.tail]
  BY <1>1
<1>3. g.blk = [a \in Blocks(h) |-> IF a = b THEN [h.blk[b] EXCEPT !.free = v] ELSE h.blk[a]]
  BY <1>1, <1>2
<1>4. Blocks(g) = Blocks(h) /\ g.head = h.head /\ g.tail = h.tail
      /\ g = [blk |-> g.blk, head |-> g.head, tail |-> g.tail]
  BY <1>2, <1>3 DEF Blocks
<1>5. g.blk[b] = [size |-> h.blk[b].size, free |-> v, next |-> h.blk[b].next, prev |-> h.blk[b].prev]
  <2>1. g.blk[b] = [h.blk[b] EXCEPT !.free = v]
    BY <1>3
  <2>2. h.blk[b] = [size |-> h.blk[b].size, free |-> h.blk[b].free,
                    next |-> h.blk[b].next, prev |-> h.blk[b].prev]
    BY <1>r
  <2>. QED
    BY <2>1, <2>2
<1>6. \A a \in Blocks(h) \ {b} : g.blk[a] = h.blk[a]
  BY <1>3
<1>7. \A a \in Blocks(h) : /\ g.blk[a].size = h.blk[a].size
                           /\ g.blk[a].next = h.blk[a].next
                           /\ g.blk[a].prev = h.blk[a].prev
  BY <1>5, <1>6
<1>8. g.blk \in [Blocks(h) -> BlockRec]
  <2>1. \A a \in Blocks(h) : h.blk[a] \in BlockRec
    BY DEF Chain
  <2>2. g.blk[b] \in BlockRec
    BY <1>5, <2>1 DEF BlockRec
  <2>3. \A a \in Blocks(h) : g.blk[a] \in BlockRec
    BY <1>6, <2>1, <2>2
  <2>4. g.blk = [a \in Blocks(h) |-> g.blk[a]]
    BY <1>3
  <2>. QED
    BY <2>3, <2>4
<1>9. Chain(g, end)
  BY <1>4, <1>7, <1>8, SameChain
<1>. QED
  BY <1>4, <1>5, <1>6, <1>7, <1>9 DEF Flagged

(***************************************************************************)
(* Counting: the blocks do not overlap.                                    *)
(***************************************************************************)
Part(h, B) == UNION {Span(a, HDR + h.blk[a].size) : a \in B}

LEMMA Apart ==
  ASSUME NEW h, NEW end \in Nat, Chain(h, end), NEW a \in Blocks(h), NEW b \in Blocks(h), a < b
  PROVE  a + HDR + h.blk[a].size <= b
<1>1. h.blk[a].next # NULL /\ h.blk[a].next <= b
  BY DEF Chain
<1>2. h.blk[a].next \in Blocks(h) /\ a + HDR + h.blk[a].size <= h.blk[a].next
  BY <1>1 DEF Chain
<1>3. a \in Nat /\ b \in Nat /\ h.blk[a].next \in Nat /\ h.blk[a].size \in Nat /\ HDR \in Nat
  BY <1>2, ChainValues, Numbers
<1>. QED
  BY <1>1, <1>2, <1>3

LEMMA SpanSize ==
  ASSUME NEW a \in Nat, NEW n \in Nat
  PROVE  IsFiniteSet(Span(a, n)) /\ Cardinality(Span(a, n)) = n
<1>1. a + n - 1 \in Int /\ a \in Int
  OBVIOUS
<1>. QED
  BY <1>1, FS_Interval DEF Span

LEMMA PartFinite ==
  ASSUME NEW h, NEW end \in Nat, Chain(h, end), NEW B \in SUBSET Blocks(h)
  PROVE  Part(h, B) \subseteq 0 .. end - 1 /\ IsFiniteSet(Part(h, B))
<1>1. Part(h, B) \subseteq 0 .. end - 1
  <2>1. SUFFICES ASSUME NEW a \in B, NEW c \in Span(a, HDR + h.blk[a].size) PROVE c \in 0 .. end - 1
    BY DEF Part
  <2>2. a \in Nat /\ h.blk[a].size \in Nat /\ HDR \in Nat
    BY ChainValues, Numbers
  <2>3. a + HDR + h.blk[a].size <= end
    BY DEF Chain
  <2>. QED
    BY <2>2, <2>3 DEF Span
<1>2. IsFiniteSet(0 .. end - 1)
  BY FS_Interval
<1>. QED
  BY <1>1, <1>2, FS_Subset

LEMMA PartPlus ==
  ASSUME NEW h, NEW end \in Nat, Chain(h, end), NEW B \in SUBSET Blocks(h), NEW b \in Blocks(h) \ B
  PROVE  /\ Cardinality(Part(h, B)) \in Nat
         /\ Cardinality(Part(h, B \cup {b})) = Cardinality(Part(h, B)) + HDR + h.blk[b].size
<1>. DEFINE sp == Span(b, HDR + h.blk[b].size)
<1>0. b \in Nat /\ h.blk[b].size \in Nat /\ HDR \in Nat
  BY ChainValues, Numbers
<1>1. IsFiniteSet(sp) /\ Cardinality(sp) = HDR + h.blk[b].size
  BY <1>0, SpanSize
<1>2. IsFiniteSet(Part(h, B)) /\ Cardinality(Part(h, B)) \in Nat
  BY PartFinite, FS_CardinalityType
<1>3. Part(h, B \cup {b}) = Part(h, B) \cup sp
  BY DEF Part
<1>4. Part(h, B) \cap sp = {}
  <2>1. SUFFICES ASSUME NEW a \in B, NEW c \in Span(a, HDR + h.blk[a].size), c \in sp PROVE FALSE
    BY DEF Part
  <2>2. a \in Nat /\ h.blk[a].size \in Nat /\ a # b
    BY ChainValues
  <2>3. a < b => a + HDR + h.blk[a].size <= b
    BY Apart
  <2>4. b < a => b + HDR + h.blk[b].size <= a
    BY Apart
  <2>5. c \in Int /\ a <= c /\ c < a + HDR + h.blk[a].size /\ b <= c /\ c < b + HDR + h.blk[b].size
    BY <1>0, <2>1, <2>2 DEF Span
  <2>. QED
    BY <1>0, <2>2, <2>3, <2>4, <2>5
<1>5. Cardinality(Part(h, B) \cup sp) = Cardinality(Part(h, B)) + Cardinality(sp)
  <2>1. Cardinality(Part(h, B) \cap sp) = 0
    BY <1>4, FS_EmptySet
  <2>. DEFINE P == Part(h, B)
  <2>2. IsFiniteSet(P) /\ IsFiniteSet(sp) /\ Cardinality(P) \in Nat /\ Cardinality(sp) \in Nat
        /\ Cardinality(P \cap sp) = 0
    BY <1>0, <1>1, <1>2, <2>1
  <2>. HIDE DEF sp, P
  <2>3. Cardinality(P \cup sp) = Cardinality(P) + Cardinality(sp) - Cardinality(P \cap sp)
    BY <2>2, FS_Union
  <2>. QED
    BY <2>2, <2>3 DEF P
<1>6. Cardinality(Part(h, B \cup {b})) = Cardinality(Part(h, B)) + (HDR + h.blk[b].size)
  BY <1>1, <1>3, <1>5
<1>. QED
  BY <1>0, <1>2, <1>6

Count(h) == Cardinality(Covered(h))

\* The part of the inductive invariant that holds after a merge over foreign
\* memory too: the blocks have as many cells as were given.
Counted == Count(heap) = brk - Cardinality(foreign)

LEMMA CountIsPart ==
  ASSUME NEW h, NEW end \in Nat, Chain(h, end)
  PROVE  Count(h) = Cardinality(Part(h, Blocks(h))) /\ Count(h) \in Nat
<1>1. Covered(h) = Part(h, Blocks(h))
  BY DEF Covered, Part
<1>2. IsFiniteSet(Part(h, Blocks(h)))
  BY PartFinite
<1>. QED
  BY <1>1, <1>2, FS_CardinalityType DEF Count

\* Blocks in the order of the addresses, of as many cells as were given and none
\* of them foreign, are the cells that were given.
LEMMA CountTiles ==
  ASSUME NEW h, NEW end \in 0 .. Top, Chain(h, end),
         NEW F \in SUBSET (0 .. end - 1), Count(h) = end - Cardinality(F),
         Covered(h) \cap F = {}
  PROVE  Covered(h) = (0 .. end - 1) \ F
<1>. DEFINE own == (0 .. end - 1) \ F
<1>1. end \in Nat /\ HDR \in Nat
  BY Numbers
<1>2. IsFiniteSet(0 .. end - 1) /\ Cardinality(0 .. end - 1) = end
  <2>1. IsFiniteSet(Span(0, end)) /\ Cardinality(Span(0, end)) = end
    BY <1>1, SpanSize
  <2>2. Span(0, end) = 0 .. end - 1
    BY <1>1 DEF Span
  <2>. QED
    BY <2>1, <2>2
<1>3. IsFiniteSet(F) /\ Cardinality(F) \in Nat
  BY <1>2, FS_Subset, FS_CardinalityType
<1>4. IsFiniteSet(own) /\ Cardinality(own) \in Nat
  BY <1>2, FS_Subset, FS_CardinalityType
<1>5. own \cup F = 0 .. end - 1 /\ own \cap F = {}
  OBVIOUS
<1>6. Cardinality(own) = end - Cardinality(F)
  <2>1. Cardinality(own \cup F) = Cardinality(own) + Cardinality(F) - Cardinality(own \cap F)
    <3>. HIDE DEF own
    <3>. QED
      BY <1>3, <1>4, FS_Union
  <2>2. Cardinality(own \cap F) = 0
    BY <1>5, FS_EmptySet
  <2>3. Cardinality(own \cup F) = end
    BY <1>2, <1>5
  <2>. HIDE DEF own
  <2>. QED
    BY <1>1, <1>3, <1>4, <2>1, <2>2, <2>3
<1>7. Covered(h) \subseteq 0 .. end - 1
  <2>1. SUFFICES ASSUME NEW a \in Blocks(h), NEW c \in Span(a, HDR + h.blk[a].size)
                 PROVE  c \in 0 .. end - 1
    BY DEF Covered
  <2>2. a \in Nat /\ h.blk[a].size \in Nat /\ a + HDR + h.blk[a].size <= end
    BY <1>1, Numbers DEF Chain, BlockRec, Cells
  <2>. QED
    BY <1>1, <2>1, <2>2 DEF Span
<1>8. Covered(h) \in SUBSET own
  BY <1>7
<1>9. Cardinality(own) = Cardinality(Covered(h))
  BY <1>6 DEF Count
<1>. HIDE DEF own
<1>10. own = Covered(h)
  BY <1>4, <1>8, <1>9, FS_Subset
<1>. QED
  BY <1>10 DEF own

LEMMA PartSame ==
  ASSUME NEW h, NEW g, NEW B, \A a \in B : g.blk[a].size = h.blk[a].size
  PROVE  Part(g, B) = Part(h, B)
  BY DEF Part

(***************************************************************************)
(* What the list operations do to the blocks in use and to the cells.      *)
(***************************************************************************)
LEMMA SplitEffect ==
  ASSUME NEW h, NEW end \in 0 .. Top, Chain(h, end), NEW b \in Blocks(h), NEW n \in Nat
  PROVE  LET s == Split(h, b, n)
         IN  /\ Busy(s) = Busy(h) /\ Count(s) = Count(h)
             /\ \A a \in Blocks(h) : a \in Blocks(s) /\ s.blk[a].free = h.blk[a].free
             /\ \A a \in Blocks(h) \ {b} : s.blk[a].size = h.blk[a].size
             /\ \A m \in Nat : m <= n /\ m <= h.blk[b].size => m <= s.blk[b].size
<1>. DEFINE s == Split(h, b, n)  t == b + HDR + n  nx == h.blk[b].next
<1>0. end \in Nat /\ HDR \in Nat /\ HDR > 0 /\ MinRest \in Nat
  BY Numbers
<1>1. CASE h.blk[b].size < n + HDR + MinRest
  BY <1>1 DEF Split
<1>2. CASE ~(h.blk[b].size < n + HDR + MinRest)
  <2>r. \A a \in Blocks(h) :
          /\ h.blk[a] = [size |-> h.blk[a].size, free |-> h.blk[a].free,
                         next |-> h.blk[a].next, prev |-> h.blk[a].prev]
          /\ h.blk[a].size \in Nat
    BY <1>0, ChainValues
  <2>d. PICK sb \in Nat : h.blk[b].size = sb
    BY <2>r
  <2>1. n + HDR + MinRest <= sb /\ b \in Nat
    <3>1. b \in Nat
      BY <1>0, ChainValues
    <3>2. ~(sb < n + HDR + MinRest)
      BY <1>2, <2>d
    <3>. QED
      BY <1>0, <3>1, <3>2
  <2>p. PICK rest \in Nat : sb = n + HDR + rest
    <3>1. sb - n - HDR \in Nat /\ sb = n + HDR + (sb - n - HDR)
      BY <1>0, <2>1
    <3>. QED
      BY <3>1
  <2>2. t \notin Blocks(h)
    <3>1. SUFFICES ASSUME t \in Blocks(h) PROVE FALSE
      OBVIOUS
    <3>2. b < t /\ t < b + HDR + sb
      BY <1>0, <2>1, <2>p
    <3>3. b + HDR + sb <= t
      BY <1>0, <2>d, <3>1, <3>2, Apart
    <3>. QED
      BY <1>0, <2>1, <3>2, <3>3
  <2>3. Blocks(s) = Blocks(h) \cup {t}
    BY <1>2 DEF Split, Blocks
  <2>4. s.blk[t].size = rest /\ s.blk[t].free = TRUE
    <3>1. s.blk[t] = [size |-> h.blk[b].size - n - HDR, free |-> TRUE, next |-> nx, prev |-> b]
      BY <1>2, <2>2 DEF Split
    <3>2. h.blk[b].size - n - HDR = rest
      BY <1>0, <2>d, <2>p
    <3>. QED
      BY <3>1, <3>2
  <2>5. s.blk[b].size = n /\ s.blk[b].free = h.blk[b].free
    <3>1. s.blk[b] = [h.blk[b] EXCEPT !.size = n, !.next = t]
      BY <1>2, <2>2 DEF Split
    <3>2. h.blk[b] = [size |-> h.blk[b].size, free |-> h.blk[b].free,
                      next |-> h.blk[b].next, prev |-> h.blk[b].prev]
      BY <2>r
    <3>. HIDE DEF t
    <3>. QED
      BY <3>1, <3>2
  <2>6. ASSUME NEW a \in Blocks(h) \ {b}
        PROVE  s.blk[a].size = h.blk[a].size /\ s.blk[a].free = h.blk[a].free
    <3>1. s.blk[a] = IF a = nx THEN [h.blk[a] EXCEPT !.prev = t] ELSE h.blk[a]
      BY <1>2, <2>2 DEF Split
    <3>2. h.blk[a] = [size |-> h.blk[a].size, free |-> h.blk[a].free,
                      next |-> h.blk[a].next, prev |-> h.blk[a].prev]
      BY <2>r
    <3>. HIDE DEF t
    <3>. QED
      BY <3>1, <3>2
  <2>7. Chain(s, end)
    BY SplitChain
  <2>. HIDE DEF s, t, nx
  <2>8. Busy(s) = Busy(h)
    BY <2>2, <2>3, <2>4, <2>5, <2>6 DEF Busy
  <2>9. Count(s) = Count(h)
    <3>. DEFINE R == Blocks(h) \ {b}
    <3>1. R \cup {b} = Blocks(h) /\ (R \cup {b}) \cup {t} = Blocks(s) /\ t \in Blocks(s) \ (R \cup {b})
      BY <2>2, <2>3
    <3>2. Cardinality(Part(h, R)) \in Nat
          /\ Cardinality(Part(h, R \cup {b})) = Cardinality(Part(h, R)) + HDR + sb
      BY <1>0, <2>d, PartPlus
    <3>3. /\ Cardinality(Part(s, R \cup {b})) = Cardinality(Part(s, R)) + HDR + n
      <4>1. R \in SUBSET Blocks(s) /\ b \in Blocks(s) \ R
        BY <2>3
      <4>. QED
        BY <1>0, <2>5, <2>7, <4>1, PartPlus
    <3>4. Cardinality(Part(s, (R \cup {b}) \cup {t})) = Cardinality(Part(s, R \cup {b})) + HDR + rest
      <4>1. R \cup {b} \in SUBSET Blocks(s)
        BY <2>3
      <4>. HIDE DEF R
      <4>. QED
        BY <1>0, <2>4, <2>7, <3>1, <4>1, PartPlus
    <3>5. Part(s, R) = Part(h, R)
      BY <2>6, PartSame
    <3>6. Count(s) = Cardinality(Part(s, (R \cup {b}) \cup {t})) /\ Count(h) = Cardinality(Part(h, R \cup {b}))
      BY <1>0, <2>7, <3>1, CountIsPart
    <3>. DEFINE c == Cardinality(Part(h, R))
    <3>7. c \in Nat /\ Count(h) = c + HDR + sb /\ Count(s) = c + HDR + n + HDR + rest
      BY <3>2, <3>3, <3>4, <3>5, <3>6
    <3>. HIDE DEF c
    <3>. QED
      BY <1>0, <2>p, <3>7
  <2>. QED
    BY <2>3, <2>5, <2>6, <2>8, <2>9 DEF s
<1>. QED
  BY <1>1, <1>2

LEMMA MergeEffect ==
  ASSUME NEW h, NEW end \in 0 .. Top, Chain(h, end), NEW b \in Blocks(h)
  PROVE  LET s == MergeNext(h, b)
         IN  /\ Busy(s) = Busy(h) /\ Count(s) = Count(h)
             /\ b \in Blocks(s) /\ s.blk[b].free = h.blk[b].free /\ s.blk[b].prev = h.blk[b].prev
             /\ \A a \in Busy(h) \ {b} : s.blk[a].size = h.blk[a].size
             /\ s.blk[b].size = IF NextIsFree(h, b)
                                THEN h.blk[b].size + HDR + h.blk[h.blk[b].next].size
                                ELSE h.blk[b].size
<1>. DEFINE s == MergeNext(h, b)  n == h.blk[b].next  nn == h.blk[n].next
<1>0. end \in Nat /\ HDR \in Nat /\ HDR > 0
  BY Numbers
<1>1. CASE ~NextIsFree(h, b)
  BY <1>1 DEF MergeNext
<1>2. CASE NextIsFree(h, b)
  <2>r. \A a \in Blocks(h) :
          /\ h.blk[a] = [size |-> h.blk[a].size, free |-> h.blk[a].free,
                         next |-> h.blk[a].next, prev |-> h.blk[a].prev]
          /\ h.blk[a].size \in Nat /\ a \in Nat
    BY <1>0, ChainValues
  <2>1. n # NULL /\ h.blk[n].free
    BY <1>2 DEF NextIsFree
  <2>2. n \in Blocks(h) /\ b + HDR + h.blk[b].size <= n
    BY <2>1 DEF Chain
  <2>d. PICK sb \in Nat, sn \in Nat : h.blk[b].size = sb /\ h.blk[n].size = sn
    BY <2>r, <2>2
  <2>3. n # b
    <3>1. b \in Nat /\ b + HDR + sb <= n
      BY <2>2, <2>d, <2>r
    <3>. HIDE DEF n
    <3>. QED
      BY <1>0, <3>1
  <2>n. nn # b /\ nn # n
    <3>1. nn # NULL => nn \in Blocks(h) /\ h.blk[nn].prev = n /\ n + HDR + sn <= nn
      BY <2>2, <2>d DEF Chain
    <3>2. h.blk[n].prev = b /\ b \in Nat /\ n \in Nat /\ NULL \notin Nat
      BY <2>1, <2>2, <2>r, NullAssumption DEF Chain
    <3>3. CASE nn = NULL
      BY <3>2, <3>3
    <3>4. CASE nn # NULL
      <4>. HIDE DEF n, nn
      <4>1. nn \in Nat /\ b + HDR + sb <= n /\ n + HDR + sn <= nn
        BY <2>2, <2>d, <2>r, <3>1, <3>4
      <4>. QED
        BY <1>0, <3>2, <4>1
    <3>. QED
      BY <3>3, <3>4
  <2>4. Blocks(s) = Blocks(h) \ {n}
    BY <1>2 DEF MergeNext, Blocks
  <2>5. s.blk[b].size = sb + HDR + sn /\ s.blk[b].free = h.blk[b].free /\ s.blk[b].prev = h.blk[b].prev
    <3>1. s.blk[b] = [h.blk[b] EXCEPT !.size = @ + HDR + h.blk[n].size, !.next = nn]
      BY <1>2, <2>3 DEF MergeNext
    <3>2. h.blk[b] = [size |-> h.blk[b].size, free |-> h.blk[b].free,
                      next |-> h.blk[b].next, prev |-> h.blk[b].prev]
      BY <2>r
    <3>. QED
      BY <2>d, <3>1, <3>2
  <2>6. ASSUME NEW a \in Blocks(h) \ {b, n}
        PROVE  s.blk[a].size = h.blk[a].size /\ s.blk[a].free = h.blk[a].free
    <3>1. s.blk[a] = IF a = nn THEN [h.blk[a] EXCEPT !.prev = b] ELSE h.blk[a]
      BY <1>2 DEF MergeNext
    <3>2. h.blk[a] = [size |-> h.blk[a].size, free |-> h.blk[a].free,
                      next |-> h.blk[a].next, prev |-> h.blk[a].prev]
      BY <2>r
    <3>. HIDE DEF nn
    <3>. QED
      BY <3>1, <3>2
  <2>7. Chain(s, end)
    BY MergeChain
  <2>. HIDE DEF s, n, nn
  <2>8. Busy(s) = Busy(h)
    BY <2>1, <2>3, <2>4, <2>5, <2>6 DEF Busy
  <2>9. Count(s) = Count(h)
    <3>. DEFINE R == Blocks(h) \ {b, n}
    <3>1. /\ (R \cup {b}) \cup {n} = Blocks(h) /\ n \in Blocks(h) \ (R \cup {b})
          /\ R \cup {b} = Blocks(s)
      BY <2>2, <2>3, <2>4
    <3>2. Cardinality(Part(h, R)) \in Nat
          /\ Cardinality(Part(h, R \cup {b})) = Cardinality(Part(h, R)) + HDR + sb
      BY <1>0, <2>d, PartPlus
    <3>3. Cardinality(Part(h, (R \cup {b}) \cup {n})) = Cardinality(Part(h, R \cup {b})) + HDR + sn
      <4>1. R \cup {b} \in SUBSET Blocks(h)
        OBVIOUS
      <4>. HIDE DEF R
      <4>. QED
        BY <1>0, <2>d, <3>1, <4>1, PartPlus
    <3>4. Cardinality(Part(s, R \cup {b})) = Cardinality(Part(s, R)) + HDR + (sb + HDR + sn)
      <4>1. R \in SUBSET Blocks(s) /\ b \in Blocks(s) \ R
        BY <2>3, <2>4
      <4>. QED
        BY <1>0, <2>5, <2>7, <4>1, PartPlus
    <3>5. Part(s, R) = Part(h, R)
      BY <2>6, PartSame
    <3>6. Count(h) = Cardinality(Part(h, (R \cup {b}) \cup {n})) /\ Count(s) = Cardinality(Part(s, R \cup {b}))
      BY <1>0, <2>7, <3>1, CountIsPart
    <3>. DEFINE c == Cardinality(Part(h, R))
    <3>7. c \in Nat /\ Count(h) = c + HDR + sb + HDR + sn /\ Count(s) = c + HDR + (sb + HDR + sn)
      BY <3>2, <3>3, <3>4, <3>5, <3>6
    <3>. HIDE DEF c
    <3>. QED
      BY <1>0, <3>7
  <2>10. \A a \in Busy(h) \ {b} : s.blk[a].size = h.blk[a].size
    BY <2>1, <2>6 DEF Busy
  <2>11. b \in Blocks(s)
    BY <2>3, <2>4
  <2>. QED
    BY <1>2, <2>5, <2>d, <2>8, <2>9, <2>10, <2>11 DEF s, n
<1>. QED
  BY <1>1, <1>2

LEMMA ChunkEffect ==
  ASSUME NEW h, NEW end \in 0 .. Top, Chain(h, end), NEW need \in Nat, NEW at \in Nat,
         end <= at, at + ChunkSize(need) <= Top
  PROVE  LET s == WithChunk(h, need, at)
         IN  /\ Busy(s) = Busy(h) /\ Count(s) = Count(h) + ChunkSize(need)
             /\ at \in Blocks(s) \ Blocks(h) /\ s.blk[at].free /\ need <= s.blk[at].size
             /\ \A a \in Blocks(h) : s.blk[a].size = h.blk[a].size
<1>. DEFINE s == WithChunk(h, need, at)
<1>0. end \in Nat /\ HDR \in Nat /\ HDR > 0 /\ ChunkSize(need) \in Nat /\ need + HDR <= ChunkSize(need)
  BY Numbers
<1>r. \A a \in Blocks(h) :
          /\ h.blk[a] = [size |-> h.blk[a].size, free |-> h.blk[a].free,
                         next |-> h.blk[a].next, prev |-> h.blk[a].prev]
          /\ h.blk[a].size \in Nat /\ a \in Nat
  BY <1>0, ChainValues
<1>d. PICK size \in Nat : ChunkSize(need) = size + HDR
  <2>1. ChunkSize(need) - HDR \in Nat /\ ChunkSize(need) = (ChunkSize(need) - HDR) + HDR
    BY <1>0
  <2>. QED
    BY <2>1
<1>1. at \notin Blocks(h)
  <2>1. SUFFICES ASSUME at \in Blocks(h) PROVE FALSE
    OBVIOUS
  <2>2. at + HDR + h.blk[at].size <= end /\ h.blk[at].size \in Nat
    BY <1>r, <2>1 DEF Chain
  <2>. QED
    BY <1>0, <2>2
<1>2. Blocks(s) = Blocks(h) \cup {at}
  BY DEF WithChunk, Blocks
<1>3. s.blk[at].size = size /\ s.blk[at].free = TRUE
  <2>1. s.blk[at] = [size |-> ChunkSize(need) - HDR, free |-> TRUE, next |-> NULL, prev |-> h.tail]
    BY DEF WithChunk
  <2>2. ChunkSize(need) - HDR = size
    BY <1>0, <1>d
  <2>. QED
    BY <2>1, <2>2
<1>4. ASSUME NEW a \in Blocks(h)
      PROVE  s.blk[a].size = h.blk[a].size /\ s.blk[a].free = h.blk[a].free
  <2>1. s.blk[a] = IF a = h.tail THEN [h.blk[a] EXCEPT !.next = at] ELSE h.blk[a]
    BY <1>1 DEF WithChunk
  <2>2. h.blk[a] = [size |-> h.blk[a].size, free |-> h.blk[a].free,
                    next |-> h.blk[a].next, prev |-> h.blk[a].prev]
    BY <1>r
  <2>. HIDE DEF s
  <2>. QED
    BY <2>1, <2>2
<1>5. Chain(s, at + ChunkSize(need)) /\ at + ChunkSize(need) \in Nat
  BY <1>0, ChunkChain
<1>. HIDE DEF s
<1>6. Busy(s) = Busy(h)
  BY <1>1, <1>2, <1>3, <1>4 DEF Busy
<1>7. Count(s) = Count(h) + ChunkSize(need)
  <2>1. Blocks(h) \in SUBSET Blocks(s) /\ at \in Blocks(s) \ Blocks(h)
    BY <1>1, <1>2
  <2>2. Cardinality(Part(s, Blocks(h) \cup {at})) = Cardinality(Part(s, Blocks(h))) + HDR + size
    BY <1>3, <1>5, <2>1, PartPlus
  <2>3. Part(s, Blocks(h)) = Part(h, Blocks(h))
    BY <1>4, PartSame
  <2>4. Count(s) = Cardinality(Part(s, Blocks(h) \cup {at})) /\ Count(h) = Cardinality(Part(h, Blocks(h)))
        /\ Count(h) \in Nat
    BY <1>0, <1>2, <1>5, CountIsPart
  <2>. QED
    BY <1>0, <1>d, <2>2, <2>3, <2>4
<1>8. need <= size
  BY <1>0, <1>d
<1>. QED
  BY <1>1, <1>2, <1>3, <1>4, <1>6, <1>7, <1>8 DEF s

LEMMA TakeEffect ==
  ASSUME NEW h, NEW end \in 0 .. Top, Chain(h, end), NEW b \in Blocks(h), NEW need \in Nat,
         h.blk[b].free, need <= h.blk[b].size
  PROVE  LET s == Take(h, b, need)
         IN  /\ Chain(s, end) /\ Count(s) = Count(h) /\ Busy(s) = Busy(h) \cup {b}
             /\ need <= s.blk[b].size
             /\ \A a \in Busy(h) : s.blk[a].size = h.blk[a].size
<1>. DEFINE c == Split(h, b, need)  s == Take(h, b, need)
<1>0. end \in Nat
  BY Numbers
<1>1. /\ Chain(c, end) /\ Busy(c) = Busy(h) /\ Count(c) = Count(h) /\ b \in Blocks(c)
      /\ \A a \in Blocks(h) \ {b} : c.blk[a].size = h.blk[a].size
      /\ need <= c.blk[b].size
  BY SplitChain, SplitEffect
<1>2. s = [c EXCEPT !.blk[b].free = FALSE]
  BY DEF Take
<1>3. b \notin Busy(h)
  BY DEF Busy
<1>. HIDE DEF c, s
<1>c. Chain(c, end)
  BY <1>1
<1>b. b \in Blocks(c)
  BY <1>1
<1>4. /\ Chain(s, end) /\ Blocks(s) = Blocks(c) /\ s.blk[b].free = FALSE
      /\ \A a \in Blocks(c) : s.blk[a].size = c.blk[a].size
      /\ \A a \in Blocks(c) \ {b} : s.blk[a].free = c.blk[a].free
  <2>1. FALSE \in BOOLEAN
    OBVIOUS
  <2>2. Flagged(c, s, end, b, FALSE)
    BY <1>0, <1>c, <1>b, <1>2, <2>1, FlagChain, Zenon
  <2>. QED
    BY <2>2 DEF Flagged
<1>5. Busy(s) = Busy(h) \cup {b}
  BY <1>1, <1>4 DEF Busy
<1>6. Count(s) = Count(c)
  <2>1. Covered(s) = Covered(c)
    BY <1>4 DEF Covered
  <2>. QED
    BY <2>1 DEF Count
<1>7. ASSUME NEW a \in Busy(h) PROVE s.blk[a].size = h.blk[a].size
  <2>1. a \in Blocks(h) \ {b} /\ a \in Blocks(c)
    BY <1>1, <1>3 DEF Busy
  <2>. QED
    BY <1>1, <1>4, <2>1
<1>. QED
  BY <1>1, <1>4, <1>5, <1>6, <1>7 DEF s

LEMMA ReleaseEffect ==
  ASSUME NEW h, NEW end \in 0 .. Top, Chain(h, end), NEW b \in Busy(h)
  PROVE  LET s == Release(h, b)
         IN  /\ Chain(s, end) /\ Count(s) = Count(h) /\ Busy(s) = Busy(h) \ {b}
             /\ \A a \in Busy(h) \ {b} : s.blk[a].size = h.blk[a].size
<1>. DEFINE f == [h EXCEPT !.blk[b].free = TRUE]  g == MergeNext(f, b)  p == g.blk[b].prev
            s == Release(h, b)
<1>0. end \in Nat /\ b \in Blocks(h)
  BY Numbers DEF Busy
<1>2. s = IF p # NULL /\ g.blk[p].free THEN MergeNext(g, p) ELSE g
  BY DEF Release
<1>f. f = [h EXCEPT !.blk[b].free = TRUE]
  OBVIOUS
<1>. HIDE DEF s, f
<1>1. /\ Chain(f, end) /\ Blocks(f) = Blocks(h) /\ f.blk[b].free = TRUE
      /\ \A a \in Blocks(h) : f.blk[a].size = h.blk[a].size
      /\ \A a \in Blocks(h) \ {b} : f.blk[a].free = h.blk[a].free
  <2>1. TRUE \in BOOLEAN
    OBVIOUS
  <2>2. Flagged(h, f, end, b, TRUE)
    BY <1>0, <1>f, <2>1, FlagChain, Zenon
  <2>. QED
    BY <2>2 DEF Flagged
<1>3. Busy(f) = Busy(h) \ {b} /\ Count(f) = Count(h)
  <2>1. Covered(f) = Covered(h)
    BY <1>1 DEF Covered
  <2>. QED
    BY <1>1, <2>1 DEF Count, Busy
<1>4. /\ Chain(g, end) /\ Busy(g) = Busy(f) /\ Count(g) = Count(f) /\ b \in Blocks(g)
      /\ \A a \in Busy(f) \ {b} : g.blk[a].size = f.blk[a].size
  <2>1. b \in Blocks(f)
    BY <1>0, <1>1
  <2>. QED
    BY <1>1, <2>1, MergeChain, MergeEffect
<1>. HIDE DEF g
<1>5. \A a \in Busy(h) \ {b} : g.blk[a].size = h.blk[a].size
  BY <1>1, <1>3, <1>4 DEF Busy
<1>6. CASE p # NULL /\ g.blk[p].free
  <2>1. p \in Blocks(g) /\ p \notin Busy(g)
    BY <1>4, <1>6 DEF Chain, Busy
  <2>2. /\ Chain(s, end) /\ Busy(s) = Busy(g) /\ Count(s) = Count(g)
        /\ \A a \in Busy(g) \ {p} : s.blk[a].size = g.blk[a].size
    BY <1>2, <1>4, <1>6, <2>1, MergeChain, MergeEffect
  <2>. QED
    BY <1>3, <1>4, <1>5, <2>1, <2>2 DEF s
<1>7. CASE ~(p # NULL /\ g.blk[p].free)
  BY <1>2, <1>3, <1>4, <1>5, <1>7 DEF s
<1>. QED
  BY <1>6, <1>7

(***************************************************************************)
(* The walk along next from the head meets every block: the i-th block it  *)
(* meets is the one with i blocks below it.                                *)
(***************************************************************************)
LEMMA LeastNumber ==
  ASSUME NEW T \in SUBSET Nat, T # {}
  PROVE  \E n \in T : \A m \in T : n <= m
<1>1. PICK n \in T : \A m \in T : ~(<<m, n>> \in OpToRel(<, Nat))
  BY WFMin, NatLessThanWellFounded
<1>2. \A m \in T : ~(m < n)
  BY <1>1 DEF OpToRel
<1>. QED
  BY <1>2

LEMMA WalkMeetsAll ==
  ASSUME NEW h, NEW end \in Nat, Chain(h, end)
  PROVE  /\ DOMAIN Nth(h) \subseteq Nat
         /\ {Nth(h)[i] : i \in DOMAIN Nth(h)} = Blocks(h)
<1>. DEFINE B == Blocks(h)
            N == Cardinality(B)
            I == 0 .. N - 1
            Below(a) == {c \in B : c < a}
            rank == [a \in B |-> Cardinality(Below(a))]
<1>1. /\ B \subseteq Nat /\ IsFiniteSet(B) /\ N \in Nat /\ h.head \in B
  <2>1. B \subseteq 0 .. end
    <3>1. \A a \in B : a \in Nat /\ h.blk[a].size \in Nat /\ HDR \in Nat /\ a + HDR + h.blk[a].size <= end
      BY ChainValues, Numbers DEF Chain
    <3>. HIDE DEF B
    <3>. QED
      BY <3>1
  <2>2. IsFiniteSet(0 .. end)
    BY FS_Interval
  <2>3. h.head \in B
    BY DEF Chain
  <2>. HIDE DEF B
  <2>4. IsFiniteSet(B)
    BY <2>1, <2>2, FS_Subset
  <2>. QED
    BY <2>1, <2>3, <2>4, FS_CardinalityType
<1>2. \A a \in B : h.blk[a].next # NULL => h.blk[a].next \in B /\ a < h.blk[a].next
  <2>1. ASSUME NEW a \in B, h.blk[a].next # NULL PROVE h.blk[a].next \in B /\ a < h.blk[a].next
    <3>1. h.blk[a].next \in B /\ a + HDR + h.blk[a].size <= h.blk[a].next
      BY <2>1 DEF Chain
    <3>2. a \in Nat /\ h.blk[a].next \in Nat /\ h.blk[a].size \in Nat /\ HDR \in Nat /\ HDR > 0
      BY <1>1, <3>1, ChainValues, Numbers
    <3>. QED
      BY <3>1, <3>2
  <2>. QED
    BY <2>1
<1>3. \A a, c \in B : a < c => h.blk[a].next # NULL /\ h.blk[a].next <= c /\ h.blk[c].prev # NULL
  BY DEF Chain
<1>4. h.blk[h.head].prev = NULL
  BY DEF Chain
<1>. HIDE DEF B
<1>5. ASSUME NEW a \in B PROVE IsFiniteSet(Below(a)) /\ rank[a] \in I
  <2>1. Below(a) \subseteq B \ {a}
    BY <1>1
  <2>2. IsFiniteSet(B \ {a}) /\ Cardinality(B \ {a}) = N - 1
    BY <1>1, FS_RemoveElement
  <2>3. IsFiniteSet(Below(a)) /\ Cardinality(Below(a)) <= N - 1
    BY <2>1, <2>2, FS_Subset
  <2>4. Cardinality(Below(a)) \in Nat
    BY <2>3, FS_CardinalityType
  <2>. QED
    BY <1>1, <2>3, <2>4
<1>6. ASSUME NEW a \in B, NEW c \in B, a < c PROVE rank[a] < rank[c]
  <2>1. Below(a) \cup {a} \subseteq Below(c)
    <3>1. a \in Nat /\ c \in Nat
      BY <1>1
    <3>2. \A d \in B : d \in Nat /\ (d < a => d < c)
      <4>1. ASSUME NEW d \in B PROVE d \in Nat /\ (d < a => d < c)
        <5>1. d \in Nat
          BY <1>1
        <5>. QED
          BY <1>6, <3>1, <5>1
      <4>. QED
        BY <4>1
    <3>. QED
      BY <1>6, <3>2
  <2>2. Cardinality(Below(a) \cup {a}) = Cardinality(Below(a)) + 1
    <3>1. a \notin Below(a)
      BY <1>1
    <3>2. IsFiniteSet(Below(a))
      BY <1>5
    <3>. HIDE DEF Below
    <3>. QED
      BY <3>1, <3>2, FS_AddElement
  <2>3. Cardinality(Below(a) \cup {a}) <= Cardinality(Below(c))
    <3>1. IsFiniteSet(Below(c))
      BY <1>5
    <3>. HIDE DEF Below
    <3>. QED
      BY <2>1, <3>1, FS_Subset
  <2>4. rank[a] = Cardinality(Below(a)) /\ rank[c] = Cardinality(Below(c)) /\ rank[a] \in Nat /\ rank[c] \in Nat
    BY <1>1, <1>5
  <2>. HIDE DEF Below, rank
  <2>. QED
    BY <2>2, <2>3, <2>4
<1>7. ASSUME NEW a \in B, NEW c \in B, rank[a] = rank[c] PROVE a = c
  <2>1. a \in Nat /\ c \in Nat /\ rank[a] \in Nat /\ rank[c] \in Nat
    BY <1>1, <1>5
  <2>. HIDE DEF rank
  <2>. QED
    BY <1>6, <1>7, <2>1
<1>8. \A i \in I : \E a \in B : rank[a] = i
  <2>1. rank \in Injection(B, I)
    <3>1. rank \in [B -> I]
      BY <1>5
    <3>. HIDE DEF rank
    <3>. QED
      BY <1>7, <3>1 DEF Injection, IsInjective
  <2>2. IsFiniteSet(I) /\ Cardinality(I) = N
    <3>1. N - 1 \in Int /\ 0 \in Int
      BY <1>1
    <3>2. IsFiniteSet(I) /\ Cardinality(I) = IF 0 > N - 1 THEN 0 ELSE (N - 1) - 0 + 1
      BY <3>1, FS_Interval
    <3>. HIDE DEF I
    <3>. QED
      BY <1>1, <3>2
  <2>. HIDE DEF rank
  <2>3. rank \in Surjection(B, I)
    BY <1>1, <2>1, <2>2, FS_Injection
  <2>. QED
    BY <2>3 DEF Surjection
<1>9. rank[h.head] = 0
  <2>1. Below(h.head) = {}
    BY <1>1, <1>3, <1>4
  <2>2. rank[h.head] = Cardinality(Below(h.head))
    BY <1>1
  <2>. HIDE DEF Below
  <2>. QED
    BY <2>1, <2>2, FS_EmptySet
<1>10. ASSUME NEW a \in B, NEW c \in B, rank[c] = rank[a] + 1 PROVE h.blk[a].next = c
  <2>0. a \in Nat /\ c \in Nat /\ rank[a] \in Nat /\ rank[c] \in Nat
    BY <1>1, <1>5
  <2>1. a < c
    <3>. HIDE DEF rank
    <3>. QED
      BY <1>6, <1>10, <2>0
  <2>. DEFINE x == h.blk[a].next
  <2>2. x \in B /\ a < x /\ x <= c /\ x \in Nat
    BY <1>1, <1>2, <1>3, <2>1
  <2>3. Below(x) = Below(a) \cup {a}
    <3>1. \A d \in B : d < x <=> d < a \/ d = a
      <4>. HIDE DEF x
      <4>1. ASSUME NEW d \in B, d < x PROVE d < a \/ d = a
        <5>1. d \in Nat /\ (a < d => x <= d)
          BY <1>1, <1>3 DEF x
        <5>. QED
          BY <2>0, <2>2, <4>1, <5>1
      <4>2. ASSUME NEW d \in B, d < a \/ d = a PROVE d < x
        BY <1>1, <2>0, <2>2, <4>2
      <4>. QED
        BY <4>1, <4>2
    <3>. HIDE DEF x
    <3>. QED
      BY <3>1
  <2>4. rank[x] = rank[a] + 1
    <3>1. a \notin Below(a)
      BY <1>1
    <3>2. IsFiniteSet(Below(a))
      BY <1>5
    <3>3. rank[x] = Cardinality(Below(x)) /\ rank[a] = Cardinality(Below(a))
      BY <2>2
    <3>. HIDE DEF Below, rank, x
    <3>. QED
      BY <2>3, <3>1, <3>2, <3>3, FS_AddElement
  <2>. HIDE DEF rank, x
  <2>5. x = c
    BY <1>7, <1>10, <2>2, <2>4
  <2>. QED
    BY <2>5 DEF x
<1>. DEFINE e == [i \in I |-> CHOOSE a \in B : rank[a] = i]
<1>11. ASSUME NEW i \in I PROVE e[i] \in B /\ rank[e[i]] = i
  <2>. HIDE DEF rank, I
  <2>. QED
    BY <1>8
<1>12. e = [i \in I |-> IF i = 0 THEN h.head ELSE h.blk[e[i - 1]].next]
  <2>1. ASSUME NEW i \in I PROVE e[i] = IF i = 0 THEN h.head ELSE h.blk[e[i - 1]].next
    <3>1. CASE i = 0
      <4>1. rank[e[i]] = rank[h.head] /\ e[i] \in B
        BY <1>9, <1>11, <3>1
      <4>. HIDE DEF rank, e
      <4>. QED
        BY <1>1, <1>7, <3>1, <4>1
    <3>2. CASE i # 0
      <4>1. i - 1 \in I /\ (i - 1) + 1 = i
        BY <1>1, <3>2
      <4>2. e[i - 1] \in B /\ rank[e[i - 1]] = i - 1 /\ e[i] \in B /\ rank[e[i]] = i
        BY <1>11, <4>1
      <4>. HIDE DEF rank, e, I
      <4>. QED
        BY <1>10, <3>2, <4>1, <4>2
    <3>. QED
      BY <3>1, <3>2
  <2>2. e = [i \in I |-> e[i]]
    <3>. HIDE DEF I, rank, B
    <3>. QED
      OBVIOUS
  <2>. HIDE DEF e
  <2>. QED
    BY <2>1, <2>2
<1>. DEFINE at == Nth(h)
<1>13. at = [i \in I |-> IF i = 0 THEN h.head ELSE h.blk[at[i - 1]].next]
  <2>1. at = CHOOSE f : f = [i \in I |-> IF i = 0 THEN h.head ELSE h.blk[f[i - 1]].next]
    BY DEF Nth, B
  <2>. HIDE DEF e, at
  <2>. QED
    BY <1>12, <2>1
<1>. HIDE DEF e, at, rank
<1>14. \A i \in I : at[i] = e[i]
  <2>. DEFINE D == {i \in I : at[i] # e[i]}
  <2>1. SUFFICES ASSUME D # {} PROVE FALSE
    OBVIOUS
  <2>2. D \in SUBSET Nat
    BY <1>1
  <2>3. PICK i \in D : \A j \in D : i <= j
    BY <2>1, <2>2, LeastNumber
  <2>4. i \in I /\ at[i] # e[i] /\ i \in Nat
    BY <2>2, <2>3
  <2>5. i # 0
    BY <1>12, <1>13, <2>4
  <2>6. i - 1 \in I /\ ~(i <= i - 1)
    BY <1>1, <2>4, <2>5
  <2>7. at[i - 1] = e[i - 1]
    BY <2>3, <2>6
  <2>. QED
    BY <1>12, <1>13, <2>4, <2>5, <2>7
<1>15. DOMAIN at = I
  BY <1>13
<1>16. \A a \in B : \E i \in I : e[i] = a
  <2>1. ASSUME NEW a \in B PROVE \E i \in I : e[i] = a
    <3>1. rank[a] \in I
      BY <1>5
    <3>2. e[rank[a]] = a
      BY <1>7, <1>11, <3>1
    <3>. QED
      BY <3>1, <3>2
  <2>. QED
    BY <2>1
<1>17. {at[i] : i \in I} = B
  BY <1>11, <1>14, <1>16
<1>. QED
  BY <1>1, <1>15, <1>17 DEF at, B

(***************************************************************************)
(* What malloc finds.                                                      *)
(***************************************************************************)
LEMMA BrkType ==
  ASSUME TypeOK PROVE brk \in 0 .. Top /\ brk \in Nat /\ Static <= brk
  BY Numbers DEF TypeOK

LEMMA FoundEffect ==
  ASSUME ListIsHeap, NEW need \in Nat, NEW f \in Found(need)
  PROVE  /\ f.brk \in 0 .. Top /\ f.brk \in Nat /\ brk <= f.brk
         /\ Chain(f.h, f.brk) /\ f.at \in Nat
         /\ f.at \notin Busy(heap) /\ Busy(f.h) = Busy(heap) \cup {f.at}
         /\ need <= f.h.blk[f.at].size
         /\ \A a \in Busy(heap) : f.h.blk[a].size = heap.blk[a].size
         /\ \/ f.brk = brk /\ Count(f.h) = Count(heap)
            \/ /\ f.brk # brk /\ brk <= f.at /\ f.at < f.brk
               /\ Count(f.h) = Count(heap) + (f.brk - f.at)
<1>. DEFINE nth  == Nth(heap)
            fits == {i \in DOMAIN nth : heap.blk[nth[i]].free /\ heap.blk[nth[i]].size >= need}
            b    == nth[CHOOSE i \in fits : \A j \in fits : i <= j]
<1>0. Chain(heap, brk) /\ brk \in 0 .. Top /\ brk \in Nat /\ Static <= brk
  BY BrkType DEF ListIsHeap
<1>1. DOMAIN nth \subseteq Nat /\ {nth[i] : i \in DOMAIN nth} = Blocks(heap)
  BY <1>0, WalkMeetsAll
<1>2. CASE fits # {}
  <2>1. f = [h |-> Take(heap, b, need), at |-> b, brk |-> brk]
    BY <1>2 DEF Found
  <2>2. \E i \in fits : \A j \in fits : i <= j
    <3>1. fits \in SUBSET Nat
      BY <1>1
    <3>. HIDE DEF fits
    <3>. QED
      BY <1>2, <3>1, LeastNumber
  <2>3. (CHOOSE i \in fits : \A j \in fits : i <= j) \in fits
    <3>. HIDE DEF fits
    <3>. QED
      BY <2>2
  <2>4. b \in Blocks(heap) /\ heap.blk[b].free /\ heap.blk[b].size >= need
    BY <1>1, <2>3
  <2>. HIDE DEF b, fits, nth
  <2>5. b \in Nat /\ heap.blk[b].size \in Nat
    BY <1>0, <2>4, ChainValues
  <2>6. need <= heap.blk[b].size /\ b \notin Busy(heap)
    BY <2>4, <2>5 DEF Busy
  <2>7. /\ Chain(Take(heap, b, need), brk) /\ Count(Take(heap, b, need)) = Count(heap)
        /\ Busy(Take(heap, b, need)) = Busy(heap) \cup {b}
        /\ need <= Take(heap, b, need).blk[b].size
        /\ \A a \in Busy(heap) : Take(heap, b, need).blk[a].size = heap.blk[a].size
    BY <1>0, <2>4, <2>6, TakeEffect
  <2>. QED
    BY <1>0, <2>1, <2>5, <2>6, <2>7
<1>3. CASE fits = {}
  <2>1. PICK g \in Gaps : /\ brk + g + ChunkSize(need) <= Top
                          /\ f = [h |-> Take(WithChunk(heap, need, brk + g), brk + g, need),
                                  at |-> brk + g, brk |-> brk + g + ChunkSize(need)]
    BY <1>3 DEF Found
  <2>. DEFINE at == brk + g  w == WithChunk(heap, need, at)  t == Take(w, at, need)
              top == at + ChunkSize(need)
  <2>2. /\ g \in Nat /\ ChunkSize(need) \in Nat /\ at \in Nat /\ brk <= at /\ top <= Top
        /\ top \in 0 .. Top /\ top \in Nat /\ at < top /\ top # brk /\ brk <= top
        /\ top - at = ChunkSize(need)
    <3>1. g \in Nat /\ HDR \in Nat /\ HDR > 0 /\ ChunkSize(need) \in Nat /\ need + HDR <= ChunkSize(need)
          /\ Top \in Nat
      BY SizeAssumption, Numbers
    <3>. QED
      BY <1>0, <2>1, <3>1
  <2>3. f.h = t /\ f.at = at /\ f.brk = top
    BY <2>1
  <2>4. Chain(w, top)
    BY <1>0, <2>2, ChunkChain
  <2>5. /\ Busy(w) = Busy(heap) /\ Count(w) = Count(heap) + ChunkSize(need)
        /\ at \in Blocks(w) \ Blocks(heap) /\ w.blk[at].free /\ need <= w.blk[at].size
        /\ \A a \in Blocks(heap) : w.blk[a].size = heap.blk[a].size
    BY <1>0, <2>2, ChunkEffect
  <2>. HIDE DEF w, top, at
  <2>6. /\ Chain(t, top) /\ Count(t) = Count(w) /\ Busy(t) = Busy(w) \cup {at}
        /\ need <= t.blk[at].size
        /\ \A a \in Busy(w) : t.blk[a].size = w.blk[a].size
    BY <2>2, <2>4, <2>5, TakeEffect
  <2>7. at \notin Busy(heap) /\ \A a \in Busy(heap) : t.blk[a].size = heap.blk[a].size
    BY <2>5, <2>6 DEF Busy
  <2>8. Count(t) = Count(heap) + (top - at)
    BY <2>2, <2>5, <2>6
  <2>. HIDE DEF t
  <2>. QED
    BY <2>2, <2>3, <2>5, <2>6, <2>7, <2>8
<1>. QED
  BY <1>2, <1>3

LEMMA GrowCounts ==
  ASSUME ListIsHeap, Counted, NEW need \in Nat, NEW f \in Found(need), Grow(f)
  PROVE  /\ brk' = f.brk /\ brk' \in Static .. Top
         /\ foreign' \subseteq Static .. brk' - 1
         /\ Count(f.h) = brk' - Cardinality(foreign')
<1>1. /\ brk \in Nat /\ Static <= brk /\ Static \in Nat /\ foreign \subseteq Static .. brk - 1
      /\ Count(heap) = brk - Cardinality(foreign) /\ Top \in Nat
  BY BrkType, Numbers DEF ListIsHeap, TypeOK, Counted
<1>2. f.brk \in 0 .. Top /\ f.brk \in Nat /\ brk <= f.brk /\ f.at \in Nat
  BY FoundEffect
<1>3. brk' = f.brk
  BY DEF Grow
<1>4. IsFiniteSet(foreign) /\ Cardinality(foreign) \in Nat
  <2>1. IsFiniteSet(Static .. brk - 1)
    BY <1>1, FS_Interval
  <2>. QED
    BY <1>1, <2>1, FS_Subset, FS_CardinalityType
<1>5. CASE f.brk = brk
  <2>1. foreign' = foreign /\ brk' = brk
    BY <1>3, <1>5 DEF Grow
  <2>2. f.brk = brk /\ Count(f.h) = Count(heap)
    BY <1>5, FoundEffect
  <2>. QED
    BY <1>1, <1>2, <1>3, <2>1, <2>2
<1>6. CASE f.brk # brk
  <2>1. brk <= f.at /\ f.at < f.brk /\ Count(f.h) = Count(heap) + (f.brk - f.at)
    BY <1>6, FoundEffect
  <2>. DEFINE gap == brk .. f.at - 1
  <2>2. foreign' = foreign \cup gap
    BY <1>6 DEF Grow
  <2>3. IsFiniteSet(gap) /\ Cardinality(gap) = f.at - brk
    <3>1. f.at - 1 \in Int /\ brk \in Int
      BY <1>1, <1>2
    <3>2. IsFiniteSet(gap) /\ Cardinality(gap) = IF brk > f.at - 1 THEN 0 ELSE (f.at - 1) - brk + 1
      BY <3>1, FS_Interval
    <3>. HIDE DEF gap
    <3>. QED
      BY <1>1, <1>2, <2>1, <3>2
  <2>4. foreign \cap gap = {}
    BY <1>1, <1>2
  <2>5. Cardinality(foreign \cap gap) = 0
    BY <2>4, FS_EmptySet
  <2>6. foreign' \subseteq Static .. brk' - 1
    <3>1. ASSUME NEW c \in foreign PROVE c \in Static .. f.brk - 1
      BY <1>1, <1>2
    <3>2. ASSUME NEW c \in gap PROVE c \in Static .. f.brk - 1
      BY <1>1, <1>2, <2>1
    <3>. QED
      BY <1>3, <2>2, <3>1, <3>2
  <2>. HIDE DEF gap
  <2>7. Cardinality(foreign \cup gap) = Cardinality(foreign) + Cardinality(gap) - Cardinality(foreign \cap gap)
    BY <1>4, <2>3, FS_Union
  <2>8. Cardinality(foreign') = Cardinality(foreign) + (f.at - brk)
    BY <1>1, <1>2, <1>4, <2>2, <2>3, <2>5, <2>7
  <2>. QED
    BY <1>1, <1>2, <1>3, <1>4, <2>1, <2>6, <2>8
<1>. QED
  BY <1>5, <1>6

(***************************************************************************)
(* Memory.                                                                 *)
(***************************************************************************)
Values == Tags \cup {"header", "nothing", "foreign"}
Body(h, a) == Span(a + HDR, h.blk[a].size)

\* The list h up to `end` and the program's pointers l agree.
Agree(h, end, l) ==
    /\ Chain(h, end) /\ end \in 0 .. Top
    /\ DOMAIN l = {a + HDR : a \in Busy(h)}
    /\ \A p \in DOMAIN l : /\ l[p].req \in Nat /\ l[p].tag \in Tags
                           /\ l[p].req <= h.blk[p - HDR].size

\* The cells hold what the list h and the pointers l say.
Holds(m, h, l) ==
    /\ m \in [Cells -> Values]
    /\ \A c \in Headers(h) : m[c] = "header"
    /\ \A p \in DOMAIN l : \A c \in Span(p, l[p].req) : m[c] = l[p].tag

LEMMA SpanIn ==
  ASSUME NEW a \in Nat, NEW n \in Nat, NEW m \in Nat, n <= m
  PROVE  Span(a, n) \subseteq Span(a, m) /\ \A c \in Span(a, m) : c \in Nat /\ a <= c /\ c < a + m
  BY DEF Span

LEMMA BodyCells ==
  ASSUME NEW h, NEW end \in 0 .. Top, Chain(h, end), NEW a \in Blocks(h), NEW c \in Body(h, a)
  PROVE  /\ c \in Cells /\ c \in Nat /\ c < end /\ c \notin Headers(h)
         /\ \A b \in Blocks(h) \ {a} : c \notin Body(h, b)
<1>0. end \in Nat /\ end <= Top /\ HDR \in Nat /\ HDR > 0 /\ Top \in Nat
  BY Numbers
<1>1. a \in Nat /\ h.blk[a].size \in Nat /\ a + HDR + h.blk[a].size <= end
  BY <1>0, ChainValues DEF Chain
<1>2. c \in Nat /\ a + HDR <= c /\ c < a + HDR + h.blk[a].size
  BY <1>0, <1>1 DEF Body, Span
<1>3. c < end /\ c \in Cells
  BY <1>0, <1>1, <1>2 DEF Cells
<1>4. ASSUME NEW b \in Blocks(h) \ {a}
      PROVE  ~(b <= c /\ c < b + HDR + h.blk[b].size)
  <2>1. b \in Nat /\ h.blk[b].size \in Nat
    BY <1>0, ChainValues
  <2>2. a < b => a + HDR + h.blk[a].size <= b
    BY <1>0, Apart
  <2>3. b < a => b + HDR + h.blk[b].size <= a
    BY <1>0, Apart
  <2>. QED
    BY <1>0, <1>1, <1>2, <2>1, <2>2, <2>3
<1>5. ASSUME NEW b \in Blocks(h) PROVE c \notin Span(b, HDR)
  <2>1. b \in Nat /\ h.blk[b].size \in Nat
    BY <1>0, ChainValues
  <2>2. SUFFICES ASSUME c \in Span(b, HDR) PROVE FALSE
    OBVIOUS
  <2>3. b <= c /\ c < b + HDR
    BY <1>0, <1>2, <2>1, <2>2 DEF Span
  <2>4. b = a
    BY <1>0, <1>2, <1>4, <2>1, <2>3
  <2>. QED
    BY <1>0, <1>1, <1>2, <2>3, <2>4
<1>6. ASSUME NEW b \in Blocks(h) \ {a} PROVE c \notin Body(h, b)
  <2>1. b \in Nat /\ h.blk[b].size \in Nat
    BY <1>0, ChainValues
  <2>2. SUFFICES ASSUME c \in Body(h, b) PROVE FALSE
    OBVIOUS
  <2>3. b + HDR <= c /\ c < b + HDR + h.blk[b].size
    BY <1>0, <1>2, <2>1, <2>2 DEF Body, Span
  <2>. QED
    BY <1>0, <1>2, <1>4, <2>1, <2>3
<1>. QED
  BY <1>2, <1>3, <1>5, <1>6 DEF Headers

LEMMA HeaderCells ==
  ASSUME NEW h, NEW end \in 0 .. Top, Chain(h, end)
  PROVE  Headers(h) \subseteq Cells /\ \A c \in Headers(h) : c < end
<1>1. ASSUME NEW a \in Blocks(h), NEW c \in Span(a, HDR) PROVE c \in Cells /\ c < end
  <2>1. a \in Nat /\ h.blk[a].size \in Nat /\ HDR \in Nat /\ end \in Nat /\ end <= Top
        /\ a + HDR + h.blk[a].size <= end /\ Top \in Nat
    <3>1. HDR \in Nat /\ end \in Nat /\ end <= Top /\ Top \in Nat
      BY Numbers
    <3>2. a + HDR + h.blk[a].size <= end
      BY DEF Chain
    <3>. QED
      BY <3>1, <3>2, ChainValues
  <2>. QED
    BY <2>1 DEF Span, Cells
<1>. QED
  BY <1>1 DEF Headers

\* An allocation is in the body of its block.
LEMMA Inside ==
  ASSUME NEW h, NEW end, NEW l, Agree(h, end, l), NEW p \in DOMAIN l
  PROVE  /\ p - HDR \in Busy(h) /\ p - HDR \in Blocks(h) /\ p = (p - HDR) + HDR /\ p \in Nat
         /\ Span(p, l[p].req) \subseteq Body(h, p - HDR)
<1>1. PICK a \in Busy(h) : p = a + HDR
  BY DEF Agree
<1>2. a \in Blocks(h) /\ end \in Nat
  BY DEF Agree, Busy
<1>3. a \in Nat /\ h.blk[a].size \in Nat /\ HDR \in Nat
  BY <1>2, ChainValues, Numbers DEF Agree
<1>4. p - HDR = a /\ p \in Nat
  BY <1>1, <1>3
<1>5. l[p].req \in Nat /\ l[p].req <= h.blk[a].size
  BY <1>4 DEF Agree
<1>6. Span(p, l[p].req) \subseteq Body(h, a)
  BY <1>1, <1>3, <1>4, <1>5, SpanIn DEF Body
<1>. QED
  BY <1>1, <1>2, <1>4, <1>6

LEMMA StampedCells ==
  ASSUME NEW old, NEW new, NEW m \in [Cells -> Values], Headers(new) \subseteq Cells,
         \A c \in Headers(old) : m[c] = "header"
  PROVE  /\ Stamped(m, old, new) \in [Cells -> Values]
         /\ \A c \in Headers(new) : Stamped(m, old, new)[c] = "header"
         /\ \A c \in Cells \ Headers(new) : Stamped(m, old, new)[c] = m[c]
<1>1. Written(old, new) \subseteq Headers(new)
  BY DEF Written, Headers
<1>2. Stamped(m, old, new) = [c \in Cells |-> IF c \in Written(old, new) THEN "header" ELSE m[c]]
  BY DEF Stamped
<1>3. ASSUME NEW c \in Headers(new) PROVE c \in Written(old, new) \/ m[c] = "header"
  <2>1. PICK a \in Blocks(new) : c \in Span(a, HDR)
    BY DEF Headers
  <2>2. a \in Blocks(old) => c \in Headers(old)
    BY <2>1 DEF Headers
  <2>. QED
    BY <2>1, <2>2 DEF Written
<1>. QED
  BY <1>1, <1>2, <1>3 DEF Values

LEMMA FilledCells ==
  ASSUME NEW m \in [Cells -> Values], NEW from, NEW to, NEW t \in Values
  PROVE  /\ Filled(m, from, to, t) \in [Cells -> Values]
         /\ \A c \in Cells : Filled(m, from, to, t)[c] = IF from <= c /\ c < to THEN t ELSE m[c]
  BY DEF Filled

LEMMA SettledHolds ==
  ASSUME NEW h, NEW end, NEW l, Agree(h, end, l), NEW m, Holds(m, h, l)
  PROVE  Holds(Settled(m, h, l), h, l)
<1>1. Settled(m, h, l) = [c \in Cells |-> IF c \in InUse(h, l) \/ m[c] = "foreign" THEN m[c] ELSE "nothing"]
  BY DEF Settled
<1>2. Headers(h) \subseteq Cells
  BY HeaderCells DEF Agree
<1>3. ASSUME NEW p \in DOMAIN l, NEW c \in Span(p, l[p].req)
      PROVE  c \in Cells /\ c \in InUse(h, l)
  <2>1. c \in Body(h, p - HDR) /\ p - HDR \in Blocks(h)
    BY Inside
  <2>. QED
    BY <2>1, BodyCells DEF Agree, InUse
<1>4. \A c \in Headers(h) : c \in InUse(h, l)
  BY DEF InUse
<1>. QED
  BY <1>1, <1>2, <1>3, <1>4 DEF Holds, Values

\* A list operation on its way from `old` to `new` leaves the data of every
\* allocation alone that has its place in the new list.
LEMMA StampedHolds ==
  ASSUME NEW h, NEW end, NEW l, Agree(h, end, l), NEW old, NEW m \in [Cells -> Values],
         \A c \in Headers(old) : m[c] = "header",
         \A p \in DOMAIN l : \A c \in Span(p, l[p].req) : m[c] = l[p].tag
  PROVE  Holds(Stamped(m, old, h), h, l)
<1>1. Headers(h) \subseteq Cells
  BY HeaderCells DEF Agree
<1>2. ASSUME NEW p \in DOMAIN l, NEW c \in Span(p, l[p].req)
      PROVE  c \in Cells /\ c \notin Headers(h)
  <2>1. c \in Body(h, p - HDR) /\ p - HDR \in Blocks(h)
    BY Inside
  <2>. QED
    BY <2>1, BodyCells DEF Agree
<1>3. /\ Stamped(m, old, h) \in [Cells -> Values]
      /\ \A c \in Headers(h) : Stamped(m, old, h)[c] = "header"
      /\ \A c \in Cells \ Headers(h) : Stamped(m, old, h)[c] = m[c]
  BY <1>1, StampedCells
<1>. QED
  BY <1>2, <1>3 DEF Holds

LEMMA ReceivedCells ==
  ASSUME NEW m \in [Cells -> Values], NEW f, brk \in Nat
  PROVE  /\ Received(m, f) \in [Cells -> Values]
         /\ \A c \in Cells : c < brk => Received(m, f)[c] = m[c]
<1>1. CASE f.brk = brk
  BY <1>1 DEF Received
<1>2. CASE f.brk # brk
  <2>1. "foreign" \in Values
    BY DEF Values
  <2>2. /\ Received(m, f) \in [Cells -> Values]
        /\ \A c \in Cells : Received(m, f)[c] = IF brk <= c /\ c < f.at THEN "foreign" ELSE m[c]
    BY <1>2, <2>1, FilledCells DEF Received
  <2>3. \A c \in Cells : c \in Nat
    BY Numbers DEF Cells
  <2>. QED
    BY <2>2, <2>3
<1>. QED
  BY <1>1, <1>2

(***************************************************************************)
(* The invariant, taken apart and put together.                            *)
(***************************************************************************)
Inv == ListIsHeap /\ Counted /\ DataIntact

LEMMA Apply ==
  ASSUME Inv
  PROVE  /\ Agree(heap, brk, live) /\ Holds(mem, heap, live)
         /\ brk \in Static .. Top /\ brk \in Nat /\ foreign \subseteq Static .. brk - 1
         /\ Count(heap) = brk - Cardinality(foreign)
         /\ live \in [DOMAIN live -> [req : Sizes, tag : Tags]]
<1>1. brk \in 0 .. Top /\ brk \in Nat
  BY BrkType DEF Inv, ListIsHeap
<1>2. Agree(heap, brk, live)
  BY <1>1, SizeAssumption DEF Inv, ListIsHeap, TypeOK, LiveAreUsed, Agree
<1>3. Holds(mem, heap, live)
  BY DEF Inv, ListIsHeap, TypeOK, DataIntact, Holds, Values
<1>. QED
  BY <1>1, <1>2, <1>3 DEF Inv, ListIsHeap, TypeOK, Counted

LEMMA Assemble ==
  ASSUME Agree(heap', brk', live'), Holds(mem', heap', live'),
         brk' \in Static .. Top, foreign' \subseteq Static .. brk' - 1,
         Count(heap') = brk' - Cardinality(foreign'),
         live' \in [DOMAIN live' -> [req : Sizes, tag : Tags]]
  PROVE  Inv'
<1>1. Chain(heap', brk') /\ brk' \in Nat
  BY Numbers DEF Agree
<1>2. TypeOK'
  BY <1>1 DEF TypeOK, Chain, Holds, Values
<1>3. Linked'
  <2>1. {Nth(heap')[i] : i \in DOMAIN Nth(heap')} = Blocks(heap')
    BY <1>1, WalkMeetsAll
  <2>. QED
    BY <2>1 DEF Linked
<1>4. LiveAreUsed' /\ Counted'
  BY DEF LiveAreUsed, Counted, Agree
<1>6. Tiled'
  <2>1. brk' \in 0 .. Top /\ foreign' \in SUBSET (0 .. brk' - 1)
    BY Numbers
  <2>2. Covered(heap') \cap foreign' = {} => Covered(heap') = (0 .. brk' - 1) \ foreign'
    BY <1>1, <2>1, CountTiles
  <2>. QED
    BY <2>2 DEF Tiled, Given
<1>5. DataIntact'
  BY DEF DataIntact, Holds
<1>. QED
  BY <1>1, <1>2, <1>3, <1>4, <1>5, <1>6 DEF Inv, ListIsHeap

(***************************************************************************)
(* The calls.                                                              *)
(***************************************************************************)
LEMMA FirstState ==
  Init => Inv
<1>1. SUFFICES ASSUME Init PROVE Inv
  OBVIOUS
<1>2. /\ HDR \in Nat /\ HDR > 0 /\ Static \in Nat /\ Top \in Nat /\ HDR < Static /\ Static <= Top
      /\ NULL \notin Nat /\ Static - HDR \in Nat /\ 0 + HDR + (Static - HDR) = Static
      /\ 0 \in Cells /\ Static \in 0 .. Top
  BY Numbers, NullAssumption DEF Cells
<1>3. /\ heap.blk = [a \in {0} |-> [size |-> Static - HDR, free |-> TRUE, next |-> NULL, prev |-> NULL]]
      /\ heap = [blk |-> heap.blk, head |-> heap.head, tail |-> heap.tail]
      /\ heap.head = 0 /\ heap.tail = 0 /\ brk = Static /\ foreign = {} /\ Blocks(heap) = {0}
  BY <1>1 DEF Init, Blocks
<1>4. /\ heap.blk[0].size = Static - HDR /\ heap.blk[0].free = TRUE
      /\ heap.blk[0].next = NULL /\ heap.blk[0].prev = NULL
  BY <1>3
<1>5. PICK rest \in Nat : rest = Static - HDR
  BY <1>2
<1>6. heap.blk \in [Blocks(heap) -> BlockRec]
  <2>1. heap.blk = [a \in {0} |-> [size |-> rest, free |-> TRUE, next |-> NULL, prev |-> NULL]]
    BY <1>3, <1>5
  <2>. QED
    BY <1>3, <2>1 DEF BlockRec
<1>7. Chain(heap, brk)
  BY <1>2, <1>3, <1>4, <1>6 DEF Chain
<1>8. live = [p \in {} |-> 0] /\ Busy(heap) = {} /\ DOMAIN live = {}
  BY <1>1, <1>3, <1>4 DEF Init, Busy
<1>9. mem \in [Cells -> Values] /\ \A c \in Headers(heap) : mem[c] = "header"
  <2>1. mem = [c \in Cells |-> IF c < HDR THEN "header" ELSE "nothing"]
    BY <1>1 DEF Init
  <2>2. \A c \in Headers(heap) : c \in Cells /\ c < HDR
    <3>1. Headers(heap) = Span(0, HDR)
      BY <1>3 DEF Headers
    <3>2. \A c \in Span(0, HDR) : c \in Nat /\ c < HDR
      BY <1>2, SpanIn
    <3>. QED
      BY <1>2, <3>1, <3>2 DEF Cells
  <2>. QED
    BY <2>1, <2>2 DEF Values
<1>10. Linked
  <2>1. {Nth(heap)[i] : i \in DOMAIN Nth(heap)} = Blocks(heap)
    BY <1>2, <1>3, <1>7, WalkMeetsAll
  <2>. QED
    BY <2>1 DEF Linked
<1>11. Tiled /\ Counted
  <2>1. Covered(heap) = Span(0, Static)
    BY <1>2, <1>3, <1>4 DEF Covered
  <2>2. Cardinality(Span(0, Static)) = Static
    BY <1>2, SpanSize
  <2>3. Cardinality(foreign) = 0
    BY <1>3, FS_EmptySet
  <2>. QED
    BY <1>2, <1>3, <2>1, <2>2, <2>3 DEF Tiled, Given, Counted, Count, Span
<1>12. TypeOK
  <2>1. live \in [DOMAIN live -> [req : Sizes, tag : Tags]]
    BY <1>8
  <2>. QED
    BY <1>2, <1>3, <1>6, <1>9, <2>1 DEF TypeOK, Values
<1>. QED
  BY <1>7, <1>8, <1>9, <1>10, <1>11, <1>12 DEF Inv, ListIsHeap, LiveAreUsed, DataIntact

LEMMA MallocKeeps ==
  ASSUME Inv, NEW n \in Sizes, NEW t \in Unused, Malloc(n, t)
  PROVE  Inv'
<1>1. PICK f \in Found(AlignUp(n)) :
        /\ heap' = f.h /\ Grow(f)
        /\ live' = Holding(f.at + HDR, n, t)
        /\ mem' = Settled(Filled(Stamped(Received(mem, f), heap, f.h),
                                 f.at + HDR, f.at + HDR + n, t), heap', live')
  BY DEF Malloc
<1>. DEFINE at == f.at  q == at + HDR  m0 == Received(mem, f)  m1 == Stamped(m0, heap, f.h)
            m2 == Filled(m1, q, q + n, t)
<1>2. /\ n \in Nat /\ AlignUp(n) \in Nat /\ n <= AlignUp(n) /\ t \in Tags /\ HDR \in Nat
  BY SizeAssumption, AlignUpType, Numbers DEF Unused
<1>3. /\ Agree(heap, brk, live) /\ Holds(mem, heap, live) /\ brk \in Nat
      /\ live \in [DOMAIN live -> [req : Sizes, tag : Tags]]
  BY Apply
<1>4. /\ brk' = f.brk /\ brk' \in Static .. Top /\ brk' \in 0 .. Top
      /\ foreign' \subseteq Static .. brk' - 1
      /\ Count(heap') = brk' - Cardinality(foreign')
  BY <1>1, <1>2, GrowCounts, Numbers DEF Inv
<1>5. /\ Chain(heap', brk') /\ at \in Nat /\ at \notin Busy(heap) /\ Busy(heap') = Busy(heap) \cup {at}
      /\ AlignUp(n) <= heap'.blk[at].size
      /\ \A a \in Busy(heap) : heap'.blk[a].size = heap.blk[a].size
  BY <1>1, <1>2, <1>4, FoundEffect DEF Inv
<1>6. at \in Blocks(heap') /\ heap'.blk[at].size \in Nat /\ n <= heap'.blk[at].size
  <2>1. at \in Blocks(heap')
    BY <1>5 DEF Busy
  <2>2. heap'.blk[at].size \in Nat
    <3>1. brk' \in Nat
      BY <1>4, Numbers
    <3>. QED
      BY <1>5, <2>1, <3>1, ChainValues
  <2>. QED
    BY <1>2, <1>5, <2>1, <2>2
<1>7. q - HDR = at /\ q \in Nat
  BY <1>2, <1>5
<1>8. ASSUME NEW p \in DOMAIN live
      PROVE  /\ p # q /\ p - HDR \in Busy(heap) /\ p - HDR # at
             /\ heap'.blk[p - HDR].size = heap.blk[p - HDR].size
             /\ Span(p, live[p].req) \subseteq Body(heap, p - HDR)
             /\ Body(heap', p - HDR) = Body(heap, p - HDR)
  <2>1. p - HDR \in Busy(heap) /\ Span(p, live[p].req) \subseteq Body(heap, p - HDR)
    BY <1>3, Inside
  <2>. QED
    BY <1>5, <1>7, <2>1 DEF Body
<1>9. /\ DOMAIN live' = DOMAIN live \cup {q}
      /\ live'[q] = [req |-> n, tag |-> t]
      /\ \A p \in DOMAIN live : live'[p] = live[p]
      /\ live' \in [DOMAIN live' -> [req : Sizes, tag : Tags]]
  BY <1>1, <1>2, <1>3, <1>8 DEF Holding
<1>10. Agree(heap', brk', live')
  <2>1. DOMAIN live' = {a + HDR : a \in Busy(heap')}
    BY <1>3, <1>5, <1>9 DEF Agree
  <2>2. ASSUME NEW p \in DOMAIN live
        PROVE  live'[p].req \in Nat /\ live'[p].tag \in Tags /\ live'[p].req <= heap'.blk[p - HDR].size
    BY <1>3, <1>8, <1>9 DEF Agree
  <2>3. live'[q].req \in Nat /\ live'[q].tag \in Tags /\ live'[q].req <= heap'.blk[q - HDR].size
    BY <1>2, <1>6, <1>7, <1>9
  <2>4. \A p \in DOMAIN live' : live'[p].req \in Nat /\ live'[p].tag \in Tags /\ live'[p].req <= heap'.blk[p - HDR].size
    BY <1>9, <2>2, <2>3
  <2>. QED
    BY <1>4, <1>5, <2>1, <2>4 DEF Agree
<1>11. m0 \in [Cells -> Values] /\ \A c \in Cells : c < brk => m0[c] = mem[c]
  BY <1>3, ReceivedCells DEF Holds
<1>12. \A c \in Headers(heap) : m0[c] = "header"
  BY <1>3, <1>11, HeaderCells DEF Agree, Holds
<1>13. Headers(heap') \subseteq Cells
  BY <1>4, <1>5, HeaderCells
<1>. HIDE DEF m0
<1>14. /\ m1 \in [Cells -> Values]
       /\ \A c \in Headers(heap') : m1[c] = "header"
       /\ \A c \in Cells \ Headers(heap') : m1[c] = m0[c]
  BY <1>1, <1>11, <1>12, <1>13, StampedCells
<1>. HIDE DEF m1
<1>15. t \in Values
  BY <1>2 DEF Values
<1>16. /\ m2 \in [Cells -> Values]
       /\ \A c \in Cells : m2[c] = IF q <= c /\ c < q + n THEN t ELSE m1[c]
  BY <1>14, <1>15, FilledCells
<1>. HIDE DEF m2
<1>17. \A c \in Cells : (q <= c /\ c < q + n) => c \in Body(heap', at)
  BY <1>2, <1>5, <1>6, <1>7 DEF Body, Span, Cells
<1>18. Holds(m2, heap', live')
  <2>1. ASSUME NEW c \in Headers(heap') PROVE m2[c] = "header"
    <3>1. c \notin Body(heap', at)
      BY <1>4, <1>5, <1>6, BodyCells
    <3>. QED
      BY <1>13, <1>14, <1>16, <1>17, <3>1
  <2>2. ASSUME NEW p \in DOMAIN live, NEW c \in Span(p, live[p].req) PROVE m2[c] = live[p].tag
    <3>1. c \in Body(heap', p - HDR) /\ c \in Body(heap, p - HDR) /\ p - HDR # at
      BY <1>8
    <3>2. p - HDR \in Blocks(heap') /\ p - HDR \in Blocks(heap)
      BY <1>5, <1>8 DEF Busy
    <3>3. c \in Cells /\ c \notin Headers(heap') /\ c \notin Body(heap', at)
      BY <1>4, <1>5, <1>6, <3>1, <3>2, BodyCells
    <3>4. c < brk
      BY <1>3, <3>1, <3>2, BodyCells DEF Agree
    <3>5. mem[c] = live[p].tag
      BY <1>3 DEF Holds
    <3>. QED
      BY <1>11, <1>14, <1>16, <1>17, <3>3, <3>4, <3>5
  <2>3. ASSUME NEW c \in Span(q, n) PROVE m2[c] = t
    <3>1. c \in Body(heap', at) /\ q <= c /\ c < q + n
      BY <1>2, <1>6, <1>7, SpanIn DEF Body
    <3>2. c \in Cells
      BY <1>4, <1>5, <1>6, <3>1, BodyCells
    <3>. QED
      BY <1>16, <3>1, <3>2
  <2>. QED
    BY <1>9, <1>16, <2>1, <2>2, <2>3 DEF Holds
<1>19. mem' = Settled(m2, heap', live')
  BY <1>1 DEF m2, m1, m0
<1>20. Holds(mem', heap', live')
  BY <1>10, <1>18, <1>19, SettledHolds
<1>. QED
  BY <1>4, <1>9, <1>10, <1>20, Assemble

LEMMA FreeKeeps ==
  ASSUME Inv, NEW p \in DOMAIN live, Free(p)
  PROVE  Inv'
<1>. DEFINE b == p - HDR
<1>1. /\ heap' = Release(heap, b) /\ live' = Without(p)
      /\ mem' = Settled(Stamped(mem, heap, heap'), heap', live')
      /\ brk' = brk /\ foreign' = foreign
  BY DEF Free
<1>2. /\ Agree(heap, brk, live) /\ Holds(mem, heap, live) /\ brk \in Static .. Top
      /\ foreign \subseteq Static .. brk - 1 /\ Count(heap) = brk - Cardinality(foreign)
      /\ live \in [DOMAIN live -> [req : Sizes, tag : Tags]]
  BY Apply
<1>3. Chain(heap, brk) /\ brk \in 0 .. Top
  BY <1>2 DEF Agree
<1>4. \A r \in DOMAIN live : r - HDR \in Busy(heap) /\ r = (r - HDR) + HDR
  BY <1>2, Inside
<1>5. /\ Chain(heap', brk) /\ Count(heap') = Count(heap) /\ Busy(heap') = Busy(heap) \ {b}
      /\ \A a \in Busy(heap) \ {b} : heap'.blk[a].size = heap.blk[a].size
  BY <1>1, <1>3, <1>4, ReleaseEffect
<1>6. /\ DOMAIN live' = DOMAIN live \ {p} /\ \A r \in DOMAIN live' : live'[r] = live[r]
      /\ live' \in [DOMAIN live' -> [req : Sizes, tag : Tags]]
  BY <1>1, <1>2 DEF Without
<1>7. Agree(heap', brk', live')
  <2>1. DOMAIN live' = {a + HDR : a \in Busy(heap')}
    <3>1. DOMAIN live = {a + HDR : a \in Busy(heap)}
      BY <1>2 DEF Agree
    <3>2. \A a \in Busy(heap) : a + HDR = p <=> a = b
      <4>1. \A a \in Busy(heap) : a \in Nat
        BY <1>2, <1>3, ChainValues, Apply DEF Busy
      <4>. QED
        BY <1>4, <4>1, Numbers
    <3>. QED
      BY <1>5, <1>6, <3>1, <3>2
  <2>2. ASSUME NEW r \in DOMAIN live'
        PROVE  live'[r].req \in Nat /\ live'[r].tag \in Tags /\ live'[r].req <= heap'.blk[r - HDR].size
    <3>1. r \in DOMAIN live /\ r # p /\ live'[r] = live[r] /\ r - HDR \in Busy(heap) \ {b}
      BY <1>4, <1>6
    <3>. QED
      BY <1>2, <1>5, <3>1 DEF Agree
  <2>. QED
    BY <1>1, <1>3, <1>5, <2>1, <2>2 DEF Agree
<1>8. Holds(Stamped(mem, heap, heap'), heap', live')
  <2>1. mem \in [Cells -> Values] /\ \A c \in Headers(heap) : mem[c] = "header"
    BY <1>2 DEF Holds
  <2>2. \A r \in DOMAIN live' : \A c \in Span(r, live'[r].req) : mem[c] = live'[r].tag
    BY <1>2, <1>6 DEF Holds
  <2>. QED
    BY <1>7, <2>1, <2>2, StampedHolds
<1>9. Holds(mem', heap', live')
  BY <1>1, <1>7, <1>8, SettledHolds
<1>. QED
  BY <1>1, <1>2, <1>5, <1>6, <1>7, <1>9, Assemble

\* A block gets another size where it is, and nobody else's changes.
LEMMA InPlaceKeeps ==
  ASSUME Inv, NEW p \in DOMAIN live, NEW n \in Sizes,
         Chain(heap', brk), Count(heap') = Count(heap), Busy(heap') = Busy(heap),
         \A a \in Busy(heap) \ {p - HDR} : heap'.blk[a].size = heap.blk[a].size,
         n <= heap'.blk[p - HDR].size,
         live' = [live EXCEPT ![p].req = n],
         mem' = Settled(Grown(Stamped(mem, heap, heap'), p, n), heap', live'),
         brk' = brk, foreign' = foreign
  PROVE  Inv'
<1>. DEFINE b == p - HDR  m1 == Stamped(mem, heap, heap')  m2 == Grown(m1, p, n)
<1>2. /\ Agree(heap, brk, live) /\ Holds(mem, heap, live) /\ brk \in Static .. Top
      /\ foreign \subseteq Static .. brk - 1 /\ Count(heap) = brk - Cardinality(foreign)
      /\ live \in [DOMAIN live -> [req : Sizes, tag : Tags]] /\ brk \in Nat
  BY Apply
<1>3. Chain(heap, brk) /\ brk \in 0 .. Top
  BY <1>2 DEF Agree
<1>4. /\ b \in Busy(heap) /\ p = b + HDR /\ p \in Nat
      /\ \A r \in DOMAIN live : /\ r - HDR \in Busy(heap) /\ r = (r - HDR) + HDR /\ r \in Nat
                                /\ Span(r, live[r].req) \subseteq Body(heap, r - HDR)
  BY <1>2, Inside
<1>5. b \in Blocks(heap') /\ heap'.blk[b].size \in Nat /\ n \in Nat /\ HDR \in Nat
  <2>1. b \in Blocks(heap')
    BY <1>4 DEF Busy
  <2>. QED
    BY <1>2, <2>1, ChainValues, SizeAssumption, Numbers
<1>6. /\ DOMAIN live' = DOMAIN live /\ live'[p] = [req |-> n, tag |-> live[p].tag]
      /\ \A r \in DOMAIN live \ {p} : live'[r] = live[r]
      /\ live' \in [DOMAIN live' -> [req : Sizes, tag : Tags]]
      /\ live[p].tag \in Tags /\ live[p].req \in Nat
  <2>1. live[p] \in [req : Sizes, tag : Tags]
    BY <1>2
  <2>2. live[p] = [req |-> live[p].req, tag |-> live[p].tag] /\ live[p].tag \in Tags /\ live[p].req \in Nat
    BY <2>1, SizeAssumption
  <2>3. live'[p] = [live[p] EXCEPT !.req = n]
    BY <1>2
  <2>4. live'[p] = [req |-> n, tag |-> live[p].tag]
    BY <2>2, <2>3
  <2>5. DOMAIN live' = DOMAIN live /\ \A r \in DOMAIN live \ {p} : live'[r] = live[r]
    BY <1>2
  <2>6. \A r \in DOMAIN live : live'[r] \in [req : Sizes, tag : Tags]
    BY <1>2, <2>2, <2>4, <2>5
  <2>7. live' = [r \in DOMAIN live |-> live'[r]]
    BY <1>2
  <2>. QED
    BY <2>2, <2>4, <2>5, <2>6, <2>7
<1>7. ASSUME NEW r \in DOMAIN live \ {p}
      PROVE  /\ r - HDR \in Busy(heap) \ {b} /\ r - HDR \in Blocks(heap') \ {b}
             /\ Body(heap', r - HDR) = Body(heap, r - HDR)
             /\ heap'.blk[r - HDR].size = heap.blk[r - HDR].size
  BY <1>4, <1>5 DEF Body, Busy
<1>8. Agree(heap', brk', live')
  <2>1. DOMAIN live' = {a + HDR : a \in Busy(heap')}
    BY <1>2, <1>6 DEF Agree
  <2>2. ASSUME NEW r \in DOMAIN live \ {p}
        PROVE  live'[r].req \in Nat /\ live'[r].tag \in Tags /\ live'[r].req <= heap'.blk[r - HDR].size
    BY <1>2, <1>6, <1>7 DEF Agree
  <2>3. live'[p].req \in Nat /\ live'[p].tag \in Tags /\ live'[p].req <= heap'.blk[b].size
    BY <1>5, <1>6
  <2>4. \A r \in DOMAIN live' : live'[r].req \in Nat /\ live'[r].tag \in Tags /\ live'[r].req <= heap'.blk[r - HDR].size
    BY <1>6, <2>2, <2>3
  <2>. QED
    BY <1>3, <2>1, <2>4 DEF Agree
<1>9. Headers(heap') \subseteq Cells
  BY <1>3, HeaderCells
<1>10. /\ m1 \in [Cells -> Values]
       /\ \A c \in Headers(heap') : m1[c] = "header"
       /\ \A c \in Cells \ Headers(heap') : m1[c] = mem[c]
  BY <1>2, <1>9, StampedCells DEF Holds
<1>. HIDE DEF m1
<1>11. /\ m2 \in [Cells -> Values]
       /\ \A c \in Cells : m2[c] = IF p + live[p].req <= c /\ c < p + n THEN live[p].tag ELSE m1[c]
  <2>1. live[p].tag \in Values
    BY <1>6 DEF Values
  <2>. QED
    BY <1>10, <2>1, FilledCells DEF Grown
<1>. HIDE DEF m2
<1>12. ASSUME NEW c \in Cells, p + live[p].req <= c, c < p + n PROVE c \in Body(heap', b)
  <2>1. c \in Nat
    BY <1>12, Numbers DEF Cells
  <2>. QED
    BY <1>4, <1>5, <1>6, <1>12, <2>1 DEF Body, Span
<1>13. ASSUME NEW c \in Headers(heap') PROVE m2[c] = "header"
  <2>1. c \notin Body(heap', b)
    BY <1>3, <1>5, BodyCells
  <2>. QED
    BY <1>9, <1>10, <1>11, <1>12, <2>1
<1>14. ASSUME NEW r \in DOMAIN live \ {p}, NEW c \in Span(r, live[r].req) PROVE m2[c] = live[r].tag
  <2>1. c \in Body(heap', r - HDR) /\ r - HDR \in Blocks(heap') \ {b}
    BY <1>4, <1>7
  <2>2. c \in Cells /\ c \notin Headers(heap') /\ c \notin Body(heap', b)
    BY <1>3, <1>5, <2>1, BodyCells
  <2>3. mem[c] = live[r].tag
    BY <1>2 DEF Holds
  <2>. QED
    BY <1>10, <1>11, <1>12, <2>2, <2>3
<1>15. ASSUME NEW c \in Span(p, n) PROVE m2[c] = live[p].tag
  <2>1. c \in Body(heap', b) /\ p <= c /\ c < p + n /\ c \in Nat
    BY <1>4, <1>5, SpanIn DEF Body
  <2>2. c \in Cells /\ c \notin Headers(heap')
    BY <1>3, <1>5, <2>1, BodyCells
  <2>3. CASE p + live[p].req <= c
    BY <1>11, <2>1, <2>2, <2>3
  <2>4. CASE ~(p + live[p].req <= c)
    <3>1. c \in Span(p, live[p].req)
      BY <1>4, <1>6, <2>1, <2>4 DEF Span
    <3>2. mem[c] = live[p].tag
      BY <1>2, <3>1 DEF Holds
    <3>. QED
      BY <1>10, <1>11, <2>2, <2>4, <3>2
  <2>. QED
    BY <2>3, <2>4
<1>16. Holds(m2, heap', live')
  <2>1. \A r \in DOMAIN live' : \A c \in Span(r, live'[r].req) : m2[c] = live'[r].tag
    BY <1>6, <1>14, <1>15
  <2>. QED
    BY <1>11, <1>13, <2>1 DEF Holds
<1>17. Holds(mem', heap', live')
  <2>1. mem' = Settled(m2, heap', live')
    BY DEF m2, m1
  <2>. QED
    BY <1>8, <1>16, <2>1, SettledHolds
<1>. QED
  BY <1>2, <1>6, <1>8, <1>17, Assemble

LEMMA ReallocInPlaceKeeps ==
  ASSUME Inv, NEW p \in DOMAIN live, NEW n \in Sizes, ReallocShrink(p, n) \/ ReallocExtend(p, n)
  PROVE  Inv'
<1>. DEFINE b == p - HDR  g == MergeNext(heap, b)
<1>1. /\ Agree(heap, brk, live) /\ Chain(heap, brk) /\ brk \in 0 .. Top /\ brk \in Nat
  BY Apply DEF Agree
<1>2. b \in Busy(heap) /\ b \in Blocks(heap)
  BY <1>1, Inside
<1>3. n \in Nat /\ AlignUp(n) \in Nat /\ n <= AlignUp(n) /\ HDR \in Nat /\ heap.blk[b].size \in Nat
  BY <1>1, <1>2, SizeAssumption, AlignUpType, Numbers, ChainValues
<1>4. /\ live' = [live EXCEPT ![p].req = n]
      /\ mem' = Settled(Grown(Stamped(mem, heap, heap'), p, n), heap', live')
      /\ brk' = brk /\ foreign' = foreign
  BY DEF ReallocShrink, ReallocExtend
<1>5. CASE ReallocShrink(p, n)
  <2>1. heap' = Split(heap, b, AlignUp(n)) /\ n <= heap.blk[b].size
    BY <1>3, <1>5 DEF ReallocShrink
  <2>2. Chain(heap', brk)
    BY <1>1, <1>2, <1>3, <2>1, SplitChain
  <2>3. /\ Busy(heap') = Busy(heap) /\ Count(heap') = Count(heap)
        /\ \A a \in Blocks(heap) \ {b} : heap'.blk[a].size = heap.blk[a].size
        /\ n <= heap'.blk[b].size
    BY <1>1, <1>2, <1>3, <2>1, SplitEffect
  <2>4. \A a \in Busy(heap) \ {b} : heap'.blk[a].size = heap.blk[a].size
    BY <2>3 DEF Busy
  <2>. QED
    BY <1>4, <2>2, <2>3, <2>4, InPlaceKeeps
<1>6. CASE ReallocExtend(p, n)
  <2>1. heap' = Split(g, b, AlignUp(n)) /\ RoomBehind(b, n)
    BY <1>6 DEF ReallocExtend
  <2>2. Chain(g, brk)
    BY <1>1, <1>2, MergeChain
  <2>3. /\ Busy(g) = Busy(heap) /\ Count(g) = Count(heap) /\ b \in Blocks(g)
        /\ \A a \in Busy(heap) \ {b} : g.blk[a].size = heap.blk[a].size
        /\ g.blk[b].size = IF NextIsFree(heap, b)
                           THEN heap.blk[b].size + HDR + heap.blk[heap.blk[b].next].size
                           ELSE heap.blk[b].size
    BY <1>1, <1>2, MergeEffect
  <2>4. n <= g.blk[b].size
    <3>1. g.blk[b].size >= n
      BY <2>1, <2>3 DEF RoomBehind
    <3>2. g.blk[b].size \in Nat
      BY <1>1, <2>2, <2>3, ChainValues
    <3>. QED
      BY <1>3, <3>1, <3>2
  <2>. HIDE DEF g
  <2>5. Chain(heap', brk)
    BY <1>1, <1>3, <2>1, <2>2, <2>3, SplitChain
  <2>6. /\ Busy(heap') = Busy(g) /\ Count(heap') = Count(g)
        /\ \A a \in Blocks(g) \ {b} : heap'.blk[a].size = g.blk[a].size
        /\ n <= heap'.blk[b].size
    BY <1>1, <1>3, <2>1, <2>2, <2>3, <2>4, SplitEffect
  <2>7. \A a \in Busy(heap) \ {b} : heap'.blk[a].size = heap.blk[a].size
    <3>1. Busy(g) \subseteq Blocks(g)
      BY DEF Busy
    <3>. QED
      BY <2>3, <2>6, <3>1
  <2>. QED
    BY <1>4, <2>3, <2>5, <2>6, <2>7, InPlaceKeeps
<1>. QED
  BY <1>5, <1>6

LEMMA ReallocMoveKeeps ==
  ASSUME Inv, NEW p \in DOMAIN live, NEW n \in Sizes, ReallocMove(p, n)
  PROVE  Inv'
<1>. DEFINE b == p - HDR
<1>1. PICK f \in Found(AlignUp(n)) :
        /\ heap' = Release(f.h, b) /\ Grow(f)
        /\ live' = Moved(p, f.at + HDR, n)
        /\ mem' = Settled(Filled(Stamped(Copied(Stamped(Received(mem, f), heap, f.h),
                                                p, f.at + HDR, heap.blk[b].size), f.h, heap'),
                                 f.at + HDR + live[p].req, f.at + HDR + n, live[p].tag), heap', live')
  BY DEF ReallocMove
<1>. DEFINE at == f.at  q == at + HDR  size == heap.blk[b].size
            m0 == Received(mem, f)  m1 == Stamped(m0, heap, f.h)
            m2 == Copied(m1, p, q, size)  m3 == Stamped(m2, f.h, heap')
            m4 == Filled(m3, q + live[p].req, q + n, live[p].tag)
<1>2. n \in Nat /\ AlignUp(n) \in Nat /\ n <= AlignUp(n) /\ HDR \in Nat
  BY SizeAssumption, AlignUpType, Numbers
<1>3. /\ Agree(heap, brk, live) /\ Holds(mem, heap, live) /\ brk \in Nat /\ Chain(heap, brk)
      /\ brk \in 0 .. Top /\ live \in [DOMAIN live -> [req : Sizes, tag : Tags]]
  BY Apply DEF Agree
<1>4. /\ brk' = f.brk /\ brk' \in Static .. Top /\ brk' \in 0 .. Top /\ brk' \in Nat
      /\ foreign' \subseteq Static .. brk' - 1
      /\ Count(f.h) = brk' - Cardinality(foreign')
  BY <1>1, <1>2, GrowCounts, Numbers DEF Inv
<1>5. /\ Chain(f.h, brk') /\ at \in Nat /\ at \notin Busy(heap) /\ Busy(f.h) = Busy(heap) \cup {at}
      /\ AlignUp(n) <= f.h.blk[at].size
      /\ \A a \in Busy(heap) : f.h.blk[a].size = heap.blk[a].size
  BY <1>1, <1>2, <1>4, FoundEffect DEF Inv
<1>6. /\ b \in Busy(heap) /\ b \in Blocks(heap) /\ p = b + HDR /\ p \in Nat
      /\ \A r \in DOMAIN live : /\ r - HDR \in Busy(heap) /\ r = (r - HDR) + HDR /\ r \in Nat
                                /\ Span(r, live[r].req) \subseteq Body(heap, r - HDR)
  BY <1>3, Inside
<1>7. /\ Chain(heap', brk') /\ Count(heap') = Count(f.h) /\ Busy(heap') = Busy(f.h) \ {b}
      /\ \A a \in Busy(f.h) \ {b} : heap'.blk[a].size = f.h.blk[a].size
  <2>1. b \in Busy(f.h)
    BY <1>5, <1>6
  <2>. QED
    BY <1>1, <1>4, <1>5, <2>1, ReleaseEffect
<1>8. /\ at \in Blocks(heap') /\ at \in Blocks(f.h) /\ heap'.blk[at].size \in Nat
      /\ heap'.blk[at].size = f.h.blk[at].size
      /\ n <= heap'.blk[at].size /\ at # b /\ at \in Busy(heap')
  <2>1. at # b /\ at \in Busy(heap') /\ heap'.blk[at].size = f.h.blk[at].size
    BY <1>5, <1>6, <1>7
  <2>2. at \in Blocks(heap') /\ at \in Blocks(f.h)
    BY <1>5, <2>1 DEF Busy
  <2>3. heap'.blk[at].size \in Nat
    BY <1>4, <1>7, <2>2, ChainValues
  <2>. QED
    BY <1>2, <1>5, <2>1, <2>2, <2>3
<1>9. q - HDR = at /\ q \in Nat /\ q \notin DOMAIN live
  BY <1>2, <1>5, <1>6
<1>10. /\ size \in Nat /\ size < n /\ live[p].req \in Nat /\ live[p].req <= size /\ live[p].tag \in Tags
  <2>1. size < n
    BY DEF ReallocMove
  <2>2. size \in Nat
    BY <1>3, <1>6, ChainValues
  <2>. QED
    BY <1>3, <2>1, <2>2 DEF Agree
<1>11. /\ DOMAIN live' = (DOMAIN live \ {p}) \cup {q}
       /\ live'[q] = [req |-> n, tag |-> live[p].tag]
       /\ \A r \in DOMAIN live \ {p} : live'[r] = live[r]
       /\ live' \in [DOMAIN live' -> [req : Sizes, tag : Tags]]
  BY <1>1, <1>3, <1>9, <1>10 DEF Moved
<1>12. ASSUME NEW r \in DOMAIN live \ {p}
       PROVE  /\ r - HDR \in Busy(heap) \ {b} /\ r - HDR \in Blocks(heap') \ {at}
              /\ r - HDR \in Blocks(heap) /\ r - HDR \in Blocks(f.h) \ {at}
              /\ heap'.blk[r - HDR].size = heap.blk[r - HDR].size
              /\ Body(heap', r - HDR) = Body(heap, r - HDR)
              /\ Body(f.h, r - HDR) = Body(heap, r - HDR)
  <2>1. r - HDR \in Busy(heap) \ {b}
    BY <1>6
  <2>2. r - HDR \in Busy(f.h) \ {b} /\ r - HDR # at
    BY <1>5, <2>1
  <2>3. r - HDR \in Busy(heap')
    BY <1>7, <2>2
  <2>4. heap'.blk[r - HDR].size = f.h.blk[r - HDR].size /\ f.h.blk[r - HDR].size = heap.blk[r - HDR].size
    BY <1>5, <1>7, <2>1, <2>2
  <2>. QED
    BY <2>1, <2>2, <2>3, <2>4 DEF Body, Busy
<1>. HIDE DEF b, at, size
<1>13. Agree(heap', brk', live')
  <2>1. DOMAIN live' = {a + HDR : a \in Busy(heap')}
    <3>1. DOMAIN live = {a + HDR : a \in Busy(heap)}
      BY <1>3 DEF Agree
    <3>2. \A a \in Busy(heap) : a + HDR = p <=> a = b
      <4>1. \A a \in Busy(heap) : a \in Nat
        BY <1>3, ChainValues DEF Busy
      <4>. QED
        BY <1>2, <1>6, <4>1
    <3>3. Busy(heap') = (Busy(heap) \ {b}) \cup {at}
      BY <1>5, <1>7, <1>8
    <3>. QED
      BY <1>11, <3>1, <3>2, <3>3
  <2>2. ASSUME NEW r \in DOMAIN live \ {p}
        PROVE  live'[r].req \in Nat /\ live'[r].tag \in Tags /\ live'[r].req <= heap'.blk[r - HDR].size
    BY <1>3, <1>11, <1>12 DEF Agree
  <2>3. live'[q].req \in Nat /\ live'[q].tag \in Tags /\ live'[q].req <= heap'.blk[q - HDR].size
    BY <1>2, <1>8, <1>9, <1>10, <1>11
  <2>4. \A r \in DOMAIN live' : live'[r].req \in Nat /\ live'[r].tag \in Tags /\ live'[r].req <= heap'.blk[r - HDR].size
    BY <1>11, <2>2, <2>3
  <2>. QED
    BY <1>4, <1>7, <2>1, <2>4 DEF Agree
<1>14. m0 \in [Cells -> Values] /\ \A c \in Cells : c < brk => m0[c] = mem[c]
  BY <1>3, ReceivedCells DEF Holds
<1>15. \A c \in Headers(heap) : m0[c] = "header"
  BY <1>3, <1>14, HeaderCells DEF Holds
<1>16. Headers(f.h) \subseteq Cells /\ Headers(heap') \subseteq Cells
  BY <1>4, <1>5, <1>7, HeaderCells
<1>. HIDE DEF m0
<1>17. /\ m1 \in [Cells -> Values]
       /\ \A c \in Headers(f.h) : m1[c] = "header"
       /\ \A c \in Cells \ Headers(f.h) : m1[c] = m0[c]
  BY <1>14, <1>15, <1>16, StampedCells
<1>. HIDE DEF m1
<1>18. ASSUME NEW c \in Span(q, size)
       PROVE  /\ c \in Body(f.h, at) /\ c - q + p \in Body(heap, b) /\ c - q + p \in Cells
              /\ m1[c - q + p] = mem[c - q + p]
  <2>1. c \in Nat /\ q <= c /\ c < q + size
    BY <1>9, <1>10, SpanIn
  <2>2. c \in Body(f.h, at)
    <3>1. size <= f.h.blk[at].size /\ f.h.blk[at].size \in Nat
      BY <1>2, <1>8, <1>10
    <3>. QED
      BY <1>9, <1>10, <3>1, SpanIn DEF Body
  <2>3. c - q + p \in Nat /\ p <= c - q + p /\ c - q + p <= p + size - 1
    BY <1>6, <1>9, <1>10, <2>1
  <2>4. c - q + p \in Body(heap, b)
    BY <1>6, <1>10, <2>3 DEF Body, Span, size
  <2>5. c - q + p \in Cells /\ c - q + p < brk
    BY <1>3, <1>6, <2>4, BodyCells
  <2>6. c - q + p \notin Headers(f.h)
    <3>1. b \in Blocks(f.h) /\ Body(f.h, b) = Body(heap, b)
      BY <1>5, <1>6 DEF Busy, Body
    <3>. QED
      BY <1>4, <1>5, <2>4, <3>1, BodyCells
  <2>. QED
    BY <1>14, <1>17, <2>2, <2>4, <2>5, <2>6
<1>19. /\ m2 \in [Cells -> Values]
       /\ \A c \in Cells : m2[c] = IF c \in Span(q, size) THEN m1[c - q + p] ELSE m1[c]
  BY <1>17, <1>18 DEF Copied
<1>. HIDE DEF m2
<1>20. \A c \in Headers(f.h) : m2[c] = "header"
  <2>1. ASSUME NEW c \in Headers(f.h) PROVE c \notin Span(q, size)
    <3>1. c \notin Body(f.h, at)
      BY <1>4, <1>5, <1>8, BodyCells
    <3>. QED
      BY <1>18, <3>1
  <2>. QED
    BY <1>16, <1>17, <1>19, <2>1
<1>21. /\ m3 \in [Cells -> Values]
       /\ \A c \in Headers(heap') : m3[c] = "header"
       /\ \A c \in Cells \ Headers(heap') : m3[c] = m2[c]
  BY <1>16, <1>19, <1>20, StampedCells
<1>. HIDE DEF m3
<1>22. /\ m4 \in [Cells -> Values]
       /\ \A c \in Cells : m4[c] = IF q + live[p].req <= c /\ c < q + n THEN live[p].tag ELSE m3[c]
  <2>1. live[p].tag \in Values
    BY <1>10 DEF Values
  <2>. QED
    BY <1>21, <2>1, FilledCells
<1>. HIDE DEF m4
<1>23. ASSUME NEW c \in Cells, q + live[p].req <= c, c < q + n PROVE c \in Body(heap', at)
  <2>1. c \in Nat
    BY Numbers DEF Cells
  <2>2. q <= c /\ c <= q + heap'.blk[at].size - 1
    BY <1>2, <1>8, <1>9, <1>10, <1>23, <2>1
  <2>. QED
    BY <1>8, <1>9, <2>1, <2>2 DEF Body, Span
<1>24. ASSUME NEW c \in Headers(heap') PROVE m4[c] = "header"
  <2>1. c \notin Body(heap', at)
    BY <1>4, <1>7, <1>8, BodyCells
  <2>. QED
    BY <1>16, <1>21, <1>22, <1>23, <2>1
<1>25. ASSUME NEW r \in DOMAIN live \ {p}, NEW c \in Span(r, live[r].req) PROVE m4[c] = live[r].tag
  <2>1. c \in Body(heap, r - HDR) /\ c \in Body(heap', r - HDR) /\ c \in Body(f.h, r - HDR)
    BY <1>6, <1>12
  <2>2. c \in Cells /\ c \notin Headers(heap') /\ c \notin Body(heap', at)
    BY <1>4, <1>7, <1>8, <1>12, <2>1, BodyCells
  <2>3. c \notin Headers(f.h) /\ c \notin Body(f.h, at)
    BY <1>4, <1>5, <1>8, <1>12, <2>1, BodyCells
  <2>4. c < brk
    BY <1>3, <1>12, <2>1, BodyCells
  <2>5. mem[c] = live[r].tag
    BY <1>3 DEF Holds
  <2>6. m1[c] = mem[c]
    BY <1>14, <1>17, <2>2, <2>3, <2>4
  <2>7. m2[c] = m1[c]
    BY <1>18, <1>19, <2>2, <2>3
  <2>. QED
    BY <1>21, <1>22, <1>23, <2>2, <2>5, <2>6, <2>7
<1>26. ASSUME NEW c \in Span(q, n) PROVE m4[c] = live[p].tag
  <2>1. c \in Body(heap', at) /\ q <= c /\ c < q + n /\ c \in Nat
    BY <1>2, <1>8, <1>9, SpanIn DEF Body
  <2>2. c \in Cells /\ c \notin Headers(heap')
    BY <1>4, <1>7, <1>8, <2>1, BodyCells
  <2>3. CASE q + live[p].req <= c
    BY <1>22, <2>1, <2>2, <2>3
  <2>4. CASE ~(q + live[p].req <= c)
    <3>1. c \in Span(q, size) /\ c - q + p \in Span(p, live[p].req)
      BY <1>6, <1>9, <1>10, <2>1, <2>4 DEF Span
    <3>2. mem[c - q + p] = live[p].tag
      BY <1>3, <3>1 DEF Holds
    <3>3. m2[c] = live[p].tag
      BY <1>18, <1>19, <2>2, <3>1, <3>2
    <3>. QED
      BY <1>21, <1>22, <2>2, <2>4, <3>3
  <2>. QED
    BY <2>3, <2>4
<1>27. Holds(m4, heap', live')
  <2>1. \A r \in DOMAIN live' : \A c \in Span(r, live'[r].req) : m4[c] = live'[r].tag
    BY <1>9, <1>11, <1>25, <1>26
  <2>. QED
    BY <1>22, <1>24, <2>1 DEF Holds
<1>28. mem' = Settled(m4, heap', live')
  BY <1>1 DEF m4, m3, m2, m1, m0, at, size, b
<1>29. Holds(mem', heap', live')
  BY <1>13, <1>27, <1>28, SettledHolds
<1>. QED
  BY <1>4, <1>7, <1>11, <1>13, <1>29, Assemble

(***************************************************************************)
(* The theorems.                                                           *)
(***************************************************************************)
LEMMA NextKeeps ==
  Inv /\ [Next]_vars => Inv'
<1>1. SUFFICES ASSUME Inv, [Next]_vars PROVE Inv'
  OBVIOUS
<1>2. CASE \E n \in Sizes, t \in Unused : Malloc(n, t)
  BY <1>1, <1>2, MallocKeeps
<1>3. CASE \E p \in DOMAIN live : Free(p)
  BY <1>1, <1>3, FreeKeeps
<1>4. CASE \E p \in DOMAIN live, n \in Sizes : Realloc(p, n)
  BY <1>1, <1>4, ReallocInPlaceKeeps, ReallocMoveKeeps DEF Realloc
<1>5. CASE UNCHANGED vars
  <2>1. heap' = heap /\ mem' = mem /\ live' = live /\ brk' = brk /\ foreign' = foreign
    BY <1>5 DEF vars
  <2>. QED
    BY <1>1, <2>1 DEF Inv, ListIsHeap, DataIntact, TypeOK, Linked, Tiled, Given, Counted, LiveAreUsed
<1>. QED
  BY <1>1, <1>2, <1>3, <1>4, <1>5 DEF Next

\* Whatever a program asks for, returns and resizes, in whatever order, and
\* wherever the kernel puts the chunks: the list that malloc, realloc and free
\* walk and edit holds every block once and in the order of the addresses, the
\* blocks in use are the program's, and as long as no block was merged over
\* foreign memory the blocks are exactly the memory the allocator was given.
THEOREM HeapIsWhole == Spec => []ListIsHeap
<1>1. Inv => ListIsHeap
  BY DEF Inv
<1>. QED
  BY <1>1, FirstState, NextKeeps, PTL DEF Spec

\* What the program wrote into an allocation stays until it frees it, through
\* every split, merge, move and copy, and no header is written over.
THEOREM DataStays == Spec => []DataIntact
<1>1. Inv => DataIntact
  BY DEF Inv
<1>. QED
  BY <1>1, FirstState, NextKeeps, PTL DEF Spec

===============================================================================
