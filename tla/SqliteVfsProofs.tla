--------------------------- MODULE SqliteVfsProofs ---------------------------
(***************************************************************************)
(* Proofs about SqliteVfs: the inductive invariant VfsInv, and from it the *)
(* two properties the run checks.  The first half is about the operators   *)
(* on handles: what a write, a truncation and a rollback leave in a file.  *)
(***************************************************************************)
EXTENDS SqliteVfs, NaturalsInduction, WellFoundedInduction, FiniteSetTheorems,
        FunctionTheorems, SequenceTheorems, TLAPS

----------------------------------------------------------------------------
(* Numbers, cells and recursion. *)

\* A non-empty set of numbers has a least one.
LEMMA LeastNumber ==
  ASSUME NEW T \in SUBSET Nat, T # {}
  PROVE  \E n \in T : \A m \in T : n <= m
<1>1. PICK n \in T : \A m \in T : ~(<<m, n>> \in OpToRel(<, Nat))
  BY WFMin, NatLessThanWellFounded
<1>2. \A m \in T : ~(m < n)
  BY <1>1 DEF OpToRel
<1>. QED
  BY <1>2

\* Memory that is new is a page of no transaction.
LEMMA ZeroIsPage == Zero \in Pages /\ Pages \subseteq Cells
BY BoundAssumption DEF Zero, Pages, Page, Cells

\* The capacities tried: each is twice the one before.
LEMMA DoubledIs ==
  ASSUME NEW c \in Nat, c > 0, NEW n \in Nat
  PROVE  /\ DOMAIN Doubled(c, n) = 0 .. n
         /\ \A i \in 0 .. n : Doubled(c, n)[i] \in Nat /\ Doubled(c, n)[i] > i
<1>. DEFINE Is(g, m) == g = [i \in 0 .. m |-> IF i = 0 THEN c ELSE 2 * g[i - 1]]
            Bad == {m \in Nat : ~ \E g : Is(g, m)}
<1>1. Bad = {}
  <2>1. SUFFICES ASSUME Bad # {} PROVE FALSE
    OBVIOUS
  <2>2. PICK m \in Bad : \A k \in Bad : m <= k
    <3>1. Bad \in SUBSET Nat
      OBVIOUS
    <3>. HIDE DEF Bad
    <3>. QED
      BY <2>1, <3>1, LeastNumber
  <2>3. CASE m = 0
    <3>1. Is([i \in 0 .. 0 |-> c], 0)
      OBVIOUS
    <3>. QED
      BY <2>3, <3>1
  <2>4. CASE m # 0
    <3>1. m \in Nat /\ m - 1 \in Nat /\ m - 1 \notin Bad
      <4>1. m \in Nat
        BY <2>2
      <4>. HIDE DEF Bad
      <4>. QED
        BY <2>2, <2>4, <4>1
    <3>2. PICK g : Is(g, m - 1)
      BY <3>1
    <3>. DEFINE h == [i \in 0 .. m |-> IF i < m THEN g[i] ELSE 2 * g[m - 1]]
    <3>3. \A i \in 0 .. m : h[i] = IF i = 0 THEN c ELSE 2 * h[i - 1]
      <4>. TAKE i \in 0 .. m
      <4>1. CASE i = m
        BY <3>1, <2>4, <4>1
      <4>2. CASE i < m
        <5>1. i \in 0 .. m - 1
          BY <3>1, <4>2
        <5>2. g[i] = IF i = 0 THEN c ELSE 2 * g[i - 1]
          BY <3>2, <5>1
        <5>3. i # 0 => i - 1 \in 0 .. m /\ i - 1 < m
          BY <3>1, <4>2
        <5>. QED
          BY <4>2, <5>2, <5>3
      <4>. QED
        BY <3>1, <4>1, <4>2
    <3>4. h = [i \in 0 .. m |-> h[i]]
      OBVIOUS
    <3>5. Is(h, m)
      <4>. HIDE DEF h
      <4>. QED
        BY <3>3, <3>4
    <3>. QED
      BY <3>1, <3>5, <2>2
  <2>. QED
    BY <2>3, <2>4
<1>2. Is(Doubled(c, n), n)
  <2>1. \E g : Is(g, n)
    BY <1>1
  <2>2. Doubled(c, n) = CHOOSE g : Is(g, n)
    BY DEF Doubled
  <2>. HIDE DEF Is
  <2>. QED
    BY <2>1, <2>2
<1>. DEFINE d == Doubled(c, n)
            Low == {i \in 0 .. n : ~(d[i] \in Nat /\ d[i] > i)}
<1>3. DOMAIN d = 0 .. n
  BY <1>2
<1>4. \A i \in 0 .. n : d[i] = IF i = 0 THEN c ELSE 2 * d[i - 1]
  BY <1>2
<1>. HIDE DEF d
<1>5. Low = {}
  <2>1. SUFFICES ASSUME Low # {} PROVE FALSE
    OBVIOUS
  <2>2. PICK i \in Low : \A k \in Low : i <= k
    <3>1. Low \in SUBSET Nat
      OBVIOUS
    <3>. HIDE DEF Low
    <3>. QED
      BY <2>1, <3>1, LeastNumber
  <2>3. i # 0
    BY <1>4, <2>2
  <2>4. i - 1 \in 0 .. n /\ i - 1 \notin Low
    BY <2>2, <2>3
  <2>. QED
    BY <1>4, <2>2, <2>3, <2>4
<1>. QED
  BY <1>3, <1>5 DEF d

LEMMA CapacityIs ==
  ASSUME NEW start \in Nat, start > 0, NEW need \in Nat
  PROVE  Capacity(start, need) \in Nat /\ Capacity(start, need) >= need
<1>. DEFINE d == Doubled(start, need)
            Enough == {i \in 0 .. need : d[i] >= need}
            First(i) == d[i] >= need /\ \A j \in 0 .. i - 1 : d[j] < need
<1>1. \A i \in 0 .. need : d[i] \in Nat /\ d[i] > i
  BY DoubledIs
<1>. HIDE DEF d
<1>2. need \in Enough /\ Enough \in SUBSET Nat
  BY <1>1
<1>3. PICK i \in Enough : \A k \in Enough : i <= k
  <2>. HIDE DEF Enough
  <2>. QED
    BY <1>2, LeastNumber
<1>4. i \in 0 .. need /\ First(i)
  BY <1>1, <1>3
<1>5. Capacity(start, need) = d[CHOOSE k \in 0 .. need : First(k)]
  BY DEF Capacity, d
<1>. QED
  <2>. DEFINE k == CHOOSE k \in 0 .. need : First(k)
  <2>1. k \in 0 .. need /\ First(k)
    <3>. HIDE DEF First
    <3>. QED
      BY <1>4
  <2>. HIDE DEF k
  <2>2. d[k] \in Nat /\ d[k] >= need
    BY <1>1, <2>1
  <2>. QED
    BY <1>5, <2>2 DEF k

----------------------------------------------------------------------------
(* Handles. *)

\* What a handle shows is the front of its memory.
LEMMA ViewIs ==
  ASSUME NEW f, Sized(f)
  PROVE  /\ View(f) \in Seq(Cells) /\ Len(View(f)) = f.size
         /\ \A j \in 1 .. f.size : View(f)[j] = f.buf[j]
<1>1. f.buf \in Seq(Cells) /\ f.size \in Nat /\ f.size <= Len(f.buf)
  BY DEF Sized, Handles
<1>. QED
  BY <1>1, SubSeqProperties DEF View

\* Reserving keeps the memory and adds zeros.
Roomier(f, need, r) ==
    /\ r \in Handles /\ r.size = f.size /\ r.dirty = f.dirty
    /\ Len(r.buf) >= need /\ Len(r.buf) >= Len(f.buf)
    /\ \A j \in 1 .. Len(f.buf) : r.buf[j] = f.buf[j]
    /\ \A j \in Len(f.buf) + 1 .. Len(r.buf) : r.buf[j] = Zero

LEMMA ReserveIs ==
  ASSUME NEW f \in Handles, NEW need \in Nat
  PROVE  Roomier(f, need, Reserve(f, need))
<1>. DEFINE start == IF Len(f.buf) > 0 THEN Len(f.buf) ELSE 1
            c == Capacity(start, need)
            b == [i \in 1 .. c |-> IF i <= Len(f.buf) THEN f.buf[i] ELSE Zero]
<1>1. /\ f.buf \in Seq(Cells) /\ f.size \in Nat /\ f.dirty \in BOOLEAN /\ Len(f.buf) \in Nat
      /\ f = [buf |-> f.buf, size |-> f.size, dirty |-> f.dirty]
  BY DEF Handles
<1>2. CASE need <= Len(f.buf)
  <2>1. Reserve(f, need) = f
    BY <1>2 DEF Reserve
  <2>. QED
    BY <1>1, <1>2, <2>1 DEF Roomier
<1>3. CASE ~(need <= Len(f.buf))
  <2>1. Reserve(f, need) = [f EXCEPT !.buf = b]
    BY <1>3 DEF Reserve
  <2>2. c \in Nat /\ c >= need
    <3>1. start \in Nat /\ start > 0
      BY <1>1
    <3>. HIDE DEF start
    <3>. QED
      BY <3>1, CapacityIs
  <2>. HIDE DEF c
  <2>3. b \in Seq(Cells) /\ Len(b) = c
    <3>1. \A i \in 1 .. c : b[i] \in Cells
      BY <1>1, ZeroIsPage
    <3>. QED
      BY <2>2, <3>1
  <2>4. \A i \in 1 .. c : b[i] = IF i <= Len(f.buf) THEN f.buf[i] ELSE Zero
    OBVIOUS
  <2>. HIDE DEF b
  <2>5. [f EXCEPT !.buf = b] = [buf |-> b, size |-> f.size, dirty |-> f.dirty]
    BY <1>1
  <2>6. \A r : r = [buf |-> b, size |-> f.size, dirty |-> f.dirty] => Roomier(f, need, r)
    BY <1>1, <1>3, <2>2, <2>3, <2>4 DEF Roomier, Handles
  <2>. QED
    BY <2>1, <2>5, <2>6
<1>. QED
  BY <1>2, <1>3

\* A write at cell i: the file is long enough for it, what is between the old end
\* and the cell is zero, and the rest is as it was.
Put(f, i, v, g) ==
    /\ Sized(g) /\ g.dirty = TRUE
    /\ g.size = IF i > f.size THEN i ELSE f.size
    /\ \A j \in 1 .. g.size :
         g.buf[j] = IF j = i THEN v ELSE IF j <= f.size THEN f.buf[j] ELSE Zero

LEMMA WriteIs ==
  ASSUME NEW f, Sized(f), NEW i \in Nat, i > 0, NEW v \in Cells
  PROVE  Put(f, i, v, WriteCell(f, i, v))
<1>. DEFINE r == Reserve(f, i)
            c == Len(r.buf)
            b == [j \in 1 .. c |-> IF j = i THEN v
                                    ELSE IF j > f.size /\ j < i THEN Zero ELSE r.buf[j]]
            s == IF i > f.size THEN i ELSE f.size
<1>1. /\ f \in Handles /\ f.buf \in Seq(Cells) /\ f.size \in Nat /\ f.size <= Len(f.buf)
      /\ Len(f.buf) \in Nat
  BY DEF Sized, Handles
<1>2. Roomier(f, i, r)
  BY <1>1, ReserveIs
<1>. HIDE DEF r
<1>3. /\ r.buf \in Seq(Cells) /\ Len(r.buf) \in Nat /\ Len(r.buf) >= i /\ Len(r.buf) >= f.size
      /\ \A j \in 1 .. f.size : r.buf[j] = f.buf[j]
  BY <1>1, <1>2 DEF Roomier, Handles
<1>4. b \in Seq(Cells) /\ Len(b) = Len(r.buf)
  <2>1. \A j \in 1 .. c : b[j] \in Cells
    BY <1>3, ZeroIsPage
  <2>2. c \in Nat
    BY <1>3
  <2>3. c = Len(r.buf)
    OBVIOUS
  <2>. HIDE DEF c
  <2>4. b \in Seq(Cells) /\ Len(b) = c
    BY <2>1, <2>2
  <2>. QED
    BY <2>3, <2>4
<1>5. \A j \in 1 .. Len(r.buf) :
        b[j] = IF j = i THEN v ELSE IF j > f.size /\ j < i THEN Zero ELSE r.buf[j]
  OBVIOUS
<1>6. WriteCell(f, i, v) = [buf |-> b, size |-> s, dirty |-> TRUE]
  BY DEF WriteCell, r
<1>. HIDE DEF b
<1>7. \A j \in 1 .. s : b[j] = IF j = i THEN v ELSE IF j <= f.size THEN f.buf[j] ELSE Zero
  BY <1>1, <1>3, <1>5
<1>8. s \in Nat /\ s <= Len(b)
  BY <1>1, <1>3, <1>4
<1>. HIDE DEF s
<1>9. \A g : g = [buf |-> b, size |-> s, dirty |-> TRUE] => Put(f, i, v, g)
  <2>. TAKE g
  <2>. HAVE g = [buf |-> b, size |-> s, dirty |-> TRUE]
  <2>1. g.buf = b /\ g.size = s /\ g.dirty = TRUE
    OBVIOUS
  <2>2. Sized(g)
    BY <1>4, <1>8 DEF Sized, Handles
  <2>. QED
    BY <1>7, <2>1, <2>2 DEF Put, s
<1>. QED
  BY <1>6, <1>9

\* A truncation to n: as long as that, and what it adds is zero.
Cut(f, n, g) ==
    /\ Sized(g) /\ g.dirty = TRUE /\ g.size = n
    /\ \A j \in 1 .. n : g.buf[j] = IF j <= f.size THEN f.buf[j] ELSE Zero

LEMMA TruncatedIs ==
  ASSUME NEW f, Sized(f), NEW n \in Nat
  PROVE  Cut(f, n, Truncated(f, n))
<1>. DEFINE r == Reserve(f, n)
            c == Len(r.buf)
            b == [j \in 1 .. c |-> IF j > f.size /\ j <= n THEN Zero ELSE r.buf[j]]
<1>1. /\ f \in Handles /\ f.buf \in Seq(Cells) /\ f.size \in Nat /\ f.size <= Len(f.buf)
      /\ Len(f.buf) \in Nat
  BY DEF Sized, Handles
<1>2. Roomier(f, n, r)
  BY <1>1, ReserveIs
<1>. HIDE DEF r
<1>3. /\ r.buf \in Seq(Cells) /\ Len(r.buf) \in Nat /\ Len(r.buf) >= n /\ Len(r.buf) >= f.size
      /\ \A j \in 1 .. f.size : r.buf[j] = f.buf[j]
  BY <1>1, <1>2 DEF Roomier, Handles
<1>4. b \in Seq(Cells) /\ Len(b) = Len(r.buf)
  <2>1. \A j \in 1 .. c : b[j] \in Cells
    BY <1>3, ZeroIsPage
  <2>2. c \in Nat
    BY <1>3
  <2>3. c = Len(r.buf)
    OBVIOUS
  <2>. HIDE DEF c
  <2>4. b \in Seq(Cells) /\ Len(b) = c
    BY <2>1, <2>2
  <2>. QED
    BY <2>3, <2>4
<1>5. \A j \in 1 .. Len(r.buf) : b[j] = IF j > f.size /\ j <= n THEN Zero ELSE r.buf[j]
  OBVIOUS
<1>6. Truncated(f, n) = [buf |-> b, size |-> n, dirty |-> TRUE]
  BY DEF Truncated, r
<1>. HIDE DEF b
<1>7. \A j \in 1 .. n : b[j] = IF j <= f.size THEN f.buf[j] ELSE Zero
  BY <1>1, <1>3, <1>5
<1>8. \A g : g = [buf |-> b, size |-> n, dirty |-> TRUE] => Cut(f, n, g)
  <2>. TAKE g
  <2>. HAVE g = [buf |-> b, size |-> n, dirty |-> TRUE]
  <2>1. g.buf = b /\ g.size = n /\ g.dirty = TRUE
    OBVIOUS
  <2>2. Sized(g)
    BY <1>3, <1>4 DEF Sized, Handles
  <2>. QED
    BY <1>7, <2>1, <2>2 DEF Cut
<1>. QED
  BY <1>6, <1>8

----------------------------------------------------------------------------
(* A run of writes. *)

\* Writes a handle can take.
Writes(ws) ==
    /\ DOMAIN ws = 1 .. Len(ws) /\ Len(ws) \in Nat
    /\ \A k \in 1 .. Len(ws) : ws[k][1] \in Nat /\ ws[k][1] > 0 /\ ws[k][2] \in Cells

\* The handle g is f after the first n writes of ws: every cell holds what some
\* write put there, or what it held when none did.
After(f, ws, n, g) ==
    /\ Sized(g) /\ g.dirty = (f.dirty \/ n > 0)
    /\ g.size >= f.size
    /\ g.size = f.size \/ \E k \in 1 .. n : g.size = ws[k][1]
    /\ \A k \in 1 .. n : ws[k][1] <= g.size
    /\ \A j \in 1 .. g.size :
         \/ \E k \in 1 .. n : ws[k][1] = j /\ g.buf[j] = ws[k][2]
         \/ /\ \A k \in 1 .. n : ws[k][1] # j
            /\ g.buf[j] = IF j <= f.size THEN f.buf[j] ELSE Zero

LEMMA AfterNone ==
  ASSUME NEW f, Sized(f), NEW ws
  PROVE  After(f, ws, 0, f)
BY DEF After, Sized, Handles

LEMMA AfterOne ==
  ASSUME NEW f, Sized(f), NEW ws, Writes(ws), NEW n \in 1 .. Len(ws),
         NEW h, After(f, ws, n - 1, h)
  PROVE  After(f, ws, n, WriteCell(h, ws[n][1], ws[n][2]))
<1>. DEFINE i == ws[n][1]
            v == ws[n][2]
<1>1. /\ i \in Nat /\ i > 0 /\ v \in Cells /\ n \in Nat /\ n > 0
      /\ Sized(h) /\ h.size \in Nat /\ f.size \in Nat /\ f.dirty \in BOOLEAN
  BY DEF Writes, After, Sized, Handles
<1>2. \A k \in 1 .. n : ws[k][1] \in Nat
  BY DEF Writes
<1>3. PICK g : g = WriteCell(h, i, v)
  OBVIOUS
<1>4. Put(h, i, v, g)
  <2>. HIDE DEF i, v
  <2>. QED
    BY <1>1, <1>3, WriteIs
<1>5. g.size \in Nat
  BY <1>4 DEF Put, Sized, Handles
<1>6. After(f, ws, n, g)
  <2>1. Sized(g) /\ g.dirty = (f.dirty \/ n > 0)
    BY <1>1, <1>4 DEF Put
  <2>2. /\ g.size >= f.size
        /\ g.size = f.size \/ \E k \in 1 .. n : g.size = ws[k][1]
    BY <1>1, <1>4, <1>5 DEF Put, After
  <2>3. \A k \in 1 .. n : ws[k][1] <= g.size
    BY <1>1, <1>2, <1>4, <1>5 DEF Put, After
  <2>4. ASSUME NEW j \in 1 .. g.size
        PROVE  \/ \E k \in 1 .. n : ws[k][1] = j /\ g.buf[j] = ws[k][2]
               \/ /\ \A k \in 1 .. n : ws[k][1] # j
                  /\ g.buf[j] = IF j <= f.size THEN f.buf[j] ELSE Zero
    <3>1. CASE j = i
      BY <1>1, <1>4, <3>1 DEF Put
    <3>2. CASE j # i /\ j <= h.size
      <4>1. g.buf[j] = h.buf[j] /\ j \in 1 .. h.size
        BY <1>1, <1>4, <1>5, <3>2 DEF Put
      <4>2. CASE \E k \in 1 .. n - 1 : ws[k][1] = j /\ h.buf[j] = ws[k][2]
        BY <1>1, <4>1, <4>2
      <4>3. CASE /\ \A k \in 1 .. n - 1 : ws[k][1] # j
                 /\ h.buf[j] = IF j <= f.size THEN f.buf[j] ELSE Zero
        BY <1>1, <3>2, <4>1, <4>3
      <4>. QED
        BY <4>1, <4>2, <4>3 DEF After
    <3>3. CASE j # i /\ ~(j <= h.size)
      <4>1. g.buf[j] = Zero
        BY <1>4, <3>3 DEF Put
      <4>2. \A k \in 1 .. n - 1 : ws[k][1] # j
        BY <1>1, <1>2, <1>5, <3>3 DEF After
      <4>3. ~(j <= f.size)
        BY <1>1, <1>5, <3>3 DEF After
      <4>. QED
        BY <1>1, <3>3, <4>1, <4>2, <4>3
    <3>. QED
      BY <3>1, <3>2, <3>3
  <2>. QED
    BY <2>1, <2>2, <2>3, <2>4 DEF After
<1>. QED
  BY <1>3, <1>6

LEMMA WrittenIs ==
  ASSUME NEW f, Sized(f), NEW ws, Writes(ws)
  PROVE  After(f, ws, Len(ws), Written(f, ws))
<1>. DEFINE Is(g, m) == g = [k \in 0 .. m |-> IF k = 0 THEN f
                                              ELSE WriteCell(g[k - 1], ws[k][1], ws[k][2])]
            Bad == {m \in Nat : ~ \E g : Is(g, m)}
            N == Len(ws)
<1>0. N \in Nat
  BY DEF Writes
<1>1. Bad = {}
  <2>1. SUFFICES ASSUME Bad # {} PROVE FALSE
    OBVIOUS
  <2>2. PICK m \in Bad : \A k \in Bad : m <= k
    <3>1. Bad \in SUBSET Nat
      OBVIOUS
    <3>. HIDE DEF Bad
    <3>. QED
      BY <2>1, <3>1, LeastNumber
  <2>3. CASE m = 0
    <3>1. Is([k \in 0 .. 0 |-> f], 0)
      OBVIOUS
    <3>. QED
      BY <2>3, <3>1
  <2>4. CASE m # 0
    <3>1. m \in Nat /\ m - 1 \in Nat /\ m - 1 \notin Bad
      <4>1. m \in Nat
        BY <2>2
      <4>. HIDE DEF Bad
      <4>. QED
        BY <2>2, <2>4, <4>1
    <3>2. PICK g : Is(g, m - 1)
      BY <3>1
    <3>. DEFINE h == [k \in 0 .. m |-> IF k < m THEN g[k]
                                       ELSE WriteCell(g[m - 1], ws[m][1], ws[m][2])]
    <3>3. \A k \in 0 .. m : h[k] = IF k = 0 THEN f ELSE WriteCell(h[k - 1], ws[k][1], ws[k][2])
      <4>. TAKE k \in 0 .. m
      <4>1. CASE k = m
        <5>1. h[k] = WriteCell(g[m - 1], ws[m][1], ws[m][2])
          BY <4>1, <3>1
        <5>2. h[k - 1] = g[m - 1]
          BY <4>1, <3>1, <2>4
        <5>. HIDE DEF h
        <5>. QED
          BY <2>4, <4>1, <5>1, <5>2
      <4>2. CASE k < m
        <5>1. k \in 0 .. m - 1
          BY <3>1, <4>2
        <5>2. g[k] = IF k = 0 THEN f ELSE WriteCell(g[k - 1], ws[k][1], ws[k][2])
          BY <3>2, <5>1
        <5>3. k # 0 => k - 1 \in 0 .. m /\ k - 1 < m
          BY <3>1, <4>2
        <5>4. h[k] = g[k] /\ (k # 0 => h[k - 1] = g[k - 1])
          BY <4>2, <5>3
        <5>. HIDE DEF h
        <5>. QED
          BY <5>2, <5>4
      <4>. QED
        BY <3>1, <4>1, <4>2
    <3>4. h = [k \in 0 .. m |-> h[k]]
      OBVIOUS
    <3>5. Is(h, m)
      <4>. HIDE DEF h
      <4>. QED
        BY <3>3, <3>4
    <3>. QED
      BY <3>1, <3>5, <2>2
  <2>. QED
    BY <2>3, <2>4
<1>2. PICK a : Is(a, N) /\ Written(f, ws) = a[N]
  <2>1. \E g : Is(g, N)
    BY <1>0, <1>1
  <2>2. Written(f, ws) = (CHOOSE g : Is(g, N))[N]
    BY DEF Written
  <2>. HIDE DEF Is
  <2>. QED
    BY <2>1, <2>2
<1>3. \A k \in 0 .. N : a[k] = IF k = 0 THEN f ELSE WriteCell(a[k - 1], ws[k][1], ws[k][2])
  BY <1>2
<1>. DEFINE Off == {k \in 0 .. N : ~After(f, ws, k, a[k])}
<1>4. Off = {}
  <2>1. SUFFICES ASSUME Off # {} PROVE FALSE
    OBVIOUS
  <2>2. PICK k \in Off : \A l \in Off : k <= l
    <3>1. Off \in SUBSET Nat
      BY <1>0
    <3>. HIDE DEF Off
    <3>. QED
      BY <2>1, <3>1, LeastNumber
  <2>3. k \in 0 .. N /\ ~After(f, ws, k, a[k])
    BY <2>2
  <2>4. CASE k = 0
    BY <1>0, <1>3, <2>3, <2>4, AfterNone
  <2>5. CASE k # 0
    <3>1. k \in 1 .. N /\ k - 1 \in 0 .. N
      BY <1>0, <2>3, <2>5
    <3>2. k - 1 \notin Off
      <4>. HIDE DEF Off
      <4>. QED
        BY <2>2, <3>1
    <3>3. After(f, ws, k - 1, a[k - 1])
      BY <3>1, <3>2
    <3>4. a[k] = WriteCell(a[k - 1], ws[k][1], ws[k][2])
      BY <1>3, <2>3, <2>5
    <3>. QED
      BY <2>3, <3>1, <3>3, <3>4, AfterOne
  <2>. QED
    BY <2>4, <2>5
<1>. QED
  <2>1. N \in 0 .. N
    BY <1>0
  <2>. QED
    BY <1>2, <1>4, <2>1

----------------------------------------------------------------------------
(* Journals. *)

LEMMA CellParts ==
  /\ \A n : Header(n)[2] = n
  /\ \A i, v : Record(i, v)[2] = i /\ Record(i, v)[3] = v
BY DEF Header, Record

LEMMA RecordIs ==
  ASSUME NEW i, NEW v, NEW a, NEW w, Record(i, v) = Record(a, w)
  PROVE  i = a /\ v = w
BY DEF Record

\* A file of pages is a sequence of pages.
LEMMA PagesOnly ==
  ASSUME NEW s \in Seq(Cells), \A j \in 1 .. Len(s) : s[j] \in Pages
  PROVE  s \in Seq(Pages)
<1>1. s \in [1 .. Len(s) -> Pages] /\ Len(s) \in Nat
  OBVIOUS
<1>. QED
  BY <1>1, SeqDef

\* The writes of a rollback.
Writeback(j) == [k \in 1 .. Len(j) - 1 |-> <<j[k + 1][2], j[k + 1][3]>>]

LEMMA WritebackIs ==
  ASSUME NEW j, IsJournal(j), j # <<>>
  PROVE  /\ Writes(Writeback(j)) /\ Len(Writeback(j)) = Len(j) - 1
         /\ Len(j) \in Nat /\ Len(j) >= 1
         /\ \A k \in 2 .. Len(j) : \E i \in 1 .. MaxPages, v \in Pages :
              j[k] = Record(i, v) /\ Writeback(j)[k - 1][1] = i /\ Writeback(j)[k - 1][2] = v
         /\ \A k \in 1 .. Len(j) - 1 : Writeback(j)[k][2] \in Pages
         /\ \E n \in 0 .. MaxPages : j[1] = Header(n) /\ j[1][2] = n
<1>. DEFINE ws == Writeback(j)
            m == Len(j) - 1
<1>1. j \in Seq(Cells) /\ Len(j) \in Nat /\ Len(j) >= 1 /\ Opens(j) /\ Records(j)
  BY DEF IsJournal
<1>2. m \in Nat /\ MaxPages \in Nat
  BY <1>1, BoundAssumption
<1>3. DOMAIN ws = 1 .. m /\ Len(ws) = m
  <2>1. ws = [k \in 1 .. m |-> <<j[k + 1][2], j[k + 1][3]>>]
    BY DEF Writeback
  <2>. HIDE DEF m
  <2>. QED
    BY <1>2, <2>1
<1>4. ASSUME NEW k \in 1 .. m
      PROVE  \E i \in 1 .. MaxPages, v \in Pages : j[k + 1] = Record(i, v) /\ ws[k][1] = i /\ ws[k][2] = v
  <2>1. k + 1 \in 2 .. Len(j)
    BY <1>1
  <2>2. PICK i \in 1 .. MaxPages, v \in Pages : j[k + 1] = Record(i, v)
    BY <1>1, <2>1 DEF Records
  <2>3. ws[k] = <<j[k + 1][2], j[k + 1][3]>>
    BY DEF Writeback
  <2>. QED
    BY <2>2, <2>3, CellParts
<1>5. Writes(ws)
  <2>1. \A k \in 1 .. m : ws[k][1] \in Nat /\ ws[k][1] > 0 /\ ws[k][2] \in Cells
    BY <1>2, <1>4, ZeroIsPage
  <2>. HIDE DEF ws, m
  <2>. QED
    BY <1>2, <1>3, <2>1 DEF Writes
<1>6. \A k \in 2 .. Len(j) : \E i \in 1 .. MaxPages, v \in Pages :
              j[k] = Record(i, v) /\ ws[k - 1][1] = i /\ ws[k - 1][2] = v
  <2>. TAKE k \in 2 .. Len(j)
  <2>1. k - 1 \in 1 .. m /\ (k - 1) + 1 = k
    BY <1>1
  <2>. HIDE DEF ws, m
  <2>. QED
    BY <1>4, <2>1
<1>7. \A k \in 1 .. m : ws[k][2] \in Pages
  BY <1>4
<1>8. \E n \in 0 .. MaxPages : j[1] = Header(n) /\ j[1][2] = n
  BY <1>1, CellParts DEF Opens
<1>. QED
  BY <1>1, <1>3, <1>5, <1>6, <1>7, <1>8

\* What a rollback leaves: a file within its memory, a database if it was one,
\* and the database the journal brings back.
RolledBack(f, j, g) ==
    /\ Sized(g)
    /\ f.dirty => g.dirty
    /\ IF j = <<>> THEN g = f ELSE g.dirty = TRUE
    /\ View(f) \in Databases => View(g) \in Databases
    /\ \A d \in Databases : Undoes(j, View(f), d) => View(g) = d

LEMMA RestoredIs ==
  ASSUME NEW f, Sized(f), NEW j, IsJournal(j)
  PROVE  RolledBack(f, j, Restored(f, j))
<1>1. CASE j = <<>>
  BY <1>1 DEF RolledBack, Restored, Undoes
<1>2. CASE j # <<>>
  <2>. DEFINE ws == Writeback(j)
              m == Len(j) - 1
  <2>1. PICK n \in 0 .. MaxPages : j[1] = Header(n) /\ j[1][2] = n
    BY <1>2, WritebackIs
  <2>2. /\ Writes(ws) /\ Len(ws) = m /\ m \in Nat /\ Len(j) = m + 1
        /\ \A k \in 2 .. Len(j) : \E i \in 1 .. MaxPages, v \in Pages :
              j[k] = Record(i, v) /\ ws[k - 1][1] = i /\ ws[k - 1][2] = v
        /\ \A k \in 1 .. m : ws[k][2] \in Pages
    BY <1>2, WritebackIs
  <2>3. PICK h : h = Written(f, ws)
    OBVIOUS
  <2>4. PICK g : g = Truncated(h, n)
    OBVIOUS
  <2>5. Restored(f, j) = g
    BY <1>2, <2>1, <2>3, <2>4 DEF Restored, Writeback
  <2>. HIDE DEF ws, m
  <2>6. After(f, ws, m, h)
    BY <2>2, <2>3, WrittenIs
  <2>7. n \in Nat /\ n <= MaxPages /\ MaxPages \in Nat
    BY BoundAssumption
  <2>8. Cut(h, n, g)
    BY <2>4, <2>6, <2>7, TruncatedIs DEF After
  <2>9. /\ Sized(g) /\ g.dirty = TRUE /\ g.size = n
        /\ View(g) \in Seq(Cells) /\ Len(View(g)) = n
        /\ \A i \in 1 .. n : View(g)[i] = IF i <= h.size THEN h.buf[i] ELSE Zero
    BY <2>8, ViewIs DEF Cut
  <2>10. /\ View(f) \in Seq(Cells) /\ Len(View(f)) = f.size /\ f.size \in Nat /\ h.size \in Nat
         /\ h.size >= f.size
         /\ \A i \in 1 .. f.size : View(f)[i] = f.buf[i]
    BY <2>6, ViewIs DEF Sized, Handles, After
  <2>11. ASSUME NEW i \in 1 .. n
         PROVE  \/ \E k \in 1 .. m : ws[k][1] = i /\ View(g)[i] = ws[k][2]
                \/ /\ \A k \in 1 .. m : ws[k][1] # i
                   /\ View(g)[i] = IF i <= f.size THEN View(f)[i] ELSE Zero
    <3>1. CASE i <= h.size
      <4>1. i \in 1 .. h.size
        BY <2>7, <2>10, <3>1
      <4>2. View(g)[i] = h.buf[i]
        BY <2>9, <3>1
      <4>3. i <= f.size => View(f)[i] = f.buf[i]
        BY <2>10
      <4>. QED
        BY <2>6, <4>1, <4>2, <4>3 DEF After
    <3>2. CASE ~(i <= h.size)
      <4>1. View(g)[i] = Zero
        BY <2>9, <3>2
      <4>2. \A k \in 1 .. m : ws[k][1] <= h.size
        BY <2>6 DEF After
      <4>3. \A k \in 1 .. m : ws[k][1] \in Nat
        BY <2>2 DEF Writes
      <4>4. ~(i <= f.size)
        BY <2>10, <3>2
      <4>5. \A k \in 1 .. m : ws[k][1] # i
        BY <3>2, <4>2, <4>3
      <4>. QED
        BY <4>1, <4>4, <4>5
    <3>. QED
      BY <3>1, <3>2
  <2>12. ASSUME View(f) \in Databases
         PROVE  View(g) \in Databases
    <3>1. \A i \in 1 .. f.size : View(f)[i] \in Pages
      BY <2>10, <2>12 DEF Databases
    <3>2. \A i \in 1 .. n : View(g)[i] \in Pages
      <4>. TAKE i \in 1 .. n
      <4>1. CASE \E k \in 1 .. m : ws[k][1] = i /\ View(g)[i] = ws[k][2]
        BY <2>2, <4>1
      <4>2. CASE View(g)[i] = IF i <= f.size THEN View(f)[i] ELSE Zero
        <5>1. i <= f.size => i \in 1 .. f.size
          BY <2>7, <2>10
        <5>. QED
          BY <3>1, <4>2, <5>1, ZeroIsPage
      <4>. QED
        BY <2>11, <4>1, <4>2
    <3>3. View(g) \in Seq(Pages)
      BY <2>9, <3>2, PagesOnly
    <3>. QED
      BY <2>7, <2>9, <3>3 DEF Databases
  <2>13. ASSUME NEW d \in Databases, Undoes(j, View(f), d)
         PROVE  View(g) = d
    <3>1. /\ j[1] = Header(Len(d))
          /\ \A k \in 2 .. Len(j) : \E i \in 1 .. Len(d) : j[k] = Record(i, d[i])
          /\ \A i \in 1 .. Len(d) : \/ \E k \in 2 .. Len(j) : j[k] = Record(i, d[i])
                                    \/ i <= Len(View(f)) /\ View(f)[i] = d[i]
      BY <1>2, <2>13 DEF Undoes
    <3>2. d \in Seq(Pages) /\ Len(d) = n
      BY <2>1, <3>1, CellParts DEF Databases
    <3>3. ASSUME NEW i \in 1 .. n
          PROVE  View(g)[i] = d[i]
      <4>1. CASE \E k \in 1 .. m : ws[k][1] = i /\ View(g)[i] = ws[k][2]
        <5>1. PICK k \in 1 .. m : ws[k][1] = i /\ View(g)[i] = ws[k][2]
          BY <4>1
        <5>2. k + 1 \in 2 .. Len(j) /\ (k + 1) - 1 = k
          BY <2>2
        <5>3. PICK a \in 1 .. Len(d) : j[k + 1] = Record(a, d[a])
          BY <3>1, <5>2
        <5>4. PICK b \in 1 .. MaxPages, v \in Pages :
                j[k + 1] = Record(b, v) /\ ws[k][1] = b /\ ws[k][2] = v
          BY <2>2, <5>2
        <5>5. a = b /\ d[a] = v
          <6>1. Record(a, d[a]) = Record(b, v)
            BY <5>3, <5>4
          <6>. QED
            BY ONLY <6>1, RecordIs
        <5>. QED
          BY <5>1, <5>4, <5>5
      <4>2. CASE /\ \A k \in 1 .. m : ws[k][1] # i
                 /\ View(g)[i] = IF i <= f.size THEN View(f)[i] ELSE Zero
        <5>1. ~ \E k \in 2 .. Len(j) : j[k] = Record(i, d[i])
          <6>1. SUFFICES ASSUME NEW k \in 2 .. Len(j), j[k] = Record(i, d[i]) PROVE FALSE
            OBVIOUS
          <6>2. PICK b \in 1 .. MaxPages, v \in Pages : j[k] = Record(b, v) /\ ws[k - 1][1] = b
            BY <2>2
          <6>3. b = i
            <7>1. Record(i, d[i]) = Record(b, v)
              BY <6>1, <6>2
            <7>. QED
              BY ONLY <7>1, RecordIs
          <6>4. k - 1 \in 1 .. m
            BY <2>2
          <6>. QED
            BY <4>2, <6>2, <6>3, <6>4
        <5>. QED
          BY <2>10, <3>1, <3>2, <4>2, <5>1
      <4>. QED
        BY <2>11, <4>1, <4>2
    <3>. QED
      BY <2>9, <3>2, <3>3
  <2>. QED
    BY <1>2, <2>5, <2>9, <2>12, <2>13 DEF RolledBack
<1>. QED
  BY <1>1, <1>2

\* A file written cell by cell from empty is its cells.
LEMMA AppendedIs ==
  ASSUME NEW f, Sized(f), f.size = 0, NEW cells \in Seq(Cells)
  PROVE  /\ Sized(Appended(f, cells)) /\ View(Appended(f, cells)) = cells
         /\ cells # <<>> => Appended(f, cells).dirty = TRUE
<1>. DEFINE m == Len(cells)
            ws == [k \in 1 .. m |-> <<k, cells[k]>>]
<1>1. m \in Nat /\ \A k \in 1 .. m : cells[k] \in Cells
  OBVIOUS
<1>2. \A k \in 1 .. m : ws[k][1] = k /\ ws[k][2] = cells[k]
  OBVIOUS
<1>3. DOMAIN ws = 1 .. m /\ Len(ws) = m
  <2>. HIDE DEF m
  <2>. QED
    BY <1>1
<1>4. Appended(f, cells) = Written(f, ws)
  BY DEF Appended
<1>5. cells = [k \in 1 .. m |-> cells[k]]
  OBVIOUS
<1>. HIDE DEF ws, m
<1>6. Writes(ws)
  BY <1>1, <1>2, <1>3 DEF Writes
<1>7. PICK g : g = Written(f, ws)
  OBVIOUS
<1>8. After(f, ws, m, g)
  BY <1>3, <1>6, <1>7, WrittenIs
<1>9. /\ Sized(g) /\ g.size \in Nat /\ View(g) \in Seq(Cells) /\ Len(View(g)) = g.size
      /\ \A j \in 1 .. g.size : View(g)[j] = g.buf[j]
  BY <1>8, ViewIs DEF After, Sized, Handles
<1>10. g.size = m
  BY <1>1, <1>2, <1>8, <1>9 DEF After
<1>11. \A j \in 1 .. m : View(g)[j] = cells[j]
  BY <1>1, <1>2, <1>8, <1>9, <1>10 DEF After
<1>12. View(g) = cells
  BY <1>1, <1>9, <1>10, <1>11 DEF m
<1>13. cells # <<>> => g.dirty = TRUE
  <2>1. cells # <<>> => m > 0
    BY DEF m
  <2>. QED
    BY <1>8, <2>1 DEF After
<1>. QED
  BY <1>4, <1>7, <1>9, <1>12, <1>13

\* A finite set of cells has a list.
LEMMA ListedIs ==
  ASSUME NEW S, IsFiniteSet(S)
  PROVE  /\ DOMAIN Listed(S) = 1 .. Len(Listed(S)) /\ Len(Listed(S)) \in Nat
         /\ \A k \in 1 .. Len(Listed(S)) : Listed(S)[k] \in S
         /\ \A x \in S : \E k \in 1 .. Len(Listed(S)) : Listed(S)[k] = x
<1>. DEFINE n == Cardinality(S)
            Is(s) == {s[k] : k \in 1 .. n} = S
<1>1. n \in Nat
  BY FS_CardinalityType
<1>2. \E s \in [1 .. n -> S] : Is(s)
  <2>1. ExistsBijection(1 .. n, S)
    BY FS_CardinalityType
  <2>2. PICK s : s \in Bijection(1 .. n, S)
    BY <2>1 DEF ExistsBijection
  <2>3. s \in [1 .. n -> S] /\ \A x \in S : \E k \in 1 .. n : s[k] = x
    BY <2>2 DEF Bijection, Injection, Surjection
  <2>. HIDE DEF n
  <2>4. Is(s)
    BY <2>3
  <2>. QED
    BY <2>3, <2>4
<1>3. Listed(S) = CHOOSE s \in [1 .. n -> S] : Is(s)
  BY DEF Listed
<1>4. Listed(S) \in [1 .. n -> S] /\ Is(Listed(S))
  <2>. HIDE DEF Is, n
  <2>. QED
    BY <1>2, <1>3
<1>. HIDE DEF n
<1>5. Len(Listed(S)) = n
  BY <1>1, <1>4
<1>. QED
  BY <1>1, <1>4, <1>5

\* The journal of the pages S takes back every file that differs from the
\* database in those pages only, or in its size.
Logs(j, d, S) ==
    /\ IsJournal(j) /\ j # <<>>
    /\ \A w : (\A i \in 1 .. Len(d) : i \in S \/ (i <= Len(w) /\ w[i] = d[i])) => Undoes(j, w, d)

LEMMA JournalOfIs ==
  ASSUME NEW d \in Databases, NEW S
  PROVE  Logs(JournalOf(d, S), d, S)
<1>. DEFINE T == S \cap 1 .. Len(d)
            old == Listed(T)
            r == [k \in 1 .. Len(old) |-> Record(old[k], d[old[k]])]
            j == JournalOf(d, S)
            N == Len(d)
            m == Len(old)
<1>1. N \in Nat /\ N <= MaxPages /\ MaxPages \in Nat /\ \A i \in 1 .. N : d[i] \in Pages
  BY BoundAssumption DEF Databases
<1>2. /\ m \in Nat
      /\ \A k \in 1 .. m : old[k] \in T
      /\ \A x \in T : \E k \in 1 .. m : old[k] = x
  <2>1. IsFiniteSet(T)
    <3>1. IsFiniteSet(1 .. Len(d))
      BY <1>1, FS_Interval
    <3>. QED
      BY <3>1, FS_Subset
  <2>. HIDE DEF T
  <2>. QED
    BY <2>1, ListedIs
<1>3. j = <<Header(N)>> \o r
  BY DEF JournalOf
<1>. HIDE DEF m, old
<1>4. \A k \in 1 .. m : r[k] = Record(old[k], d[old[k]]) /\ r[k] \in Cells
  BY <1>1, <1>2 DEF m, Cells
<1>5. r \in Seq(Cells) /\ Len(r) = m
  <2>1. r = [k \in 1 .. m |-> Record(old[k], d[old[k]])]
    BY DEF m
  <2>. HIDE DEF r
  <2>. QED
    BY <1>2, <1>4, <2>1
<1>6. Header(N) \in Cells
  BY <1>1 DEF Cells
<1>. HIDE DEF r
<1>. HIDE DEF N, j, T
<1>7. /\ j \in Seq(Cells) /\ Len(j) = m + 1 /\ j # <<>> /\ j[1] = Header(N)
      /\ \A k \in 2 .. Len(j) : j[k] = r[k - 1]
  BY <1>2, <1>3, <1>5, <1>6
<1>8. \A k \in 2 .. Len(j) : k - 1 \in 1 .. m
  BY <1>2, <1>7
<1>9. \A k \in 2 .. Len(j) : old[k - 1] \in 1 .. N /\ j[k] = Record(old[k - 1], d[old[k - 1]])
  BY <1>2, <1>4, <1>7, <1>8 DEF T, N
<1>10. IsJournal(j)
  <2>1. Opens(j)
    BY <1>1, <1>7 DEF Opens
  <2>2. ASSUME NEW k \in 2 .. Len(j)
        PROVE  \E i \in 1 .. MaxPages, v \in Pages : j[k] = Record(i, v)
    <3>. DEFINE i == old[k - 1]
    <3>1. i \in 1 .. N /\ j[k] = Record(i, d[i])
      BY <1>9
    <3>. HIDE DEF i
    <3>2. i \in 1 .. MaxPages /\ d[i] \in Pages
      BY <1>1, <3>1
    <3>. QED
      BY <3>1, <3>2
  <2>3. Records(j)
    BY <2>2 DEF Records
  <2>. QED
    BY <1>7, <2>1, <2>3 DEF IsJournal
<1>11. ASSUME NEW w, \A i \in 1 .. Len(d) : i \in S \/ (i <= Len(w) /\ w[i] = d[i])
       PROVE  Undoes(j, w, d)
  <2>1. \A k \in 2 .. Len(j) : \E i \in 1 .. Len(d) : j[k] = Record(i, d[i])
    BY <1>9 DEF N
  <2>2. ASSUME NEW i \in 1 .. Len(d), i \in S
        PROVE  \E k \in 2 .. Len(j) : j[k] = Record(i, d[i])
    <3>1. PICK k \in 1 .. m : old[k] = i
      BY <1>2, <2>2 DEF T
    <3>2. k + 1 \in 2 .. Len(j) /\ (k + 1) - 1 = k
      BY <1>2, <1>7
    <3>. QED
      BY <1>9, <3>1, <3>2
  <2>. QED
    BY <1>7, <1>11, <2>1, <2>2 DEF Undoes, N
<1>. QED
  BY <1>7, <1>10, <1>11 DEF Logs, j

\* A journal that takes some file back to d leaves d alone, and so does its front.
LEMMA UndoesItself ==
  ASSUME NEW j, NEW f, NEW d \in Databases, Undoes(j, f, d)
  PROVE  Undoes(j, d, d)
BY DEF Undoes, Databases

LEMMA FrontUndoes ==
  ASSUME NEW j, IsJournal(j), NEW d \in Databases, Undoes(j, d, d), NEW n \in 0 .. Len(j)
  PROVE  IsJournal(SubSeq(j, 1, n)) /\ Undoes(SubSeq(j, 1, n), d, d)
<1>. DEFINE s == SubSeq(j, 1, n)
<1>1. j \in Seq(Cells) /\ Len(j) \in Nat /\ d \in Seq(Pages) /\ Len(d) \in Nat
  BY DEF IsJournal, Databases
<1>2. s \in Seq(Cells) /\ Len(s) = n /\ \A k \in 1 .. n : s[k] = j[k]
  BY <1>1, SubSeqProperties
<1>. HIDE DEF s
<1>3. CASE n = 0
  <2>1. s = <<>>
    BY <1>2, <1>3
  <2>. QED
    BY <1>2, <2>1 DEF IsJournal, Undoes, s
<1>4. CASE n # 0
  <2>1. j # <<>> /\ s # <<>> /\ s[1] = j[1] /\ \A k \in 2 .. n : s[k] = j[k] /\ k \in 2 .. Len(j)
    BY <1>1, <1>2, <1>4
  <2>2. Opens(s) /\ Records(s)
    BY <1>2, <2>1 DEF IsJournal, Opens, Records
  <2>3. Undoes(s, d, d)
    BY <1>1, <1>2, <2>1 DEF Undoes
  <2>. QED
    BY <1>2, <2>2, <2>3 DEF IsJournal, s
<1>. QED
  BY <1>3, <1>4

----------------------------------------------------------------------------
(* A transaction's pages. *)

\* What writing its pages leaves.
Rewrites(f, w, t, g) ==
    /\ Sized(g) /\ View(g) \in Databases
    /\ Keeps(w, View(f), t) => View(g) = w
    /\ ~g.dirty => View(g) = View(f)

LEMMA OverwrittenIs ==
  ASSUME NEW f, Sized(f), View(f) \in Databases, NEW w \in Databases, NEW t
  PROVE  Rewrites(f, w, t, Overwritten(f, w, t))
<1>. DEFINE N == Len(w)
            T == {i \in 1 .. N : w[i] = Page(t)}
            todo == Listed(T)
            m == Len(todo)
            ws == [k \in 1 .. m |-> <<todo[k], w[todo[k]]>>]
<1>1. N \in Nat /\ N <= MaxPages /\ MaxPages \in Nat /\ \A i \in 1 .. N : w[i] \in Pages
  BY BoundAssumption DEF Databases
<1>2. /\ m \in Nat
      /\ \A k \in 1 .. m : todo[k] \in T
      /\ \A x \in T : \E k \in 1 .. m : todo[k] = x
  <2>1. IsFiniteSet(T)
    <3>1. IsFiniteSet(1 .. N)
      BY <1>1, FS_Interval
    <3>. QED
      BY <3>1, FS_Subset
  <2>. HIDE DEF T
  <2>. QED
    BY <2>1, ListedIs
<1>3. PICK h : h = Written(f, ws)
  OBVIOUS
<1>4. Overwritten(f, w, t) = IF N < f.size THEN Truncated(h, N) ELSE h
  BY <1>3 DEF Overwritten
<1>. HIDE DEF todo
<1>5. \A k \in 1 .. m : ws[k][1] = todo[k] /\ ws[k][2] = w[todo[k]]
  OBVIOUS
<1>6. DOMAIN ws = 1 .. m /\ Len(ws) = m
  <2>. HIDE DEF m
  <2>. QED
    BY <1>2
<1>. HIDE DEF ws, m
<1>7. \A k \in 1 .. m : ws[k][1] \in 1 .. N /\ ws[k][2] = w[ws[k][1]] /\ ws[k][2] \in Pages
  BY <1>1, <1>2, <1>5
<1>8. Writes(ws)
  BY <1>1, <1>2, <1>6, <1>7, ZeroIsPage DEF Writes
<1>9. After(f, ws, m, h)
  BY <1>3, <1>6, <1>8, WrittenIs
<1>10. /\ Sized(h) /\ h.size \in Nat /\ View(h) \in Seq(Cells) /\ Len(View(h)) = h.size
       /\ f.size \in Nat /\ Len(View(f)) = f.size /\ View(f) \in Seq(Pages) /\ f.size <= MaxPages
       /\ \A j \in 1 .. h.size : View(h)[j] = h.buf[j]
       /\ \A j \in 1 .. f.size : View(f)[j] = f.buf[j] /\ View(f)[j] \in Pages
  BY <1>9, ViewIs DEF After, Sized, Handles, Databases
<1>11. ASSUME NEW j \in 1 .. h.size
       PROVE  \/ j \in 1 .. N /\ View(h)[j] = w[j]
              \/ j \notin T /\ View(h)[j] = IF j <= f.size THEN View(f)[j] ELSE Zero
  <2>1. CASE \E k \in 1 .. m : ws[k][1] = j /\ h.buf[j] = ws[k][2]
    BY <1>7, <1>10, <2>1
  <2>2. CASE /\ \A k \in 1 .. m : ws[k][1] # j
             /\ h.buf[j] = IF j <= f.size THEN f.buf[j] ELSE Zero
    <3>1. j \notin T
      <4>1. SUFFICES ASSUME j \in T PROVE FALSE
        OBVIOUS
      <4>2. PICK k \in 1 .. m : todo[k] = j
        BY <1>2, <4>1
      <4>. QED
        BY <1>5, <2>2, <4>2
    <3>2. View(h)[j] = h.buf[j] /\ (j <= f.size => View(f)[j] = f.buf[j])
      BY <1>10
    <3>. QED
      BY <2>2, <3>1, <3>2
  <2>. QED
    BY <1>9, <2>1, <2>2 DEF After
<1>12. View(h) \in Databases
  <2>1. \A j \in 1 .. h.size : View(h)[j] \in Pages
    BY <1>1, <1>10, <1>11, ZeroIsPage
  <2>2. View(h) \in Seq(Pages)
    BY <1>10, <2>1, PagesOnly
  <2>3. h.size <= MaxPages
    BY <1>1, <1>7, <1>9, <1>10 DEF After
  <2>. QED
    BY <1>10, <2>2, <2>3 DEF Databases
<1>13. h.size >= f.size
  BY <1>9 DEF After
<1>14. ASSUME Keeps(w, View(f), t), NEW j \in 1 .. N
       PROVE  j <= h.size /\ View(h)[j] = w[j]
  <2>1. CASE w[j] = Page(t)
    <3>1. PICK k \in 1 .. m : ws[k][1] = j
      BY <1>2, <1>5, <2>1
    <3>2. j <= h.size
      BY <1>9, <3>1 DEF After
    <3>3. j \in 1 .. h.size /\ j \in T
      BY <1>1, <1>10, <2>1, <3>2
    <3>. QED
      BY <1>11, <3>2, <3>3
  <2>2. CASE j <= f.size /\ w[j] = View(f)[j]
    <3>1. j \in 1 .. h.size
      BY <1>1, <1>10, <1>13, <2>2
    <3>. QED
      BY <1>1, <1>10, <1>11, <2>2, <3>1
  <2>. QED
    BY <1>1, <1>10, <1>14, <2>1, <2>2 DEF Keeps
<1>15. CASE N < f.size
  <2>1. PICK g : g = Truncated(h, N)
    OBVIOUS
  <2>2. Cut(h, N, g)
    <3>. HIDE DEF N
    <3>. QED
      BY <1>1, <1>10, <2>1, TruncatedIs
  <2>3. /\ Sized(g) /\ View(g) \in Seq(Cells) /\ Len(View(g)) = N
        /\ \A j \in 1 .. N : View(g)[j] = IF j <= h.size THEN h.buf[j] ELSE Zero
    BY <2>2, ViewIs DEF Cut
  <2>4. \A j \in 1 .. N : j \in 1 .. h.size /\ View(g)[j] = View(h)[j]
    BY <1>1, <1>10, <1>13, <1>15, <2>3
  <2>5. View(g) \in Databases
    <3>1. \A j \in 1 .. N : View(g)[j] \in Pages
      BY <1>10, <1>12, <2>4 DEF Databases
    <3>2. View(g) \in Seq(Pages)
      BY <2>3, <3>1, PagesOnly
    <3>. QED
      BY <1>1, <2>3, <3>2 DEF Databases
  <2>6. ASSUME Keeps(w, View(f), t) PROVE View(g) = w
    <3>1. \A j \in 1 .. N : View(g)[j] = w[j]
      BY <1>14, <2>4, <2>6
    <3>2. w \in Seq(Pages) /\ Len(w) = N
      BY DEF Databases
    <3>. HIDE DEF N
    <3>. QED
      BY <2>3, <3>1, <3>2
  <2>. QED
    BY <1>4, <1>15, <2>1, <2>2, <2>3, <2>5, <2>6 DEF Rewrites, Cut
<1>16. CASE ~(N < f.size)
  <2>1. ASSUME Keeps(w, View(f), t) PROVE View(h) = w
    <3>1. h.size = N
      <4>1. h.size <= N
        BY <1>1, <1>7, <1>9, <1>10, <1>16 DEF After
      <4>2. CASE N = 0
        BY <1>10, <4>1, <4>2
      <4>3. CASE N # 0
        <5>1. N \in 1 .. N
          BY <1>1, <4>3
        <5>. QED
          BY <1>1, <1>10, <1>14, <2>1, <4>1, <5>1
      <4>. QED
        BY <4>2, <4>3
    <3>2. \A j \in 1 .. N : View(h)[j] = w[j]
      BY <1>14, <2>1
    <3>3. w \in Seq(Pages) /\ Len(w) = N
      BY DEF Databases
    <3>. HIDE DEF N
    <3>. QED
      BY <1>10, <3>1, <3>2, <3>3
  <2>2. ASSUME ~h.dirty PROVE View(h) = View(f)
    <3>1. m = 0
      <4>1. m > 0 => h.dirty = TRUE
        BY <1>9 DEF After
      <4>. QED
        BY <1>2, <2>2, <4>1
    <3>2. h.size = f.size
      BY <1>9, <1>10, <3>1 DEF After
    <3>3. \A j \in 1 .. f.size : View(h)[j] = View(f)[j]
      BY <1>9, <1>10, <3>1, <3>2 DEF After
    <3>. QED
      BY <1>10, <3>2, <3>3
  <2>. QED
    BY <1>4, <1>10, <1>12, <1>16, <2>1, <2>2 DEF Rewrites
<1>. QED
  BY <1>15, <1>16

----------------------------------------------------------------------------
(* The places of SQLite and what it syncs there. *)

LEMMA SyncPoints ==
  /\ DOMAIN SyncOf = {"syncHot", "syncJournal", "syncDb", "syncUndo", "commit", "drop", "close"}
  /\ SyncOf["syncHot"] = Db /\ SyncOf["syncDb"] = Db /\ SyncOf["syncUndo"] = Db
  /\ SyncOf["close"] = Db
  /\ SyncOf["syncJournal"] = Journal /\ SyncOf["commit"] = Journal /\ SyncOf["drop"] = Journal
BY DEF SyncOf

LEMMA OkPoints ==
  /\ AfterOk["syncHot"] = "drop" /\ AfterOk["syncJournal"] = "write"
  /\ AfterOk["syncDb"] = "commit" /\ AfterOk["syncUndo"] = "drop"
  /\ AfterOk["commit"] = "deleteCommit" /\ AfterOk["drop"] = "delete" /\ AfterOk["close"] = "off"
BY DEF AfterOk

LEMMA FailPoints ==
  /\ AfterFail["syncHot"] = "check" /\ AfterFail["syncJournal"] = "drop"
  /\ AfterFail["syncDb"] = "undo" /\ AfterFail["syncUndo"] = "check"
  /\ AfterFail["commit"] = "deleteCommit" /\ AfterFail["drop"] = "delete"
  /\ AfterFail["close"] = "off"
BY DEF AfterFail

LEMMA SyncingIs ==
  ASSUME NEW p \in Paths, Syncing(p)
  PROVE  \/ p = Db /\ pc \in {"syncHot", "syncDb", "syncUndo", "close"}
         \/ p = Journal /\ pc \in {"syncJournal", "commit", "drop"}
BY PathAssumption, SyncPoints DEF Syncing, Paths

LEMMA TwoPaths == Db \in Paths /\ Journal \in Paths /\ Db # Journal /\ Paths = {Db, Journal}
BY PathAssumption DEF Paths

\* A handle is not the mark of none.
LEMMA OpenHandle ==
  ASSUME NEW f, Sized(f)
  PROVE  f # Closed /\ f \in Handles /\ f.size \in Nat /\ f.dirty \in BOOLEAN
BY NoneAssumption DEF Sized, Handles

LEMMA NoPages == <<>> \in Databases /\ IsJournal(<<>>) /\ Len(<<>>) = 0
BY BoundAssumption DEF Databases, IsJournal

LEMMA CleanedIs ==
  ASSUME NEW f, Sized(f)
  PROVE  /\ Sized([f EXCEPT !.dirty = FALSE]) /\ [f EXCEPT !.dirty = FALSE].dirty = FALSE
         /\ View([f EXCEPT !.dirty = FALSE]) = View(f)
BY DEF Sized, Handles, View

\* A handle just opened.
LEMMA LoadedIs ==
  ASSUME NEW p \in Paths, Typed
  PROVE  /\ Sized(Loaded(p)) /\ Loaded(p).dirty = FALSE /\ View(Loaded(p)) = Contents(p)
         /\ Loaded(p).size = Len(Contents(p)) /\ Contents(p) \in Seq(Cells)
<1>1. Contents(p) \in Seq(Cells) /\ Len(Contents(p)) \in Nat
  BY DEF Typed, Contents
<1>2. Loaded(p) = [buf |-> Contents(p), size |-> Len(Contents(p)), dirty |-> FALSE]
  BY DEF Loaded, Contents
<1>. DEFINE c == Contents(p)
<1>3. Sized(Loaded(p)) /\ Loaded(p).dirty = FALSE /\ Loaded(p).size = Len(c) /\ Loaded(p).buf = c
  <2>. HIDE DEF c
  <2>. QED
    BY <1>1, <1>2 DEF Sized, Handles, c
<1>4. SubSeq(c, 1, Len(c)) = c
  <2>. HIDE DEF c
  <2>1. c \in Seq(Cells)
    BY <1>1 DEF c
  <2>. QED
    BY <2>1
<1>. QED
  BY <1>1, <1>3, <1>4 DEF View

----------------------------------------------------------------------------
(* Type correctness and the states the invariant speaks of. *)

LEMMA InitHolds == Init => VfsInv
<1>. SUFFICES ASSUME Init PROVE VfsInv
  OBVIOUS
<1>1. /\ disk = [p \in Paths |-> NoFile] /\ file = [p \in Paths |-> Closed]
      /\ io = Idle /\ pc = "off" /\ txn = 0 /\ want = <<>> /\ committed = <<>>
      /\ torn = FALSE /\ lost = FALSE
  BY DEF Init
<1>2. \A p \in Paths : Contents(p) = <<>> /\ disk[p] = NoFile /\ file[p] = Closed
  BY <1>1 DEF Contents
<1>3. Typed
  <2>1. disk \in [Paths -> Seq(Cells) \cup {NoFile}] /\ file \in [Paths -> Handles \cup {Closed}]
    BY <1>1
  <2>2. txn \in 0 .. MaxTxn
    BY <1>1, BoundAssumption
  <2>. QED
    BY <1>1, <2>1, <2>2, NoPages DEF Typed, Rest
<1>4. Shaped
  BY <1>2, TwoPaths, NoPages DEF Shaped
<1>5. OpenInv
  BY <1>1, <1>2, TwoPaths DEF OpenInv, JournalOpen
<1>6. FlushInv /\ CleanInv
  BY <1>1, <1>2, TwoPaths DEF FlushInv, CleanInv
<1>7. DiskInv /\ HandleInv
  BY <1>1, <1>2, TwoPaths DEF DiskInv, HandleInv, Undoes
<1>. QED
  BY <1>3, <1>4, <1>5, <1>6, <1>7 DEF VfsInv

----------------------------------------------------------------------------
(* The steps of a write-back. *)

LEMMA ContentsKept ==
  ASSUME disk' = disk
  PROVE  \A p \in Paths : Contents(p)' = Contents(p)
BY DEF Contents

\* A sync or a close that succeeds: the handle holds the file and is clean.
Succeeds(p) ==
    /\ Syncing(p) /\ View(file[p]) = Contents(p)
    /\ pc' = AfterOk[pc]
    /\ \E f : /\ Sized(f) /\ f.dirty = FALSE /\ View(f) = View(file[p])
             /\ file' = HandleAfter(p, pc', f)
    /\ io' = Idle
    /\ disk' = disk /\ txn' = txn /\ want' = want /\ committed' = committed /\ lost' = lost
    /\ torn' \in BOOLEAN /\ (~lost => torn' = (torn /\ p # Db))

LEMMA SucceedsHolds ==
  ASSUME VfsInv, NEW p \in Paths, Succeeds(p)
  PROVE  VfsInv'
<1>1. /\ disk' = disk /\ txn' = txn /\ want' = want /\ committed' = committed /\ lost' = lost
      /\ io' = Idle /\ torn' \in BOOLEAN /\ (~lost => torn' = (torn /\ p # Db))
      /\ Syncing(p) /\ View(file[p]) = Contents(p) /\ pc' = AfterOk[pc]
  BY DEF Succeeds
<1>2. \A q \in Paths : Contents(q)' = Contents(q)
  BY <1>1, ContentsKept
<1>3. PICK f : /\ Sized(f) /\ f.dirty = FALSE /\ View(f) = View(file[p])
               /\ file' = HandleAfter(p, pc', f)
  BY DEF Succeeds
<1>4. f # Closed /\ f \in Handles
  BY <1>3, OpenHandle
<1>5. /\ Typed /\ Shaped /\ OpenInv /\ CleanInv
      /\ ~lost => DiskInv /\ HandleInv
  BY DEF VfsInv
<1>6. CASE p = Db
  <2>1. pc \in {"syncHot", "syncDb", "syncUndo", "close"}
    BY <1>1, <1>6, SyncingIs, TwoPaths
  <2>2. /\ pc' = IF pc = "syncDb" THEN "commit" ELSE IF pc = "close" THEN "off" ELSE "drop"
    BY <1>1, <2>1, OkPoints
  <2>3. /\ file' = [q \in Paths |-> IF q = Db /\ pc = "close" THEN Closed
                                     ELSE IF q = Db THEN f ELSE file[q]]
    BY <1>3, <1>6, <2>1, <2>2 DEF HandleAfter, Closes
  <2>4. /\ file'[Db] = IF pc = "close" THEN Closed ELSE f
        /\ file'[Journal] = file[Journal]
    BY <2>3, TwoPaths
  <2>5. Typed'
    <3>1. file' \in [Paths -> Handles \cup {Closed}]
      BY <1>4, <1>5, <2>3 DEF Typed
    <3>2. pc' \in Rest
      BY <2>1, <2>2, SyncPoints DEF Rest
    <3>. QED
      BY <1>1, <1>5, <3>1, <3>2 DEF Typed
  <2>6. file[Db] # Closed
    BY <1>5, <2>1 DEF OpenInv
  <2>7. Shaped'
    BY <1>2, <1>3, <1>5, <1>6, <2>4, <2>6, TwoPaths DEF Shaped
  <2>8. OpenInv'
    BY <1>4, <1>5, <2>1, <2>2, <2>4 DEF OpenInv, JournalOpen
  <2>9. FlushInv'
    BY <1>1 DEF FlushInv
  <2>10. CleanInv'
    <3>1. \A q \in Paths : file'[q] # Closed /\ ~file'[q].dirty => View(file'[q]) = Contents(q)'
      BY <1>1, <1>2, <1>3, <1>5, <1>6, <2>4, TwoPaths DEF CleanInv
    <3>2. pc' # "ready" /\ pc' # "syncJournal" /\ pc' # "write"
      BY <2>1, <2>2
    <3>3. pc' = "commit" => pc = "syncDb"
      BY <2>1, <2>2
    <3>4. pc' = "off" => pc = "close"
      BY <2>1, <2>2
    <3>. QED
      BY <1>3, <1>5, <2>1, <2>2, <2>4, <3>1, <3>2, <3>3, <3>4 DEF CleanInv
  <2>11. ASSUME ~lost PROVE DiskInv' /\ HandleInv'
    <3>1. ~torn'
      BY <1>1, <1>6, <2>11
    <3>2. /\ Undoes(Contents(Journal), View(file[Db]), committed)
          /\ pc \in {"syncHot", "syncUndo"} => View(file[Db]) = committed
          /\ pc = "syncDb" => View(file[Db]) = want
      BY <1>5, <2>1, <2>6, <2>11 DEF HandleInv
    <3>3. DiskInv'
      BY <1>1, <1>2, <1>6, <3>1, <3>2, TwoPaths DEF DiskInv
    <3>4. pc \in {"syncHot", "syncUndo"} => View(file[Journal]) = Contents(Journal)
      BY <1>5, TwoPaths DEF CleanInv, OpenInv, JournalOpen
    <3>5. HandleInv'
      BY <1>1, <1>2, <1>3, <1>6, <2>1, <2>2, <2>4, <3>2, <3>4, TwoPaths DEF HandleInv
    <3>. QED
      BY <3>3, <3>5
  <2>. QED
    BY <1>1, <2>5, <2>7, <2>8, <2>9, <2>10, <2>11 DEF VfsInv
<1>7. CASE p = Journal
  <2>1. pc \in {"syncJournal", "commit", "drop"}
    BY <1>1, <1>7, SyncingIs, TwoPaths
  <2>2. pc' = IF pc = "syncJournal" THEN "write" ELSE IF pc = "commit" THEN "deleteCommit" ELSE "delete"
    BY <1>1, <2>1, OkPoints
  <2>3. file' = [q \in Paths |-> IF q = Journal /\ pc # "syncJournal" THEN Closed
                                 ELSE IF q = Journal THEN f ELSE file[q]]
    BY <1>3, <1>7, <2>1, <2>2 DEF HandleAfter, Closes
  <2>4. /\ file'[Journal] = IF pc = "syncJournal" THEN f ELSE Closed
        /\ file'[Db] = file[Db]
    BY <2>3, TwoPaths
  <2>5. Typed'
    <3>1. file' \in [Paths -> Handles \cup {Closed}]
      BY <1>4, <1>5, <2>3 DEF Typed
    <3>2. pc' \in Rest
      BY <2>1, <2>2 DEF Rest
    <3>. QED
      BY <1>1, <1>5, <3>1, <3>2 DEF Typed
  <2>6. file[Db] # Closed /\ file[Journal] # Closed
    BY <1>5, <2>1 DEF OpenInv, JournalOpen
  <2>7. Shaped'
    BY <1>2, <1>3, <1>5, <1>7, <2>4, <2>6, TwoPaths DEF Shaped
  <2>8. OpenInv'
    BY <1>4, <1>5, <2>1, <2>2, <2>4 DEF OpenInv, JournalOpen
  <2>9. FlushInv'
    BY <1>1 DEF FlushInv
  <2>10. CleanInv'
    <3>1. \A q \in Paths : file'[q] # Closed /\ ~file'[q].dirty => View(file'[q]) = Contents(q)'
      BY <1>1, <1>2, <1>3, <1>5, <1>7, <2>4, TwoPaths DEF CleanInv
    <3>2. ~file[Db].dirty
      BY <1>5, <2>1 DEF CleanInv
    <3>. QED
      BY <1>3, <1>5, <2>1, <2>2, <2>4, <3>1, <3>2 DEF CleanInv
  <2>11. ASSUME ~lost PROVE DiskInv' /\ HandleInv'
    <3>1. torn' = torn
      BY <1>1, <1>5, <1>7, <2>11, TwoPaths DEF Typed
    <3>2. DiskInv'
      BY <1>1, <1>2, <1>5, <2>4, <2>11, <3>1, TwoPaths DEF DiskInv
    <3>3. HandleInv'
      BY <1>1, <1>2, <1>3, <1>5, <1>7, <2>1, <2>2, <2>4, <2>11, TwoPaths DEF HandleInv
    <3>. QED
      BY <3>2, <3>3
  <2>. QED
    BY <1>1, <2>5, <2>7, <2>8, <2>9, <2>10, <2>11 DEF VfsInv
<1>. QED
  BY <1>6, <1>7, TwoPaths

LEMMA CleanHolds ==
  ASSUME VfsInv, NEW p \in Paths, Clean(p)
  PROVE  VfsInv'
<1>1. /\ Syncing(p) /\ io = Idle /\ ~file[p].dirty /\ pc' = AfterOk[pc]
      /\ file' = HandleAfter(p, pc', file[p])
      /\ disk' = disk /\ io' = io /\ txn' = txn /\ want' = want /\ committed' = committed
      /\ torn' = torn /\ lost' = lost
  BY DEF Clean, ghosts
<1>2. Typed /\ Shaped /\ OpenInv /\ CleanInv /\ (~lost => DiskInv)
  BY DEF VfsInv
<1>3. file[p] # Closed
  BY <1>1, <1>2, SyncingIs DEF OpenInv, JournalOpen
<1>4. Sized(file[p]) /\ file[p].dirty = FALSE
  <2>1. Sized(file[p])
    BY <1>2, <1>3, TwoPaths DEF Shaped
  <2>. QED
    BY <1>1, <2>1 DEF Sized, Handles
<1>5. View(file[p]) = Contents(p)
  BY <1>1, <1>2, <1>3 DEF CleanInv
<1>6. torn \in BOOLEAN /\ (~lost /\ p = Db => ~torn)
  BY <1>1, <1>2 DEF Typed, DiskInv
<1>7. ~lost => torn = (torn /\ p # Db)
  BY <1>6
<1>8. Succeeds(p)
  BY <1>1, <1>4, <1>5, <1>6, <1>7 DEF Succeeds
<1>. QED
  BY <1>8, SucceedsHolds

LEMMA FlushEndHolds == VfsInv /\ FlushEnd => VfsInv'
<1>. SUFFICES ASSUME VfsInv, FlushEnd PROVE VfsInv'
  OBVIOUS
<1>. DEFINE p == io.path
            f == [file[p] EXCEPT !.dirty = FALSE]
<1>1. /\ io # Idle /\ io.done = file[p].size /\ pc' = AfterOk[pc]
      /\ file' = HandleAfter(p, pc', f)
      /\ disk' = disk /\ io' = Idle /\ txn' = txn /\ want' = want /\ committed' = committed
      /\ torn' = (torn /\ p # Db) /\ lost' = lost
  BY DEF FlushEnd, ghosts
<1>2. Typed /\ Shaped /\ OpenInv /\ FlushInv
  BY DEF VfsInv
<1>3. p \in Paths /\ Syncing(p) /\ disk[p] = SubSeq(View(file[p]), 1, io.done)
  BY <1>1, <1>2 DEF Typed, Flushes, FlushInv
<1>4. file[p] # Closed
  BY <1>2, <1>3, SyncingIs DEF OpenInv, JournalOpen
<1>5. Sized(file[p])
  BY <1>2, <1>3, <1>4, TwoPaths DEF Shaped
<1>6. Sized(f) /\ f.dirty = FALSE /\ View(f) = View(file[p])
  BY <1>5, CleanedIs
<1>7. View(file[p]) = Contents(p)
  <2>. DEFINE v == View(file[p])
  <2>1. v \in Seq(Cells) /\ Len(v) = io.done
    BY <1>1, <1>5, ViewIs
  <2>2. disk[p] = v
    <3>. HIDE DEF v, p
    <3>1. SubSeq(v, 1, Len(v)) = v
      BY <2>1
    <3>. QED
      BY <1>3, <2>1, <3>1 DEF v
  <2>3. v # NoFile
    BY <2>1, NoneAssumption
  <2>. QED
    BY <2>2, <2>3 DEF Contents
<1>. HIDE DEF f
<1>8. torn' \in BOOLEAN
  BY <1>1, <1>2 DEF Typed
<1>9. Succeeds(p)
  <2>. HIDE DEF p
  <2>. QED
    BY <1>1, <1>3, <1>6, <1>7, <1>8 DEF Succeeds
<1>. QED
  BY <1>3, <1>9, SucceedsHolds

LEMMA FlushBeginHolds ==
  ASSUME VfsInv, NEW p \in Paths, FlushBegin(p)
  PROVE  VfsInv'
<1>1. /\ Syncing(p) /\ io = Idle /\ file[p].dirty
      /\ disk' = [disk EXCEPT ![p] = <<>>]
      /\ io' = [path |-> p, done |-> 0]
      /\ torn' = (p = Db \/ torn)
      /\ file' = file /\ pc' = pc /\ txn' = txn /\ want' = want /\ committed' = committed
      /\ lost' = lost
  BY DEF FlushBegin, ghosts
<1>2. /\ Typed /\ Shaped /\ OpenInv /\ CleanInv
      /\ ~lost => DiskInv /\ HandleInv
  BY DEF VfsInv
<1>3. \/ p = Db /\ pc \in {"syncHot", "syncDb", "syncUndo", "close"}
      \/ p = Journal /\ pc \in {"syncJournal", "drop"}
  BY <1>1, <1>2, SyncingIs, TwoPaths DEF CleanInv
<1>4. file[p] # Closed /\ file[Db] # Closed
  BY <1>2, <1>3 DEF OpenInv, JournalOpen
<1>5. Sized(file[p])
  BY <1>2, <1>3, <1>4 DEF Shaped
<1>6. /\ disk'[p] = <<>> /\ Contents(p)' = <<>>
      /\ \A q \in Paths : q # p => disk'[q] = disk[q] /\ Contents(q)' = Contents(q)
  BY <1>1, <1>2 DEF Typed, Contents
<1>7. io' \in Flushes /\ io'.path = p /\ io'.done = 0
  BY <1>1 DEF Flushes
<1>8. Typed'
  <2>1. disk' \in [Paths -> Seq(Cells) \cup {NoFile}]
    BY <1>1, <1>2 DEF Typed
  <2>2. torn' \in BOOLEAN
    BY <1>1, <1>2 DEF Typed
  <2>. QED
    BY <1>1, <1>2, <1>7, <2>1, <2>2 DEF Typed
<1>9. Shaped'
  BY <1>1, <1>2, <1>3, <1>6, TwoPaths, NoPages DEF Shaped
<1>10. OpenInv'
  BY <1>1, <1>2 DEF OpenInv
<1>11. FlushInv'
  <2>1. Syncing(p)'
    BY <1>1 DEF Syncing
  <2>2. 0 <= file[p].size
    BY <1>5 DEF Sized, Handles
  <2>3. SubSeq(View(file[p]), 1, 0) = <<>>
    BY <1>5, ViewIs, SubSeqEmpty
  <2>. QED
    BY <1>1, <1>6, <1>7, <2>1, <2>2, <2>3 DEF FlushInv
<1>12. CleanInv'
  BY <1>1, <1>2, <1>3, <1>6, TwoPaths DEF CleanInv
<1>13. ASSUME ~lost PROVE DiskInv' /\ HandleInv'
  <2>1. CASE p = Db
    <3>1. torn' = TRUE /\ Contents(Journal)' = Contents(Journal)
      BY <1>1, <1>6, <2>1, TwoPaths
    <3>2. DiskInv'
      BY <1>1, <1>4, <2>1, <3>1 DEF DiskInv
    <3>3. HandleInv'
      BY <1>1, <1>2, <1>13, <3>1 DEF HandleInv
    <3>. QED
      BY <3>2, <3>3
  <2>2. CASE p = Journal
    <3>1. pc \in {"syncJournal", "drop"}
      BY <1>3, <2>2, TwoPaths
    <3>2. View(file[Db]) = Contents(Db) /\ ~file[Db].dirty
      BY <1>2, <1>4, <3>1, TwoPaths DEF CleanInv
    <3>3. View(file[Db]) = committed
      BY <1>2, <1>13, <3>1 DEF HandleInv
    <3>4. Contents(Db)' = Contents(Db) /\ Contents(Journal)' = <<>>
      BY <1>6, <2>2, TwoPaths
    <3>5. Undoes(<<>>, committed, committed)
      BY DEF Undoes
    <3>6. ~torn /\ ~torn'
      BY <1>1, <1>2, <1>13, <2>2, <3>2, TwoPaths DEF DiskInv
    <3>7. DiskInv'
      BY <1>1, <3>2, <3>3, <3>4, <3>5, <3>6 DEF DiskInv
    <3>8. HandleInv'
      BY <1>1, <1>2, <1>13, <3>1, <3>3, <3>4, <3>5 DEF HandleInv
    <3>. QED
      BY <3>7, <3>8
  <2>. QED
    BY <2>1, <2>2, TwoPaths
<1>. QED
  BY <1>1, <1>8, <1>9, <1>10, <1>11, <1>12, <1>13 DEF VfsInv

LEMMA FlushWriteHolds ==
  ASSUME VfsInv, NEW n \in 1 .. MaxPages + 1, FlushWrite(n)
  PROVE  VfsInv'
<1>0. PICK p : p = io.path
  OBVIOUS
<1>. DEFINE v == View(file[p])
            s == SubSeq(v, 1, n)
<1>1. /\ io # Idle /\ n > io.done /\ n <= file[p].size
      /\ disk' = [disk EXCEPT ![p] = s] /\ io' = [io EXCEPT !.done = n]
      /\ file' = file /\ pc' = pc /\ txn' = txn /\ want' = want /\ committed' = committed
      /\ torn' = torn /\ lost' = lost
  BY <1>0 DEF FlushWrite, ghosts
<1>2. /\ Typed /\ Shaped /\ OpenInv /\ FlushInv /\ CleanInv
      /\ ~lost => DiskInv /\ HandleInv
  BY DEF VfsInv
<1>3. p \in Paths /\ Syncing(p) /\ file[p].dirty /\ (p = Db => torn) /\ io \in Flushes
  BY <1>0, <1>1, <1>2 DEF Typed, Flushes, FlushInv
<1>4. \/ p = Db /\ pc \in {"syncHot", "syncDb", "syncUndo", "close"}
      \/ p = Journal /\ pc \in {"syncJournal", "drop"}
  BY <1>2, <1>3, SyncingIs, TwoPaths DEF CleanInv
<1>5. file[p] # Closed /\ file[Db] # Closed
  BY <1>2, <1>4 DEF OpenInv, JournalOpen
<1>6. Sized(file[p])
  BY <1>2, <1>4, <1>5 DEF Shaped
<1>7. /\ v \in Seq(Cells) /\ Len(v) = file[p].size /\ file[p].size \in Nat
      /\ n \in Nat /\ n \in 0 .. Len(v)
  BY <1>1, <1>6, ViewIs, BoundAssumption DEF Sized, Handles
<1>8. /\ s \in Seq(Cells) /\ Len(s) = n /\ \A k \in 1 .. n : s[k] = v[k]
  <2>. HIDE DEF v
  <2>. QED
    BY <1>7, SubSeqProperties
<1>9. s # NoFile
  BY <1>8, NoneAssumption
<1>10. io' \in Flushes /\ io'.path = p /\ io'.done = n
  BY <1>0, <1>1, <1>3, <1>7 DEF Flushes
<1>. HIDE DEF s, v
<1>11. /\ disk'[p] = s /\ Contents(p)' = s
       /\ \A q \in Paths : q # p => disk'[q] = disk[q] /\ Contents(q)' = Contents(q)
  BY <1>1, <1>2, <1>3, <1>9 DEF Typed, Contents
<1>12. Typed'
  <2>1. disk' \in [Paths -> Seq(Cells) \cup {NoFile}]
    BY <1>1, <1>2, <1>3, <1>8 DEF Typed
  <2>. QED
    BY <1>1, <1>2, <1>10, <2>1 DEF Typed
<1>13. p = Db => s \in Databases
  <2>1. SUFFICES ASSUME p = Db PROVE s \in Databases
    OBVIOUS
  <2>2. v \in Seq(Pages) /\ Len(v) <= MaxPages
    BY <1>2, <1>5, <2>1 DEF Shaped, Databases, v
  <2>3. \A k \in 1 .. Len(s) : s[k] \in Pages
    BY <1>7, <1>8, <2>2
  <2>4. s \in Seq(Pages)
    BY <1>8, <2>3, PagesOnly
  <2>. QED
    BY <1>7, <1>8, <2>2, <2>4, BoundAssumption DEF Databases
<1>14. p = Journal => IsJournal(v)
  BY <1>2, <1>5 DEF Shaped, v
<1>15. p = Journal => IsJournal(s)
  <2>1. SUFFICES ASSUME p = Journal PROVE IsJournal(s)
    OBVIOUS
  <2>2. v # <<>> /\ Opens(v) /\ Records(v) /\ s[1] = v[1] /\ n >= 1
    BY <1>7, <1>8, <1>14, <2>1 DEF IsJournal
  <2>3. Opens(s) /\ Records(s)
    BY <1>7, <1>8, <2>2 DEF Opens, Records
  <2>. QED
    BY <1>8, <2>3 DEF IsJournal
<1>16. Shaped'
  BY <1>1, <1>2, <1>4, <1>11, <1>13, <1>15, TwoPaths DEF Shaped
<1>17. OpenInv'
  BY <1>1, <1>2 DEF OpenInv
<1>18. FlushInv'
  <2>1. Syncing(p)'
    BY <1>1, <1>3 DEF Syncing
  <2>. QED
    BY <1>0, <1>1, <1>3, <1>10, <1>11, <2>1 DEF FlushInv, s, v
<1>19. CleanInv'
  BY <1>1, <1>2, <1>3, <1>4, <1>11, TwoPaths DEF CleanInv
<1>20. ASSUME ~lost PROVE DiskInv' /\ HandleInv'
  <2>1. CASE p = Db
    <3>1. torn' = TRUE /\ Contents(Journal)' = Contents(Journal)
      BY <1>1, <1>2, <1>3, <1>11, <2>1, TwoPaths DEF Typed
    <3>2. DiskInv'
      BY <1>1, <1>3, <1>5, <2>1, <3>1 DEF DiskInv
    <3>3. HandleInv'
      BY <1>1, <1>2, <1>20, <3>1 DEF HandleInv
    <3>. QED
      BY <3>2, <3>3
  <2>2. CASE p = Journal
    <3>1. pc \in {"syncJournal", "drop"}
      BY <1>4, <2>2, TwoPaths
    <3>2. View(file[Db]) = Contents(Db) /\ ~file[Db].dirty
      BY <1>2, <1>5, <3>1, TwoPaths DEF CleanInv
    <3>3. View(file[Db]) = committed /\ Undoes(v, committed, committed)
      BY <1>2, <1>20, <2>2, <3>1 DEF HandleInv, v
    <3>4. Contents(Db)' = Contents(Db) /\ Contents(Journal)' = s
      BY <1>11, <2>2, TwoPaths
    <3>5. Undoes(s, committed, committed)
      BY <1>2, <1>7, <1>14, <2>2, <3>3, FrontUndoes DEF Typed, s
    <3>6. ~torn /\ ~torn'
      BY <1>1, <1>2, <1>20, <3>2 DEF DiskInv
    <3>7. DiskInv'
      BY <1>1, <3>2, <3>3, <3>4, <3>5, <3>6 DEF DiskInv
    <3>8. HandleInv'
      BY <1>1, <1>2, <1>20, <3>1, <3>3, <3>4, <3>5 DEF HandleInv
    <3>. QED
      BY <3>7, <3>8
  <2>. QED
    BY <1>3, <2>1, <2>2, TwoPaths
<1>. QED
  BY <1>1, <1>12, <1>16, <1>17, <1>18, <1>19, <1>20 DEF VfsInv

LEMMA FlushFailHolds ==
  ASSUME VfsInv, NEW p \in Paths, FlushFail(p)
  PROVE  VfsInv'
<1>1. /\ Syncing(p) /\ file[p].dirty /\ pc' = AfterFail[pc]
      /\ file' = HandleAfter(p, pc', file[p])
      /\ io' = Idle /\ lost' = (lost \/ (torn /\ pc = "close"))
      /\ disk' = disk /\ txn' = txn /\ want' = want /\ committed' = committed /\ torn' = torn
  BY DEF FlushFail, ghosts
<1>2. /\ Typed /\ Shaped /\ OpenInv /\ CleanInv
      /\ ~lost => DiskInv /\ HandleInv
  BY DEF VfsInv
<1>3. pc \in {"syncHot", "syncDb", "syncUndo", "close", "syncJournal", "drop"}
  BY <1>1, <1>2, SyncingIs, TwoPaths DEF CleanInv
<1>4. /\ p = IF pc \in {"syncJournal", "drop"} THEN Journal ELSE Db
      /\ p \in Paths
  BY <1>1, <1>2, SyncingIs, TwoPaths DEF CleanInv
<1>5. pc' = IF pc \in {"syncHot", "syncUndo"} THEN "check"
            ELSE IF pc = "syncDb" THEN "undo"
            ELSE IF pc = "close" THEN "off"
            ELSE IF pc = "syncJournal" THEN "drop" ELSE "delete"
  BY <1>1, <1>3, FailPoints
<1>6. /\ file'[Db] = IF pc = "close" THEN Closed ELSE file[Db]
      /\ file'[Journal] = IF pc \in {"syncHot", "syncUndo", "drop"} THEN Closed ELSE file[Journal]
      /\ file' \in [Paths -> Handles \cup {Closed}]
  <2>1. \A q \in Paths : file'[q] = IF q = p /\ pc \in Closes THEN Closed
                     ELSE IF q = Journal /\ pc' = "check" THEN Closed ELSE file[q]
    BY <1>1 DEF HandleAfter
  <2>2. file' = [q \in Paths |-> file'[q]]
    BY <1>1 DEF HandleAfter
  <2>3. \A q \in Paths : file'[q] \in Handles \cup {Closed}
    BY <1>2, <2>1 DEF Typed
  <2>4. file' \in [Paths -> Handles \cup {Closed}]
    BY <2>2, <2>3
  <2>. QED
    BY <1>3, <1>4, <1>5, <2>1, <2>4, TwoPaths DEF Closes
<1>7. \A q \in Paths : Contents(q)' = Contents(q)
  BY <1>1, ContentsKept
<1>8. file[Db] # Closed
  BY <1>2, <1>3 DEF OpenInv
<1>9. Typed'
  <2>1. pc' \in Rest
    BY <1>3, <1>5, SyncPoints DEF Rest
  <2>2. lost' \in BOOLEAN
    BY <1>1, <1>2 DEF Typed
  <2>. QED
    BY <1>1, <1>2, <1>6, <2>1, <2>2 DEF Typed
<1>10. Shaped'
  BY <1>2, <1>6, <1>7, TwoPaths DEF Shaped
<1>11. OpenInv'
  BY <1>2, <1>3, <1>5, <1>6 DEF OpenInv, JournalOpen
<1>12. FlushInv'
  BY <1>1 DEF FlushInv
<1>13. CleanInv'
  <2>1. \A q \in Paths : file'[q] # Closed /\ ~file'[q].dirty => View(file'[q]) = Contents(q)'
    BY <1>2, <1>6, <1>7, TwoPaths DEF CleanInv
  <2>. QED
    BY <1>2, <1>3, <1>5, <1>6, <2>1 DEF CleanInv
<1>14. ASSUME ~lost' PROVE DiskInv' /\ HandleInv'
  <2>1. ~lost /\ (pc = "close" => ~torn)
    BY <1>1, <1>14
  <2>2. DiskInv'
    BY <1>1, <1>2, <1>6, <1>7, <2>1, TwoPaths DEF DiskInv
  <2>3. HandleInv'
    BY <1>1, <1>2, <1>3, <1>5, <1>6, <1>7, <1>8, <2>1, TwoPaths DEF HandleInv
  <2>. QED
    BY <2>2, <2>3
<1>. QED
  BY <1>9, <1>10, <1>11, <1>12, <1>13, <1>14 DEF VfsInv

----------------------------------------------------------------------------
(* The steps of SQLite. *)

LEMMA OpenDbHolds == VfsInv /\ OpenDb => VfsInv'
<1>. SUFFICES ASSUME VfsInv, OpenDb PROVE VfsInv'
  OBVIOUS
<1>1. /\ pc = "off" /\ file' = [file EXCEPT ![Db] = Loaded(Db)] /\ pc' = "check"
      /\ disk' = disk /\ io' = io /\ txn' = txn /\ want' = want /\ committed' = committed
      /\ torn' = torn /\ lost' = lost
  BY DEF OpenDb, ghosts
<1>2. /\ Typed /\ Shaped /\ OpenInv /\ FlushInv /\ CleanInv
      /\ ~lost => DiskInv /\ HandleInv
  BY DEF VfsInv
<1>3. /\ Sized(Loaded(Db)) /\ Loaded(Db).dirty = FALSE /\ View(Loaded(Db)) = Contents(Db)
  BY <1>2, LoadedIs, TwoPaths
<1>4. /\ file'[Db] = Loaded(Db) /\ file'[Journal] = file[Journal]
      /\ file[Db] = Closed /\ file[Journal] = Closed
  BY <1>1, <1>2, TwoPaths DEF Typed, OpenInv, JournalOpen
<1>5. \A q \in Paths : Contents(q)' = Contents(q)
  BY <1>1, ContentsKept
<1>6. Typed'
  <2>1. file' \in [Paths -> Handles \cup {Closed}]
    BY <1>1, <1>2, <1>3, OpenHandle DEF Typed
  <2>. QED
    BY <1>1, <1>2, <2>1 DEF Typed, Rest
<1>7. Shaped'
  BY <1>2, <1>3, <1>4, <1>5, TwoPaths DEF Shaped
<1>8. OpenInv'
  BY <1>1, <1>2, <1>3, <1>4, OpenHandle DEF OpenInv, JournalOpen
<1>9. io = Idle
  <2>1. SUFFICES ASSUME io # Idle PROVE FALSE
    OBVIOUS
  <2>2. Syncing(io.path)
    BY <1>2, <2>1 DEF FlushInv
  <2>. QED
    BY <1>1, <2>2, SyncPoints DEF Syncing
<1>10. FlushInv'
  BY <1>1, <1>9 DEF FlushInv
<1>11. CleanInv'
  <2>1. \A q \in Paths : file'[q] # Closed => View(file'[q]) = Contents(q)'
    BY <1>3, <1>4, <1>5, TwoPaths
  <2>. QED
    BY <1>1, <2>1 DEF CleanInv
<1>12. ASSUME ~lost PROVE DiskInv' /\ HandleInv'
  <2>1. ~torn /\ Undoes(Contents(Journal), Contents(Db), committed)
    BY <1>2, <1>4, <1>12 DEF DiskInv
  <2>. QED
    BY <1>1, <1>3, <1>4, <1>5, <2>1, TwoPaths DEF DiskInv, HandleInv
<1>. QED
  BY <1>1, <1>6, <1>7, <1>8, <1>10, <1>11, <1>12 DEF VfsInv

\* A step that changes nothing but where SQLite is.
LEMMA PointHolds ==
  ASSUME VfsInv, NoHotJournal \/ CloseDb \/ DeleteFails
  PROVE  VfsInv'
<1>1. /\ disk' = disk /\ io' = io /\ txn' = txn /\ want' = want /\ committed' = committed
      /\ torn' = torn /\ lost' = lost /\ file' = file
      /\ \/ pc = "check" /\ pc' = "ready" /\ ~Hot /\ ~file[Db].dirty
         \/ pc \in {"ready", "check"} /\ pc' = "close"
         \/ pc \in {"delete", "deleteCommit"} /\ pc' = "check"
  BY DEF NoHotJournal, CloseDb, DeleteFails, ghosts
<1>2. /\ Typed /\ Shaped /\ OpenInv /\ FlushInv /\ CleanInv
      /\ ~lost => DiskInv /\ HandleInv
  BY DEF VfsInv
<1>3. \A q \in Paths : Contents(q)' = Contents(q)
  BY <1>1, ContentsKept
<1>4. Typed'
  BY <1>1, <1>2, SyncPoints DEF Typed, Rest
<1>5. Shaped'
  BY <1>1, <1>2, <1>3, TwoPaths DEF Shaped
<1>6. OpenInv'
  BY <1>1, <1>2 DEF OpenInv, JournalOpen
<1>7. io = Idle
  <2>1. SUFFICES ASSUME io # Idle PROVE FALSE
    OBVIOUS
  <2>2. Syncing(io.path)
    BY <1>2, <2>1 DEF FlushInv
  <2>. QED
    BY <1>1, <2>2, SyncPoints DEF Syncing
<1>8. FlushInv'
  BY <1>1, <1>7 DEF FlushInv
<1>9. Hot' = Hot
  BY <1>1 DEF Hot
<1>10. CleanInv'
  BY <1>1, <1>2, <1>3, <1>9 DEF CleanInv
<1>11. ASSUME ~lost PROVE DiskInv' /\ HandleInv'
  <2>1. DiskInv'
    BY <1>1, <1>2, <1>3, <1>11, TwoPaths DEF DiskInv
  <2>2. pc' = "ready" => View(file[Db]) = committed
    <3>1. SUFFICES ASSUME pc' = "ready" PROVE View(file[Db]) = committed
      OBVIOUS
    <3>2. file[Db] # Closed /\ Contents(Journal) = <<>>
      BY <1>1, <1>2, <3>1 DEF OpenInv, Contents, Hot
    <3>3. Undoes(Contents(Journal), View(file[Db]), committed)
      BY <1>2, <1>11, <3>2 DEF HandleInv
    <3>. QED
      BY <3>2, <3>3 DEF Undoes
  <2>3. HandleInv'
    BY <1>1, <1>2, <1>3, <1>11, <2>2, TwoPaths DEF HandleInv
  <2>. QED
    BY <2>1, <2>3
<1>. QED
  BY <1>1, <1>4, <1>5, <1>6, <1>8, <1>10, <1>11 DEF VfsInv

LEMMA HotJournalHolds == VfsInv /\ HotJournal => VfsInv'
<1>. SUFFICES ASSUME VfsInv, HotJournal PROVE VfsInv'
  OBVIOUS
<1>. DEFINE g == Restored(file[Db], disk[Journal])
            l == Loaded(Journal)
<1>1. /\ pc = "check" /\ Hot /\ pc' = "syncHot"
      /\ file' = [file EXCEPT ![Journal] = l, ![Db] = Restored(@, disk[Journal])]
      /\ disk' = disk /\ io' = io /\ txn' = txn /\ want' = want /\ committed' = committed
      /\ torn' = torn /\ lost' = lost
  BY DEF HotJournal, ghosts
<1>2. /\ Typed /\ Shaped /\ OpenInv /\ FlushInv /\ CleanInv
      /\ ~lost => DiskInv /\ HandleInv
  BY DEF VfsInv
<1>3. Sized(l) /\ l.dirty = FALSE /\ View(l) = Contents(Journal)
  BY <1>2, LoadedIs, TwoPaths
<1>4. file[Db] # Closed /\ Sized(file[Db]) /\ View(file[Db]) \in Databases
  BY <1>1, <1>2 DEF OpenInv, Shaped
<1>5. Contents(Journal) = disk[Journal] /\ disk[Journal] # <<>> /\ IsJournal(disk[Journal])
  BY <1>1, <1>2 DEF Hot, Contents, Shaped
<1>6. RolledBack(file[Db], disk[Journal], g)
  BY <1>4, <1>5, RestoredIs
<1>7. Sized(g) /\ g.dirty = TRUE /\ View(g) \in Databases
  BY <1>4, <1>5, <1>6 DEF RolledBack
<1>8. file'[Db] = g /\ file'[Journal] = l
  BY <1>1, <1>2, TwoPaths DEF Typed
<1>. HIDE DEF g, l
<1>9. \A q \in Paths : Contents(q)' = Contents(q)
  BY <1>1, ContentsKept
<1>10. Typed'
  <2>1. \A q \in Paths : file'[q] \in Handles \cup {Closed}
    BY <1>3, <1>7, <1>8, OpenHandle, TwoPaths
  <2>2. file' \in [Paths -> Handles \cup {Closed}]
    <3>1. DOMAIN file' = Paths /\ file' = [q \in DOMAIN file' |-> file'[q]]
      BY <1>1, <1>2 DEF Typed
    <3>. QED
      BY <2>1, <3>1
  <2>. QED
    BY <1>1, <1>2, <2>2, SyncPoints DEF Typed, Rest
<1>11. Shaped'
  BY <1>2, <1>3, <1>5, <1>7, <1>8, <1>9, TwoPaths DEF Shaped
<1>12. OpenInv'
  BY <1>1, <1>3, <1>7, <1>8, OpenHandle DEF OpenInv, JournalOpen
<1>13. io = Idle
  <2>1. SUFFICES ASSUME io # Idle PROVE FALSE
    OBVIOUS
  <2>2. Syncing(io.path)
    BY <1>2, <2>1 DEF FlushInv
  <2>. QED
    BY <1>1, <2>2, SyncPoints DEF Syncing
<1>14. FlushInv'
  BY <1>1, <1>13 DEF FlushInv
<1>15. CleanInv'
  <2>1. \A q \in Paths : file'[q] # Closed /\ ~file'[q].dirty => View(file'[q]) = Contents(q)'
    BY <1>3, <1>7, <1>8, <1>9, TwoPaths
  <2>. QED
    BY <1>1, <1>3, <1>8, <2>1 DEF CleanInv
<1>16. ASSUME ~lost PROVE DiskInv' /\ HandleInv'
  <2>1. Undoes(disk[Journal], View(file[Db]), committed) /\ committed \in Databases
    BY <1>2, <1>4, <1>5, <1>16 DEF HandleInv, Typed
  <2>2. View(g) = committed
    BY <1>6, <2>1 DEF RolledBack
  <2>3. Undoes(disk[Journal], committed, committed)
    BY <2>1, UndoesItself
  <2>4. DiskInv'
    <3>1. g # Closed
      BY <1>7, OpenHandle
    <3>. QED
      BY <1>1, <1>2, <1>7, <1>8, <1>9, <1>16, <3>1, TwoPaths DEF DiskInv
  <2>5. HandleInv'
    BY <1>1, <1>5, <1>8, <1>9, <2>2, <2>3, TwoPaths DEF HandleInv
  <2>. QED
    BY <2>4, <2>5
<1>. QED
  BY <1>1, <1>10, <1>11, <1>12, <1>14, <1>15, <1>16 DEF VfsInv

LEMMA UndoHolds == VfsInv /\ Undo => VfsInv'
<1>. SUFFICES ASSUME VfsInv, Undo PROVE VfsInv'
  OBVIOUS
<1>. DEFINE j == View(file[Journal])
            g == Restored(file[Db], j)
<1>1. /\ pc = "undo" /\ pc' = "syncUndo"
      /\ file' = [file EXCEPT ![Db] = g]
      /\ disk' = disk /\ io' = io /\ txn' = txn /\ want' = want /\ committed' = committed
      /\ torn' = torn /\ lost' = lost
  BY DEF Undo, ghosts
<1>2. /\ Typed /\ Shaped /\ OpenInv /\ FlushInv /\ CleanInv
      /\ ~lost => DiskInv /\ HandleInv
  BY DEF VfsInv
<1>3. /\ file[Db] # Closed /\ Sized(file[Db]) /\ View(file[Db]) \in Databases
      /\ file[Journal] # Closed /\ IsJournal(j) /\ ~file[Journal].dirty
  BY <1>1, <1>2 DEF OpenInv, Shaped, JournalOpen, CleanInv
<1>4. j = Contents(Journal)
  BY <1>2, <1>3, TwoPaths DEF CleanInv
<1>5. RolledBack(file[Db], j, g)
  <2>. HIDE DEF j
  <2>. QED
    BY <1>3, RestoredIs
<1>6. Sized(g) /\ View(g) \in Databases /\ (IF j = <<>> THEN g = file[Db] ELSE g.dirty = TRUE)
      /\ (file[Db].dirty => g.dirty)
  BY <1>3, <1>5 DEF RolledBack
<1>. HIDE DEF g, j
<1>7. file'[Db] = g /\ file'[Journal] = file[Journal]
  BY <1>1, <1>2, TwoPaths DEF Typed
<1>8. \A q \in Paths : Contents(q)' = Contents(q)
  BY <1>1, ContentsKept
<1>9. Typed'
  <2>1. file' \in [Paths -> Handles \cup {Closed}]
    BY <1>1, <1>2, <1>6, OpenHandle DEF Typed
  <2>. QED
    BY <1>1, <1>2, <2>1, SyncPoints DEF Typed, Rest
<1>10. Shaped'
  BY <1>2, <1>6, <1>7, <1>8, TwoPaths DEF Shaped
<1>11. OpenInv'
  BY <1>1, <1>2, <1>6, <1>7, OpenHandle DEF OpenInv, JournalOpen
<1>12. io = Idle
  <2>1. SUFFICES ASSUME io # Idle PROVE FALSE
    OBVIOUS
  <2>2. Syncing(io.path)
    BY <1>2, <2>1 DEF FlushInv
  <2>. QED
    BY <1>1, <2>2, SyncPoints DEF Syncing
<1>13. FlushInv'
  BY <1>1, <1>12 DEF FlushInv
<1>14. CleanInv'
  <2>1. \A q \in Paths : file'[q] # Closed /\ ~file'[q].dirty => View(file'[q]) = Contents(q)'
    BY <1>2, <1>6, <1>7, <1>8, TwoPaths DEF CleanInv
  <2>. QED
    BY <1>1, <1>3, <1>7, <2>1 DEF CleanInv
<1>15. ASSUME ~lost PROVE DiskInv' /\ HandleInv'
  <2>1. Undoes(j, View(file[Db]), committed) /\ committed \in Databases
    BY <1>2, <1>3, <1>4, <1>15 DEF HandleInv, Typed
  <2>2. View(g) = committed
    BY <1>5, <2>1 DEF RolledBack
  <2>3. Undoes(j, committed, committed)
    BY <2>1, UndoesItself
  <2>4. DiskInv'
    <3>1. g # Closed
      BY <1>6, OpenHandle
    <3>. QED
      BY <1>1, <1>2, <1>6, <1>7, <1>8, <1>15, <3>1, TwoPaths DEF DiskInv
  <2>5. HandleInv'
    BY <1>1, <1>4, <1>7, <1>8, <2>2, <2>3, TwoPaths DEF HandleInv
  <2>. QED
    BY <2>4, <2>5
<1>. QED
  BY <1>1, <1>9, <1>10, <1>11, <1>13, <1>14, <1>15 DEF VfsInv

LEMMA WritePagesHolds == VfsInv /\ WritePages => VfsInv'
<1>. SUFFICES ASSUME VfsInv, WritePages PROVE VfsInv'
  OBVIOUS
<1>. DEFINE g == Overwritten(file[Db], want, txn)
<1>1. /\ pc = "write" /\ pc' = "syncDb"
      /\ file' = [file EXCEPT ![Db] = g]
      /\ disk' = disk /\ io' = io /\ txn' = txn /\ want' = want /\ committed' = committed
      /\ torn' = torn /\ lost' = lost
  BY DEF WritePages, ghosts
<1>2. /\ Typed /\ Shaped /\ OpenInv /\ FlushInv /\ CleanInv
      /\ ~lost => DiskInv /\ HandleInv
  BY DEF VfsInv
<1>3. /\ file[Db] # Closed /\ Sized(file[Db]) /\ View(file[Db]) \in Databases
      /\ file[Journal] # Closed /\ ~file[Journal].dirty /\ ~file[Db].dirty /\ want \in Databases
  BY <1>1, <1>2 DEF OpenInv, Shaped, JournalOpen, CleanInv, Typed
<1>4. View(file[Journal]) = Contents(Journal) /\ View(file[Db]) = Contents(Db)
  BY <1>2, <1>3, TwoPaths DEF CleanInv
<1>5. Rewrites(file[Db], want, txn, g)
  BY <1>3, OverwrittenIs
<1>6. Sized(g) /\ View(g) \in Databases /\ (~g.dirty => View(g) = View(file[Db]))
  BY <1>5 DEF Rewrites
<1>. HIDE DEF g
<1>7. file'[Db] = g /\ file'[Journal] = file[Journal]
  BY <1>1, <1>2, TwoPaths DEF Typed
<1>8. \A q \in Paths : Contents(q)' = Contents(q)
  BY <1>1, ContentsKept
<1>9. Typed'
  <2>1. file' \in [Paths -> Handles \cup {Closed}]
    BY <1>1, <1>2, <1>6, OpenHandle DEF Typed
  <2>. QED
    BY <1>1, <1>2, <2>1, SyncPoints DEF Typed, Rest
<1>10. Shaped'
  BY <1>2, <1>6, <1>7, <1>8, TwoPaths DEF Shaped
<1>11. OpenInv'
  BY <1>1, <1>2, <1>6, <1>7, OpenHandle DEF OpenInv, JournalOpen
<1>12. io = Idle
  <2>1. SUFFICES ASSUME io # Idle PROVE FALSE
    OBVIOUS
  <2>2. Syncing(io.path)
    BY <1>2, <2>1 DEF FlushInv
  <2>. QED
    BY <1>1, <2>2, SyncPoints DEF Syncing
<1>13. FlushInv'
  BY <1>1, <1>12 DEF FlushInv
<1>14. CleanInv'
  <2>1. \A q \in Paths : file'[q] # Closed /\ ~file'[q].dirty => View(file'[q]) = Contents(q)'
    BY <1>3, <1>4, <1>6, <1>7, <1>8, TwoPaths
  <2>. QED
    BY <1>1, <1>3, <1>7, <2>1 DEF CleanInv
<1>15. ASSUME ~lost PROVE DiskInv' /\ HandleInv'
  <2>1. /\ View(file[Db]) = committed /\ Keeps(want, committed, txn)
        /\ Undoes(View(file[Journal]), want, committed)
    BY <1>1, <1>2, <1>15 DEF HandleInv
  <2>2. View(g) = want
    BY <1>5, <2>1 DEF Rewrites
  <2>3. ~torn
    BY <1>2, <1>3, <1>15 DEF DiskInv
  <2>4. DiskInv'
    BY <1>1, <1>2, <1>8, <1>15, <2>3, TwoPaths DEF DiskInv
  <2>5. HandleInv'
    BY <1>1, <1>4, <1>7, <1>8, <2>1, <2>2, TwoPaths DEF HandleInv
  <2>. QED
    BY <2>4, <2>5
<1>. QED
  BY <1>1, <1>9, <1>10, <1>11, <1>13, <1>14, <1>15 DEF VfsInv

\* The pages a transaction leaves.
LEMMA ChangedIs ==
  ASSUME NEW d \in Databases, NEW n \in 0 .. MaxPages, NEW S \in SUBSET (1 .. n),
         Len(d) + 1 .. n \subseteq S, NEW t \in 0 .. MaxTxn
  PROVE  /\ Changed(d, S, n, t) \in Databases
         /\ Keeps(Changed(d, S, n, t), d, t)
         /\ \A i \in 1 .. Len(d) : \/ i \in S \cup n + 1 .. Len(d)
                                   \/ i <= Len(Changed(d, S, n, t)) /\ Changed(d, S, n, t)[i] = d[i]
<1>. DEFINE w == Changed(d, S, n, t)
<1>1. d \in Seq(Pages) /\ Len(d) \in Nat /\ n \in Nat /\ n <= MaxPages /\ Page(t) \in Pages
  BY BoundAssumption DEF Databases, Pages
<1>2. w = [i \in 1 .. n |-> IF i \in S THEN Page(t) ELSE d[i]]
  BY DEF Changed
<1>3. \A i \in 1 .. n : i \in S \/ i \in 1 .. Len(d)
  BY <1>1
<1>4. \A i \in 1 .. n : w[i] = (IF i \in S THEN Page(t) ELSE d[i]) /\ w[i] \in Pages
  BY <1>1, <1>2, <1>3
<1>5. w \in Seq(Pages) /\ Len(w) = n
  <2>. HIDE DEF w
  <2>. QED
    BY <1>1, <1>2, <1>4
<1>. HIDE DEF w
<1>6. w \in Databases
  BY <1>1, <1>5 DEF Databases
<1>7. Keeps(w, d, t)
  BY <1>3, <1>4, <1>5 DEF Keeps
<1>8. \A i \in 1 .. Len(d) : \/ i \in S \cup n + 1 .. Len(d)
                             \/ i <= Len(w) /\ w[i] = d[i]
  BY <1>1, <1>4, <1>5
<1>. QED
  BY <1>6, <1>7, <1>8 DEF w

LEMMA BeginHolds ==
  ASSUME VfsInv, NEW n \in 0 .. MaxPages, NEW S \in SUBSET (1 .. n), Begin(S, n)
  PROVE  VfsInv'
<1>. DEFINE d == View(file[Db])
            l == Loaded(Journal)
            U == S \cup n + 1 .. Len(d)
            j == JournalOf(d, U)
            a == Appended(l, j)
<1>1. /\ pc = "ready" /\ txn < MaxTxn /\ Len(d) + 1 .. n \subseteq S
      /\ txn' = txn + 1 /\ want' = Changed(d, S, n, txn + 1) /\ pc' = "syncJournal"
      /\ file' = [file EXCEPT ![Journal] = a]
      /\ disk' = disk /\ io' = io /\ committed' = committed /\ torn' = torn /\ lost' = lost
  BY DEF Begin
<1>2. /\ Typed /\ Shaped /\ OpenInv /\ FlushInv /\ CleanInv
      /\ ~lost => DiskInv /\ HandleInv
  BY DEF VfsInv
<1>3. /\ file[Db] # Closed /\ Sized(file[Db]) /\ d \in Databases /\ ~file[Db].dirty
      /\ ~Hot
  BY <1>1, <1>2 DEF OpenInv, Shaped, CleanInv
<1>4. txn + 1 \in 0 .. MaxTxn
  BY <1>1, <1>2, BoundAssumption DEF Typed
<1>5. Contents(Journal) = <<>>
  BY <1>3 DEF Contents, Hot
<1>6. Sized(l) /\ l.size = 0
  BY <1>2, <1>5, LoadedIs, TwoPaths
<1>. HIDE DEF d
<1>7. Logs(j, d, U)
  BY <1>3, JournalOfIs
<1>8. IsJournal(j) /\ j \in Seq(Cells) /\ j # <<>>
  BY <1>7 DEF Logs, IsJournal
<1>9. Sized(a) /\ View(a) = j /\ a.dirty = TRUE
  <2>. HIDE DEF l, j
  <2>. QED
    BY <1>6, <1>8, AppendedIs
<1>10. /\ want' \in Databases /\ Keeps(want', d, txn')
       /\ \A i \in 1 .. Len(d) : (i \in U) \/ (i <= Len(want') /\ want'[i] = d[i])
  BY <1>1, <1>3, <1>4, ChangedIs
<1>11. Undoes(j, want', d)
  BY <1>7, <1>10 DEF Logs
<1>12. Undoes(j, d, d)
  BY <1>3, <1>11, UndoesItself
<1>. HIDE DEF l, U, j, a
<1>13. file'[Journal] = a /\ file'[Db] = file[Db]
  BY <1>1, <1>2, TwoPaths DEF Typed
<1>14. \A q \in Paths : Contents(q)' = Contents(q)
  BY <1>1, ContentsKept
<1>15. Typed'
  <2>1. file' \in [Paths -> Handles \cup {Closed}]
    BY <1>1, <1>2, <1>9, OpenHandle DEF Typed
  <2>2. txn' \in 0 .. MaxTxn
    BY <1>1, <1>4
  <2>. QED
    BY <1>1, <1>2, <1>10, <2>1, <2>2, SyncPoints DEF Typed, Rest
<1>16. Shaped'
  BY <1>2, <1>8, <1>9, <1>13, <1>14, TwoPaths DEF Shaped
<1>17. OpenInv'
  BY <1>1, <1>2, <1>3, <1>9, <1>13, OpenHandle DEF OpenInv, JournalOpen
<1>18. io = Idle
  <2>1. SUFFICES ASSUME io # Idle PROVE FALSE
    OBVIOUS
  <2>2. Syncing(io.path)
    BY <1>2, <2>1 DEF FlushInv
  <2>. QED
    BY <1>1, <2>2, SyncPoints DEF Syncing
<1>19. FlushInv'
  BY <1>1, <1>18 DEF FlushInv
<1>20. CleanInv'
  <2>1. \A q \in Paths : file'[q] # Closed /\ ~file'[q].dirty => View(file'[q]) = Contents(q)'
    BY <1>2, <1>9, <1>13, <1>14, TwoPaths DEF CleanInv
  <2>. QED
    BY <1>1, <1>3, <1>13, <2>1 DEF CleanInv
<1>21. ASSUME ~lost PROVE DiskInv' /\ HandleInv'
  <2>1. d = committed
    BY <1>1, <1>2, <1>21 DEF HandleInv, d
  <2>2. ~torn
    BY <1>2, <1>3, <1>21 DEF DiskInv
  <2>3. DiskInv'
    BY <1>1, <1>2, <1>14, <1>21, <2>2, TwoPaths DEF DiskInv
  <2>4. HandleInv'
    <3>1. Undoes(Contents(Journal), View(file[Db]), committed)
      BY <1>2, <1>3, <1>21 DEF HandleInv
    <3>. QED
      BY <1>1, <1>9, <1>10, <1>11, <1>12, <1>13, <1>14, <2>1, <3>1, TwoPaths DEF HandleInv, d
  <2>. QED
    BY <2>3, <2>4
<1>. QED
  BY <1>1, <1>15, <1>16, <1>17, <1>19, <1>20, <1>21 DEF VfsInv

LEMMA DeleteJournalHolds == VfsInv /\ DeleteJournal => VfsInv'
<1>. SUFFICES ASSUME VfsInv, DeleteJournal PROVE VfsInv'
  OBVIOUS
<1>1. /\ pc \in {"delete", "deleteCommit"} /\ disk' = [disk EXCEPT ![Journal] = NoFile]
      /\ committed' = (IF pc = "deleteCommit" THEN want ELSE committed) /\ pc' = "ready"
      /\ file' = file /\ io' = io /\ txn' = txn /\ want' = want /\ torn' = torn /\ lost' = lost
  BY DEF DeleteJournal
<1>2. /\ Typed /\ Shaped /\ OpenInv /\ FlushInv /\ CleanInv
      /\ ~lost => DiskInv /\ HandleInv
  BY DEF VfsInv
<1>3. /\ file[Db] # Closed /\ ~file[Db].dirty /\ file[Journal] = Closed
  BY <1>1, <1>2 DEF OpenInv, CleanInv, JournalOpen
<1>4. View(file[Db]) = Contents(Db)
  BY <1>2, <1>3, TwoPaths DEF CleanInv
<1>5. disk'[Journal] = NoFile /\ Contents(Journal)' = <<>> /\ Contents(Db)' = Contents(Db)
  BY <1>1, <1>2, TwoPaths DEF Typed, Contents
<1>6. Typed'
  <2>1. disk' \in [Paths -> Seq(Cells) \cup {NoFile}]
    BY <1>1, <1>2 DEF Typed
  <2>. QED
    BY <1>1, <1>2, <2>1 DEF Typed, Rest
<1>7. Shaped'
  BY <1>1, <1>2, <1>3, <1>5, NoPages DEF Shaped
<1>8. OpenInv'
  BY <1>1, <1>2 DEF OpenInv, JournalOpen
<1>9. io = Idle
  <2>1. SUFFICES ASSUME io # Idle PROVE FALSE
    OBVIOUS
  <2>2. Syncing(io.path)
    BY <1>2, <2>1 DEF FlushInv
  <2>. QED
    BY <1>1, <2>2, SyncPoints DEF Syncing
<1>10. FlushInv'
  BY <1>1, <1>9 DEF FlushInv
<1>11. CleanInv'
  BY <1>1, <1>3, <1>4, <1>5, TwoPaths DEF CleanInv, Hot
<1>12. ASSUME ~lost PROVE DiskInv' /\ HandleInv'
  <2>1. ~torn
    BY <1>2, <1>3, <1>12 DEF DiskInv
  <2>2. View(file[Db]) = committed'
    BY <1>1, <1>2, <1>12 DEF HandleInv
  <2>3. Undoes(<<>>, committed', committed')
    BY DEF Undoes
  <2>. QED
    BY <1>1, <1>4, <1>5, <2>1, <2>2, <2>3 DEF DiskInv, HandleInv
<1>. QED
  BY <1>1, <1>6, <1>7, <1>8, <1>10, <1>11, <1>12 DEF VfsInv

LEMMA KillHolds == VfsInv /\ Kill => VfsInv'
<1>. SUFFICES ASSUME VfsInv, Kill PROVE VfsInv'
  OBVIOUS
<1>1. /\ file' = [p \in Paths |-> Closed] /\ io' = Idle /\ pc' = "off"
      /\ lost' = (lost \/ torn)
      /\ disk' = disk /\ txn' = txn /\ want' = want /\ committed' = committed /\ torn' = torn
  BY DEF Kill, ghosts
<1>2. Typed /\ Shaped /\ (~lost => DiskInv)
  BY DEF VfsInv
<1>3. file'[Db] = Closed /\ file'[Journal] = Closed
  BY <1>1, TwoPaths
<1>4. \A q \in Paths : Contents(q)' = Contents(q)
  BY <1>1, ContentsKept
<1>5. Typed'
  <2>1. lost' \in BOOLEAN
    BY <1>1, <1>2 DEF Typed
  <2>. QED
    BY <1>1, <1>2, <2>1 DEF Typed, Rest
<1>6. Shaped'
  BY <1>2, <1>3, <1>4, TwoPaths DEF Shaped
<1>7. OpenInv' /\ FlushInv' /\ CleanInv'
  BY <1>1, <1>3, TwoPaths DEF OpenInv, FlushInv, CleanInv, JournalOpen
<1>8. ASSUME ~lost' PROVE DiskInv' /\ HandleInv'
  BY <1>1, <1>2, <1>3, <1>4, <1>8, TwoPaths DEF DiskInv, HandleInv
<1>. QED
  BY <1>5, <1>6, <1>7, <1>8 DEF VfsInv

LEMMA NextHolds == VfsInv /\ [Next]_vars => VfsInv'
<1>. SUFFICES ASSUME VfsInv, [Next]_vars PROVE VfsInv'
  OBVIOUS
<1>1. ASSUME NEW p \in Paths, Clean(p) \/ FlushBegin(p) \/ FlushFail(p) PROVE VfsInv'
  BY <1>1, CleanHolds, FlushBeginHolds, FlushFailHolds
<1>2. ASSUME NEW n \in 1 .. MaxPages + 1, FlushWrite(n) PROVE VfsInv'
  BY <1>2, FlushWriteHolds
<1>3. ASSUME NEW n \in 0 .. MaxPages, NEW S \in SUBSET (1 .. n), Begin(S, n) PROVE VfsInv'
  BY <1>3, BeginHolds
<1>4. CASE NoHotJournal \/ DeleteFails \/ CloseDb
  BY <1>4, PointHolds
<1>5. CASE FlushEnd \/ OpenDb \/ HotJournal \/ WritePages \/ Undo \/ DeleteJournal \/ Kill
  BY <1>5, FlushEndHolds, OpenDbHolds, HotJournalHolds, WritePagesHolds, UndoHolds,
     DeleteJournalHolds, KillHolds
<1>6. CASE UNCHANGED vars
  BY <1>6 DEF vars, VfsInv, Typed, Shaped, OpenInv, FlushInv, CleanInv, DiskInv, HandleInv,
     Contents, View, Syncing, Hot
<1>. QED
  BY <1>1, <1>2, <1>3, <1>4, <1>5, <1>6 DEF Next

----------------------------------------------------------------------------
(* The theorems. *)

\* In every behaviour the handles, the files and SQLite's place agree: a clean
\* handle holds its file, a write-back writes from the start, and the journal
\* takes the database back to the last commit.
THEOREM VfsIsSound == Spec => []VfsInv
<1>1. VfsInv /\ [Next]_vars => VfsInv'
  BY NextHolds
<1>. QED
  BY <1>1, InitHolds, PTL DEF Spec

\* Whenever the process or the power goes, the two files hold the last commit,
\* unless the database file itself is cut off; while it is, the handle holds
\* all of it.  cleonos_sqlite_flush and cleonos_sqlite_write_whole_file.
THEOREM FilesRecover == Spec => []Recoverable
<1>1. VfsInv => Recoverable
  <2>. SUFFICES ASSUME VfsInv PROVE Recoverable
    OBVIOUS
  <2>1. /\ Typed /\ Shaped /\ OpenInv /\ FlushInv /\ CleanInv
        /\ ~lost => DiskInv /\ HandleInv
    BY DEF VfsInv
  <2>2. TypeOK
    <3>1. \A p \in Paths : \A i \in 1 .. Len(Contents(p)) : Contents(p)[i] \in Cells
      <4>. TAKE p \in Paths
      <4>1. Contents(p) \in Seq(Cells)
        BY <2>1, LoadedIs
      <4>. DEFINE c == Contents(p)
      <4>2. c \in Seq(Cells)
        BY <4>1
      <4>. HIDE DEF c
      <4>3. \A i \in 1 .. Len(c) : c[i] \in Cells
        BY <4>2
      <4>. QED
        BY <4>3 DEF c
    <3>2. \A p \in Paths : file[p] # Closed =>
            file[p].size \in 0 .. Len(file[p].buf) /\ file[p].dirty \in BOOLEAN
      <4>. SUFFICES ASSUME NEW p \in Paths, file[p] # Closed
                    PROVE  file[p].size \in 0 .. Len(file[p].buf) /\ file[p].dirty \in BOOLEAN
        OBVIOUS
      <4>1. Sized(file[p])
        BY <2>1, TwoPaths DEF Shaped
      <4>. QED
        BY <4>1 DEF Sized, Handles
    <3>3. io # Idle => io.done \in 0 .. file[io.path].size
      <4>. SUFFICES ASSUME io # Idle PROVE io.done \in 0 .. file[io.path].size
        OBVIOUS
      <4>1. io.path \in Paths /\ io.done \in Nat /\ io.done <= file[io.path].size /\ Syncing(io.path)
        BY <2>1 DEF Typed, Flushes, FlushInv
      <4>2. file[io.path] # Closed
        BY <2>1, <4>1, SyncingIs DEF OpenInv, JournalOpen
      <4>3. Sized(file[io.path])
        BY <2>1, <4>1, <4>2, TwoPaths DEF Shaped
      <4>4. file[io.path].size \in Nat
        BY <4>3 DEF Sized, Handles
      <4>. QED
        BY <4>1, <4>4
    <3>. QED
      BY <2>1, <3>1, <3>2, <3>3 DEF Typed, TypeOK, Rest
  <2>3. ASSUME ~torn, ~lost
        PROVE  View(Restored([buf |-> Contents(Db), size |-> Len(Contents(Db)), dirty |-> FALSE],
                             Contents(Journal))) = committed
    <3>1. /\ Sized(Loaded(Db)) /\ View(Loaded(Db)) = Contents(Db)
          /\ Loaded(Db) = [buf |-> Contents(Db), size |-> Len(Contents(Db)), dirty |-> FALSE]
      BY <2>1, LoadedIs, TwoPaths DEF Loaded, Contents
    <3>2. IsJournal(Contents(Journal)) /\ committed \in Databases
      BY <2>1 DEF Shaped, Typed
    <3>3. Undoes(Contents(Journal), View(Loaded(Db)), committed)
      BY <2>1, <2>3, <3>1 DEF DiskInv
    <3>4. RolledBack(Loaded(Db), Contents(Journal), Restored(Loaded(Db), Contents(Journal)))
      BY <3>1, <3>2, RestoredIs
    <3>5. View(Restored(Loaded(Db), Contents(Journal))) = committed
      BY <3>2, <3>3, <3>4 DEF RolledBack
    <3>. QED
      BY <3>1, <3>5
  <2>4. ASSUME torn, ~lost
        PROVE  /\ file[Db] # Closed /\ file[Db].dirty
               /\ View(Restored(file[Db], IF file[Journal] # Closed THEN View(file[Journal])
                                          ELSE Contents(Journal))) = committed
    <3>1. file[Db] # Closed /\ file[Db].dirty
      BY <2>1, <2>4 DEF DiskInv
    <3>. DEFINE j == IF file[Journal] # Closed THEN View(file[Journal]) ELSE Contents(Journal)
    <3>2. j = Contents(Journal)
      BY <2>1, <3>1, TwoPaths DEF OpenInv, CleanInv, JournalOpen
    <3>3. IsJournal(j) /\ committed \in Databases /\ Sized(file[Db])
      BY <2>1, <3>1, <3>2 DEF Shaped, Typed
    <3>4. Undoes(j, View(file[Db]), committed)
      BY <2>1, <2>4, <3>1, <3>2 DEF HandleInv
    <3>. HIDE DEF j
    <3>5. RolledBack(file[Db], j, Restored(file[Db], j))
      BY <3>3, RestoredIs
    <3>6. View(Restored(file[Db], j)) = committed
      BY <3>3, <3>4, <3>5 DEF RolledBack
    <3>. QED
      BY <3>1, <3>6 DEF j
  <2>. QED
    BY <2>2, <2>3, <2>4 DEF Recoverable
<1>. QED
  BY <1>1, VfsIsSound, PTL

\* Between two transactions SQLite reads the last committed database: stale
\* cells above a truncated size (cleonos_sqlite_truncate) never come back.
THEOREM ReadersSeeCommits == Spec => []AtomicCommit
<1>1. VfsInv => AtomicCommit
  BY DEF VfsInv, HandleInv, AtomicCommit
<1>. QED
  BY <1>1, VfsIsSound, PTL
=============================================================================
