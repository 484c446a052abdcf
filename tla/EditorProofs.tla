---------------------------- MODULE EditorProofs ----------------------------
(***************************************************************************)
(* Proofs about Editor: what the text of a list of lines is, that every    *)
(* operation keeps the buffer within its limits and makes one edit of the  *)
(* text, and that an unmodified buffer is what its file holds.             *)
(***************************************************************************)
EXTENDS Editor, NaturalsInduction, WellFoundedInduction, SequenceTheorems, TLAPS

----------------------------------------------------------------------------
(* Runs: functions that take one step of a list after another. *)

\* A non-empty set of numbers has a least one.
LEMMA LeastNumber ==
  ASSUME NEW T \in SUBSET Nat, T # {}
  PROVE  \E n \in T : \A m \in T : n <= m
<1>1. PICK n \in T : \A m \in T : ~(<<m, n>> \in OpToRel(<, Nat))
  BY WFMin, NatLessThanWellFounded
<1>2. \A m \in T : ~(m < n)
  BY <1>1 DEF OpToRel
<1>. QED
  BY <1>2

\* f starts at e and takes the steps 1 to n.
IsRun(f, e, step, n) ==
    f[0] = e /\ \A i \in 1 .. n : f[i] = step[i][f[i - 1]]

\* There is a run of every list of steps.
LEMMA RunExists ==
  ASSUME NEW S, NEW e \in S, NEW n \in Nat, NEW step \in [1 .. n -> [S -> S]]
  PROVE  \E f \in [0 .. n -> S] : IsRun(f, e, step, n)
<1>. DEFINE Bad == {m \in Nat : m <= n /\ ~ \E f \in [0 .. m -> S] : IsRun(f, e, step, m)}
<1>1. SUFFICES Bad = {}
  OBVIOUS
<1>2. SUFFICES ASSUME Bad # {} PROVE FALSE
  OBVIOUS
<1>3. PICK m \in Bad : \A k \in Bad : m <= k
  <2>1. Bad \in SUBSET Nat
    OBVIOUS
  <2>. HIDE DEF Bad
  <2>. QED
    BY <1>2, <2>1, LeastNumber
<1>4. CASE m = 0
  <2>1. IsRun([i \in 0 .. 0 |-> e], e, step, 0)
    BY DEF IsRun
  <2>. QED
    BY <1>3, <1>4, <2>1
<1>5. CASE m # 0
  <2>1. m \in Nat /\ m <= n /\ m - 1 \in Nat /\ m - 1 \notin Bad
    <3>1. m \in Nat /\ m <= n
      BY <1>3
    <3>. HIDE DEF Bad
    <3>. QED
      BY <1>3, <1>5, <3>1
  <2>2. PICK g \in [0 .. m - 1 -> S] : IsRun(g, e, step, m - 1)
    BY <2>1
  <2>. DEFINE h == [i \in 0 .. m |-> IF i < m THEN g[i] ELSE step[m][g[m - 1]]]
  <2>3. m \in 1 .. n /\ m - 1 \in 0 .. m - 1 /\ m \in 0 .. m /\ 0 \in 0 .. m - 1 /\ 0 \in 0 .. m
    BY <1>5, <2>1
  <2>4. h \in [0 .. m -> S]
    <3>1. step[m][g[m - 1]] \in S
      BY <2>2, <2>3
    <3>2. \A i \in 0 .. m : i < m => g[i] \in S
      BY <2>1, <2>2
    <3>. QED
      BY <3>1, <3>2
  <2>5. h[0] = e
    BY <1>5, <2>1, <2>2, <2>3 DEF IsRun
  <2>6. \A i \in 1 .. m : h[i] = step[i][h[i - 1]]
    <3>. TAKE i \in 1 .. m
    <3>1. i \in 0 .. m /\ i - 1 \in 0 .. m /\ i - 1 < m
      BY <2>1
    <3>2. h[i - 1] = g[i - 1]
      BY <3>1
    <3>3. CASE i = m
      BY <2>1, <3>1, <3>2, <3>3
    <3>4. CASE i < m
      <4>1. i \in 1 .. m - 1
        BY <2>1, <3>4
      <4>. QED
        BY <2>2, <3>1, <3>2, <3>4, <4>1 DEF IsRun
    <3>. QED
      BY <2>1, <3>3, <3>4
  <2>7. IsRun(h, e, step, m)
    <3>. HIDE DEF h
    <3>. QED
      BY <2>5, <2>6 DEF IsRun
  <2>. QED
    BY <1>3, <2>4, <2>7
<1>. QED
  BY <1>4, <1>5

\* Two runs of the same steps from the same start are the same.
LEMMA RunIsOne ==
  ASSUME NEW n \in Nat, NEW f, NEW g, NEW e, NEW step, IsRun(f, e, step, n), IsRun(g, e, step, n)
  PROVE  \A i \in 0 .. n : f[i] = g[i]
<1>. DEFINE Bad == {i \in 0 .. n : f[i] # g[i]}
<1>1. SUFFICES ASSUME Bad # {} PROVE FALSE
  OBVIOUS
<1>2. PICK m \in Bad : \A k \in Bad : m <= k
  <2>1. Bad \in SUBSET Nat
    OBVIOUS
  <2>. HIDE DEF Bad
  <2>. QED
    BY <1>1, <2>1, LeastNumber
<1>3. m # 0
  BY <1>2 DEF IsRun
<1>4. m \in 1 .. n /\ m - 1 \in 0 .. n
  BY <1>2, <1>3
<1>5. m - 1 \notin Bad
  <2>. HIDE DEF Bad
  <2>. QED
    BY <1>2, <1>4
<1>6. f[m - 1] = g[m - 1]
  BY <1>4, <1>5
<1>. QED
  BY <1>2, <1>4, <1>6 DEF IsRun

----------------------------------------------------------------------------
(* The text of a list of lines. *)

TextLines == Seq(Glyphs)
Texts == Seq(Characters)

LEMMA LinesAreTexts ==
  /\ NL \in Characters /\ NL \notin Glyphs /\ CR \notin Glyphs /\ NL # CR
  /\ J \in Glyphs /\ Space \in Glyphs /\ Letters \subseteq Glyphs
  /\ Characters = Glyphs \cup {NL, CR}
  /\ <<NL>> \in Texts /\ <<>> \in Texts /\ <<>> \in TextLines
  /\ \A l \in TextLines : l \in Texts /\ \A i \in 1 .. Len(l) : l[i] # NL
<1>1. NL \in Characters /\ NL \notin Glyphs /\ CR \notin Glyphs /\ Glyphs \subseteq Characters
  BY CharactersAssumption DEF Characters
<1>2. ASSUME NEW l \in TextLines PROVE l \in Texts /\ \A i \in 1 .. Len(l) : l[i] # NL
  BY <1>1, SeqMonotonic, ElementOfSeq DEF TextLines, Texts
<1>. QED
  BY <1>1, <1>2, CharactersAssumption, EmptySeq DEF Texts, TextLines, Glyphs, Characters

\* Joining texts.
LEMMA TextsJoin ==
  /\ \A s, t \in Texts : s \o t \in Texts /\ Len(s \o t) = Len(s) + Len(t)
  /\ \A s \in Texts : s \o <<>> = s /\ <<>> \o s = s
  /\ \A r, s, t \in Texts : (r \o s) \o t = r \o (s \o t)
  /\ \A s \in Texts, c \in Characters : Append(s, c) \in Texts /\ Append(s, c) = s \o <<c>> /\ <<c>> \in Texts
  /\ \A s \in Texts : Len(s) \in Nat /\ (Len(s) = 0 <=> s = <<>>)
<1>1. ASSUME NEW s \in Texts, NEW t \in Texts PROVE s \o t \in Texts /\ Len(s \o t) = Len(s) + Len(t)
  BY ConcatProperties DEF Texts
<1>2. ASSUME NEW s \in Texts PROVE s \o <<>> = s /\ <<>> \o s = s
  BY ConcatEmptySeq DEF Texts
<1>3. ASSUME NEW r \in Texts, NEW s \in Texts, NEW t \in Texts PROVE (r \o s) \o t = r \o (s \o t)
  <2>1. r \in Seq(Characters) /\ s \in Seq(Characters) /\ t \in Seq(Characters)
    BY DEF Texts
  <2>. QED
    BY <2>1, ConcatAssociative
<1>4. ASSUME NEW s \in Texts, NEW c \in Characters
      PROVE  Append(s, c) \in Texts /\ Append(s, c) = s \o <<c>> /\ <<c>> \in Texts
  BY AppendIsConcat, AppendProperties DEF Texts
<1>5. ASSUME NEW s \in Texts PROVE Len(s) \in Nat /\ (Len(s) = 0 <=> s = <<>>)
  BY EmptySeq, LenProperties DEF Texts
<1>. QED
  BY <1>1, <1>2, <1>3, <1>4, <1>5

LEMMA Associate ==
  ASSUME NEW r \in Texts, NEW s \in Texts, NEW t \in Texts
  PROVE  (r \o s) \o t = r \o (s \o t)
BY TextsJoin

EndSteps(ls) == [i \in 1 .. Len(ls) |-> [t \in Texts |-> t \o Append(ls[i], NL)]]

\* Ended is the end of a run that adds a line and its line feed at a time.
LEMMA EndedIs ==
  ASSUME NEW ls \in Seq(TextLines)
  PROVE  \E g \in [0 .. Len(ls) -> Texts] : IsRun(g, <<>>, EndSteps(ls), Len(ls)) /\ Ended(ls) = g[Len(ls)]
<1>. DEFINE n == Len(ls)
            Is(g) == g = [i \in 0 .. n |-> IF i = 0 THEN <<>> ELSE g[i - 1] \o Append(ls[i], NL)]
<1>1. n \in Nat /\ \A i \in 1 .. n : Append(ls[i], NL) \in Texts
  <2>1. n \in Nat /\ \A i \in 1 .. n : ls[i] \in TextLines
    BY ElementOfSeq
  <2>. HIDE DEF n
  <2>2. \A i \in 1 .. n : ls[i] \in Texts
    BY <2>1, LinesAreTexts
  <2>. QED
    BY <2>1, <2>2, LinesAreTexts, AppendProperties DEF Texts
<1>a. ASSUME NEW i \in 1 .. n, NEW t \in Texts PROVE t \o Append(ls[i], NL) \in Texts
  BY <1>1, ConcatProperties DEF Texts
<1>2. EndSteps(ls) \in [1 .. n -> [Texts -> Texts]]
  BY <1>a DEF EndSteps
<1>3. \E g : Is(g)
  <2>1. PICK g \in [0 .. n -> Texts] : IsRun(g, <<>>, EndSteps(ls), n)
    <3>. HIDE DEF n
    <3>. QED
      BY <1>1, <1>2, RunExists, LinesAreTexts
  <2>2. \A i \in 0 .. n : g[i] = IF i = 0 THEN <<>> ELSE g[i - 1] \o Append(ls[i], NL)
    <3>. TAKE i \in 0 .. n
    <3>1. i # 0 => i \in 1 .. n /\ i - 1 \in 0 .. n
      BY <1>1
    <3>. QED
      BY <2>1, <3>1 DEF IsRun, EndSteps
  <2>. QED
    BY <2>1, <2>2
<1>4. Ended(ls) = (CHOOSE g : Is(g))[n]
  BY DEF Ended
<1>5. PICK g : Is(g) /\ Ended(ls) = g[n]
  <2>. HIDE DEF Is
  <2>. QED
    BY <1>3, <1>4
<1>6. DOMAIN g = 0 .. n /\ g = [i \in 0 .. n |-> g[i]]
  BY <1>5
<1>7. \A i \in 0 .. n : g[i] = IF i = 0 THEN <<>> ELSE g[i - 1] \o Append(ls[i], NL)
  BY <1>5
<1>8. \A i \in 0 .. n : g[i] \in Texts
  <2>. DEFINE Bad == {i \in 0 .. n : g[i] \notin Texts}
  <2>1. SUFFICES ASSUME Bad # {} PROVE FALSE
    OBVIOUS
  <2>2. PICK m \in Bad : \A k \in Bad : m <= k
    <3>1. Bad \in SUBSET Nat
      BY <1>1
    <3>. HIDE DEF Bad
    <3>. QED
      BY <2>1, <3>1, LeastNumber
  <2>3. m # 0
    BY <1>1, <1>7, <2>2, LinesAreTexts
  <2>4. m \in 1 .. n /\ m - 1 \in 0 .. n /\ m \in 0 .. n
    BY <1>1, <2>2, <2>3
  <2>5. m - 1 \notin Bad
    <3>. HIDE DEF Bad
    <3>. QED
      BY <2>2, <2>4
  <2>6. g[m - 1] \in Texts /\ g[m] = g[m - 1] \o Append(ls[m], NL)
    BY <1>7, <2>3, <2>4, <2>5
  <2>. QED
    BY <1>a, <2>2, <2>4, <2>6
<1>9. g \in [0 .. n -> Texts]
  BY <1>6, <1>8
<1>10. IsRun(g, <<>>, EndSteps(ls), n)
  <2>1. g[0] = <<>>
    BY <1>1, <1>7
  <2>2. \A i \in 1 .. n : g[i] = EndSteps(ls)[i][g[i - 1]]
    <3>. TAKE i \in 1 .. n
    <3>1. i \in 0 .. n /\ i - 1 \in 0 .. n /\ i # 0
      BY <1>1
    <3>. QED
      BY <1>7, <1>8, <3>1 DEF EndSteps
  <2>. QED
    BY <2>1, <2>2 DEF IsRun
<1>. QED
  BY <1>5, <1>9, <1>10

\* No lines have no text, and a line is added with its line feed.
LEMMA EndedRules ==
  ASSUME NEW ls \in Seq(TextLines), NEW l \in TextLines
  PROVE  /\ Ended(<<>>) = <<>> /\ Ended(ls) \in Texts
         /\ Ended(Append(ls, l)) = Ended(ls) \o Append(l, NL)
<1>1. Ended(<<>>) = <<>>
  <2>1. <<>> \in Seq(TextLines) /\ Len(<<>>) = 0
    BY EmptySeq
  <2>. QED
    BY <2>1, EndedIs DEF IsRun
<1>. DEFINE q == Append(ls, l)
            n == Len(ls)
<1>2. q \in Seq(TextLines) /\ Len(q) = n + 1 /\ n \in Nat /\ q[n + 1] = l /\ \A i \in 1 .. n : q[i] = ls[i]
  BY AppendProperties, LenProperties
<1>3. PICK g \in [0 .. n -> Texts] : IsRun(g, <<>>, EndSteps(ls), n) /\ Ended(ls) = g[n]
  BY EndedIs
<1>4. PICK h \in [0 .. n + 1 -> Texts] : IsRun(h, <<>>, EndSteps(q), n + 1) /\ Ended(q) = h[n + 1]
  <2>. HIDE DEF q, n
  <2>. QED
    BY <1>2, EndedIs
<1>5. IsRun(h, <<>>, EndSteps(ls), n)
  <2>. HIDE DEF q
  <2>1. h[0] = <<>>
    BY <1>4 DEF IsRun
  <2>2. \A i \in 1 .. n : h[i] = EndSteps(ls)[i][h[i - 1]]
    <3>. TAKE i \in 1 .. n
    <3>1. i \in 1 .. n + 1
      BY <1>2
    <3>2. h[i] = EndSteps(q)[i][h[i - 1]]
      BY <1>4, <3>1 DEF IsRun
    <3>3. EndSteps(q)[i] = EndSteps(ls)[i]
      BY <1>2, <3>1 DEF EndSteps
    <3>. QED
      BY <3>2, <3>3
  <2>. QED
    BY <2>1, <2>2 DEF IsRun
<1>6. h[n] = g[n]
  <2>. HIDE DEF n
  <2>. QED
    BY <1>2, <1>3, <1>5, RunIsOne
<1>7. h[n + 1] = h[n] \o Append(l, NL)
  <2>. HIDE DEF q, n
  <2>1. n + 1 \in 1 .. n + 1 /\ (n + 1) - 1 = n
    BY <1>2
  <2>2. h[n + 1] = EndSteps(q)[n + 1][h[n]]
    BY <1>4, <2>1 DEF IsRun
  <2>3. h[n] \in Texts
    BY <1>2, <1>4
  <2>. QED
    BY <1>2, <2>1, <2>2, <2>3 DEF EndSteps
<1>8. n \in 0 .. n /\ Ended(ls) \in Texts
  <2>. HIDE DEF n
  <2>. QED
    BY <1>2, <1>3
<1>. QED
  BY <1>1, <1>2, <1>3, <1>4, <1>6, <1>7, <1>8

\* The lines of two lists are those of one and then those of the other.
LEMMA EndedBoth ==
  ASSUME NEW a \in Seq(TextLines), NEW b \in Seq(TextLines)
  PROVE  Ended(a \o b) = Ended(a) \o Ended(b)
<1>. DEFINE Upto(k) == SubSeq(b, 1, k)
            Bad == {k \in 0 .. Len(b) : Ended(a \o Upto(k)) # Ended(a) \o Ended(Upto(k))}
<1>0. Len(b) \in Nat /\ Upto(Len(b)) = b
  BY SubSeqFull, LenProperties
<1>1. SUFFICES ASSUME Bad # {} PROVE FALSE
  <2>. SUFFICES ASSUME Bad = {} PROVE Ended(a \o b) = Ended(a) \o Ended(b)
    OBVIOUS
  <2>1. Len(b) \in 0 .. Len(b)
    BY <1>0
  <2>. HIDE DEF Upto
  <2>2. Ended(a \o Upto(Len(b))) = Ended(a) \o Ended(Upto(Len(b)))
    BY <2>1
  <2>. QED
    BY <1>0, <2>2
<1>2. PICK m \in Bad : \A k \in Bad : m <= k
  <2>1. Bad \in SUBSET Nat
    BY <1>0
  <2>. HIDE DEF Bad
  <2>. QED
    BY <1>1, <2>1, LeastNumber
<1>3. m # 0
  <2>1. Upto(0) = <<>> /\ a \o <<>> = a /\ Ended(<<>>) = <<>> /\ Ended(a) \in Texts
    BY SubSeqEmpty, ConcatEmptySeq, EndedRules, LinesAreTexts
  <2>2. Ended(a) \o <<>> = Ended(a)
    BY <2>1, ConcatEmptySeq DEF Texts
  <2>. QED
    BY <1>2, <2>1, <2>2
<1>4. m \in 1 .. Len(b) /\ m - 1 \in 0 .. Len(b) /\ 1 \in 1 .. Len(b)
  BY <1>0, <1>2, <1>3
<1>5. m - 1 \notin Bad
  <2>. HIDE DEF Bad
  <2>. QED
    BY <1>2, <1>4, <1>0
<1>. DEFINE c == Upto(m - 1)
            l == b[m]
<1>6. c \in Seq(TextLines) /\ l \in TextLines /\ <<l>> \in Seq(TextLines)
  <2>1. \A i \in 1 .. m - 1 : b[i] \in TextLines
    BY <1>0, <1>4, ElementOfSeq
  <2>2. c \in Seq(TextLines)
    BY <1>0, <1>4, <2>1, SubSeqProperties
  <2>. QED
    BY <1>4, <2>2, ElementOfSeq
<1>7. Upto(m) = Append(c, l)
  <2>1. SubSeq(b, 1, m) = SubSeq(b, 1, m - 1) \o <<b[m]>>
    BY <1>4, SubSeqRecursiveSecond
  <2>. QED
    BY <1>6, <2>1, AppendIsConcat
<1>8. a \o Upto(m) = Append(a \o c, l) /\ a \o c \in Seq(TextLines)
  <2>. HIDE DEF c, l, Upto
  <2>1. a \o c \in Seq(TextLines)
    BY <1>6, ConcatProperties
  <2>2. a \o (c \o <<l>>) = (a \o c) \o <<l>>
    BY <1>6, ConcatAssociative
  <2>. QED
    BY <1>6, <1>7, <2>1, <2>2, AppendIsConcat
<1>9. Ended(a \o c) = Ended(a) \o Ended(c)
  BY <1>4, <1>5
<1>10. Ended(Upto(m)) = Ended(c) \o Append(l, NL) /\ Ended(a \o Upto(m)) = Ended(a \o c) \o Append(l, NL)
  <2>. HIDE DEF c, l, Upto
  <2>. QED
    BY <1>6, <1>7, <1>8, EndedRules
<1>11. Append(l, NL) \in Texts /\ Ended(a) \in Texts /\ Ended(c) \in Texts
  <2>. HIDE DEF c, l, Upto
  <2>. QED
    BY <1>6, EndedRules, LinesAreTexts, AppendProperties DEF Texts
<1>12. Ended(a \o Upto(m)) = Ended(a) \o Ended(Upto(m))
  <2>. HIDE DEF c, l, Upto
  <2>1. (Ended(a) \o Ended(c)) \o Append(l, NL) = Ended(a) \o (Ended(c) \o Append(l, NL))
    BY <1>11, TextsJoin
  <2>. QED
    BY <1>9, <1>10, <2>1
<1>. QED
  BY <1>2, <1>12

----------------------------------------------------------------------------
(* The text of a buffer, around the line of the cursor. *)

\* Taking a sequence apart where two parts meet.
LEMMA SeqParts ==
  ASSUME NEW S, NEW a \in Seq(S), NEW b \in Seq(S)
  PROVE  /\ SubSeq(a \o b, 1, Len(a)) = a
         /\ SubSeq(a \o b, Len(a) + 1, Len(a \o b)) = b
<1>. DEFINE t == a \o b
            v == SubSeq(t, 1, Len(a))
            w == SubSeq(t, Len(a) + 1, Len(t))
<1>1. t \in Seq(S) /\ Len(t) = Len(a) + Len(b) /\ Len(a) \in Nat /\ Len(b) \in Nat
      /\ \A i \in 1 .. Len(a) + Len(b) : t[i] = IF i <= Len(a) THEN a[i] ELSE b[i - Len(a)]
  BY ConcatProperties, LenProperties
<1>. HIDE DEF t
<1>2. \A i \in 1 .. Len(t) : t[i] \in S
  BY <1>1, ElementOfSeq
<1>3. v = a
  <2>1. v \in Seq(S) /\ Len(v) = Len(a) /\ \A i \in 1 .. Len(a) : v[i] = t[i]
    <3>1. \A i \in 1 .. Len(a) : t[i] \in S
      BY <1>1, <1>2
    <3>2. v = [i \in 1 .. Len(a) |-> t[i]]
      BY <1>1
    <3>. HIDE DEF v
    <3>. QED
      BY <1>1, <3>1, <3>2, IsASeq
  <2>2. \A i \in 1 .. Len(v) : v[i] = a[i]
    <3>. HIDE DEF v
    <3>. QED
      BY <1>1, <2>1
  <2>. HIDE DEF v
  <2>. QED
    BY <2>1, <2>2, SeqEqual
<1>4. w = b
  <2>1. w \in Seq(S) /\ Len(w) = Len(b) /\ \A i \in 1 .. Len(b) : w[i] = t[Len(a) + i]
    <3>1. \A i \in 1 .. Len(b) : t[Len(a) + i] \in S
      BY <1>1, <1>2
    <3>2. w = [i \in 1 .. Len(b) |-> t[Len(a) + i]]
      BY <1>1
    <3>. HIDE DEF w
    <3>. QED
      BY <1>1, <3>1, <3>2, IsASeq
  <2>2. \A i \in 1 .. Len(w) : w[i] = b[i]
    <3>. TAKE i \in 1 .. Len(w)
    <3>1. i \in 1 .. Len(b) /\ Len(a) + i \in 1 .. Len(a) + Len(b) /\ ~ (Len(a) + i <= Len(a)) /\ (Len(a) + i) - Len(a) = i
      <4>. HIDE DEF w
      <4>. QED
        BY <1>1, <2>1
    <3>. HIDE DEF w
    <3>. QED
      BY <1>1, <2>1, <3>1
  <2>. HIDE DEF w
  <2>. QED
    BY <2>1, <2>2, SeqEqual
<1>. QED
  BY <1>3, <1>4 DEF t

LEMMA Parts ==
  ASSUME NEW a \in Texts, NEW b \in Texts
  PROVE  /\ SubSeq(a \o b, 1, Len(a)) = a
         /\ SubSeq(a \o b, Len(a) + 1, Len(a \o b)) = b
BY SeqParts DEF Texts

\* All but the last element.
LEMMA FrontRules ==
  ASSUME NEW S, NEW s \in Seq(S), NEW t \in Seq(S), t # <<>>
  PROVE  /\ Front(t) \in Seq(S) /\ Len(Front(t)) = Len(t) - 1
         /\ \A i \in 1 .. Len(t) - 1 : Front(t)[i] = t[i]
         /\ Front(s \o t) = s \o Front(t)
<1>1. Len(s) \in Nat /\ Len(t) \in Nat \ {0}
  BY EmptySeq, LenProperties
<1>2. /\ Front(t) \in Seq(S) /\ Len(Front(t)) = Len(t) - 1
      /\ \A i \in 1 .. Len(t) - 1 : Front(t)[i] = t[i]
  <2>1. \A i \in 1 .. Len(t) - 1 : t[i] \in S
    BY <1>1, ElementOfSeq
  <2>2. Front(t) = [i \in 1 .. Len(t) - 1 |-> t[i]]
    BY <1>1 DEF Front
  <2>. QED
    BY <1>1, <2>1, <2>2, IsASeq
<1>. DEFINE u == s \o t
<1>3. u \in Seq(S) /\ Len(u) = Len(s) + Len(t)
      /\ \A i \in 1 .. Len(s) + Len(t) : u[i] = IF i <= Len(s) THEN s[i] ELSE t[i - Len(s)]
  BY ConcatProperties
<1>4. /\ Front(u) \in Seq(S) /\ Len(Front(u)) = Len(u) - 1
      /\ \A i \in 1 .. Len(u) - 1 : Front(u)[i] = u[i]
  <2>. HIDE DEF u
  <2>1. \A i \in 1 .. Len(u) - 1 : u[i] \in S
    BY <1>1, <1>3, ElementOfSeq
  <2>2. Len(u) \in Nat \ {0} /\ Front(u) = [i \in 1 .. Len(u) - 1 |-> u[i]]
    BY <1>1, <1>3 DEF Front
  <2>. QED
    BY <2>1, <2>2, IsASeq
<1>5. /\ s \o Front(t) \in Seq(S) /\ Len(s \o Front(t)) = Len(s) + Len(t) - 1
      /\ \A i \in 1 .. Len(s) + Len(t) - 1 :
            (s \o Front(t))[i] = IF i <= Len(s) THEN s[i] ELSE Front(t)[i - Len(s)]
  <2>1. /\ s \o Front(t) \in Seq(S) /\ Len(s \o Front(t)) = Len(s) + Len(Front(t))
        /\ \A i \in 1 .. Len(s) + Len(Front(t)) :
              (s \o Front(t))[i] = IF i <= Len(s) THEN s[i] ELSE Front(t)[i - Len(s)]
    BY <1>2, ConcatProperties
  <2>2. Len(s) + Len(Front(t)) = Len(s) + Len(t) - 1
    BY <1>1, <1>2
  <2>. QED
    BY <2>1, <2>2
<1>. DEFINE v == Front(u)
            w == s \o Front(t)
<1>6. \A i \in 1 .. Len(v) : v[i] = w[i]
  <2>. TAKE i \in 1 .. Len(v)
  <2>1. Len(v) = Len(s) + Len(t) - 1
    <3>. HIDE DEF u
    <3>. QED
      BY <1>1, <1>3, <1>4
  <2>2. v[i] = IF i <= Len(s) THEN s[i] ELSE t[i - Len(s)]
    <3>. HIDE DEF u
    <3>. QED
      BY <1>1, <1>3, <1>4, <2>1
  <2>3. w[i] = IF i <= Len(s) THEN s[i] ELSE Front(t)[i - Len(s)]
    <3>. HIDE DEF v, w
    <3>1. i \in 1 .. Len(s) + Len(t) - 1
      BY <2>1
    <3>. QED
      BY <1>5, <3>1 DEF w
  <2>4. ASSUME ~ (i <= Len(s)) PROVE Front(t)[i - Len(s)] = t[i - Len(s)]
    <3>. HIDE DEF v
    <3>1. i - Len(s) \in 1 .. Len(t) - 1
      BY <1>1, <2>1, <2>4
    <3>. QED
      BY <1>2, <3>1
  <2>. HIDE DEF v, w
  <2>. QED
    BY <2>2, <2>3, <2>4
<1>7. v = w
  <2>1. v \in Seq(S) /\ w \in Seq(S) /\ Len(v) = Len(w)
    <3>. HIDE DEF u
    <3>. QED
      BY <1>1, <1>3, <1>4, <1>5
  <2>. HIDE DEF v, w
  <2>. QED
    BY <1>6, <2>1, SeqEqual
<1>. QED
  BY <1>2, <1>7

\* What follows a line whose lower neighbours are ls.
Rest(ls) == Front(<<NL>> \o Ended(ls))

LEMMA RestIsText ==
  ASSUME NEW ls \in Seq(TextLines)
  PROVE  /\ Rest(ls) \in Texts /\ Rest(<<>>) = <<>>
         /\ ls # <<>> => Rest(ls) # <<>> /\ Rest(ls)[1] = NL
<1>1. Ended(ls) \in Texts /\ <<NL>> \in Texts /\ Ended(<<>>) = <<>>
  BY EndedRules, LinesAreTexts
<1>. DEFINE t == <<NL>> \o Ended(ls)
<1>2. t \in Texts /\ t # <<>> /\ Len(t) = 1 + Len(Ended(ls)) /\ t[1] = NL /\ Len(Ended(ls)) \in Nat
  BY <1>1, ConcatProperties, LenProperties, EmptySeq DEF Texts
<1>3. Rest(ls) \in Texts /\ Len(Rest(ls)) = Len(t) - 1 /\ \A i \in 1 .. Len(t) - 1 : Rest(ls)[i] = t[i]
  <2>. HIDE DEF t
  <2>. QED
    BY <1>2, FrontRules DEF Texts, Rest, t
<1>4. Rest(<<>>) = <<>>
  <2>1. <<NL>> \o <<>> = <<NL>>
    BY <1>1, ConcatEmptySeq DEF Texts
  <2>2. Front(<<NL>>) = <<>>
    BY SubSeqEmpty DEF Front
  <2>. QED
    BY <1>1, <2>1, <2>2 DEF Rest
<1>5. ASSUME ls # <<>> PROVE Ended(ls) # <<>>
  <2>1. PICK k \in Seq(TextLines), l \in TextLines : ls = Append(k, l)
    BY <1>5, SequenceEmptyOrAppend
  <2>2. Ended(ls) = Ended(k) \o Append(l, NL) /\ Ended(k) \in Texts
    BY <2>1, EndedRules
  <2>3. Append(l, NL) \in Texts /\ Append(l, NL) # <<>>
    <3>1. l \in Seq(Characters) /\ NL \in Characters
      BY LinesAreTexts DEF Texts
    <3>. QED
      BY <3>1, AppendProperties DEF Texts
  <2>. QED
    BY <2>2, <2>3, ConcatEqualIffEmpty DEF Texts
<1>6. ASSUME ls # <<>> PROVE Len(Rest(ls)) > 0 /\ Rest(ls)[1] = NL
  <2>1. Len(Ended(ls)) > 0
    BY <1>1, <1>5, <1>6, EmptySeq DEF Texts
  <2>. HIDE DEF t
  <2>. QED
    BY <1>2, <1>3, <2>1
<1>. QED
  BY <1>3, <1>4, <1>6, EmptySeq DEF Texts

\* A line between others: their text, it and the rest.
LEMMA TextAround ==
  ASSUME NEW u \in Seq(TextLines), NEW l \in TextLines, NEW d \in Seq(TextLines)
  PROVE  Front(Ended(u \o <<l>> \o d)) = (Ended(u) \o l) \o Rest(d)
<1>1. <<l>> \in Seq(TextLines) /\ u \o <<l>> \in Seq(TextLines) /\ u \o <<l>> = Append(u, l)
  BY ConcatProperties, AppendIsConcat
<1>2. Ended(u \o <<l>> \o d) = (Ended(u) \o Append(l, NL)) \o Ended(d)
  <2>1. Ended((u \o <<l>>) \o d) = Ended(u \o <<l>>) \o Ended(d)
    BY <1>1, EndedBoth
  <2>2. Ended(Append(u, l)) = Ended(u) \o Append(l, NL)
    BY EndedRules
  <2>. QED
    BY <1>1, <2>1, <2>2
<1>3. Ended(u) \in Texts /\ l \in Texts /\ <<NL>> \in Texts /\ Ended(d) \in Texts /\ NL \in Characters
  BY EndedRules, LinesAreTexts
<1>4. Append(l, NL) = l \o <<NL>> /\ l \o <<NL>> \in Texts /\ Ended(u) \o l \in Texts
      /\ <<NL>> \o Ended(d) \in Texts
  BY <1>3, TextsJoin
<1>5. (Ended(u) \o (l \o <<NL>>)) \o Ended(d) = (Ended(u) \o l) \o (<<NL>> \o Ended(d))
  <2>1. Ended(u) \o (l \o <<NL>>) = (Ended(u) \o l) \o <<NL>>
    BY <1>3, TextsJoin
  <2>2. ((Ended(u) \o l) \o <<NL>>) \o Ended(d) = (Ended(u) \o l) \o (<<NL>> \o Ended(d))
    <3>1. ASSUME NEW r \in Texts, NEW s \in Texts, NEW t \in Texts PROVE (r \o s) \o t = r \o (s \o t)
      BY TextsJoin
    <3>. QED
      BY ONLY <1>3, <1>4, <3>1
  <2>. QED
    BY <2>1, <2>2
<1>6. <<NL>> \o Ended(d) # <<>>
  BY <1>3, ConcatEqualIffEmpty DEF Texts
<1>7. Front((Ended(u) \o l) \o (<<NL>> \o Ended(d))) = (Ended(u) \o l) \o Front(<<NL>> \o Ended(d))
  BY <1>4, <1>6, FrontRules DEF Texts
<1>. QED
  BY <1>2, <1>4, <1>5, <1>7 DEF Rest

\* The lines over and under the cursor, and their text.
Upper(e) == SubSeq(e.lines, 1, e.row - 1)
Lower(e) == SubSeq(e.lines, e.row + 1, Len(e.lines))
Above(e) == Ended(Upper(e))
Behind(e) == Rest(Lower(e))

LEMMA BufferIs ==
  ASSUME NEW e, Buffer(e)
  PROVE  /\ e.lines \in Seq(TextLines) /\ e.row \in 1 .. Len(e.lines) /\ e.col \in 0 .. Len(Line(e))
         /\ Len(e.lines) \in 1 .. MaxLines /\ e.modified \in BOOLEAN
         /\ Line(e) \in TextLines /\ Len(Line(e)) \in Nat /\ Len(Line(e)) < MaxLen
         /\ Upper(e) \in Seq(TextLines) /\ Len(Upper(e)) = e.row - 1
         /\ Lower(e) \in Seq(TextLines) /\ Len(Lower(e)) = Len(e.lines) - e.row
         /\ e.lines = Upper(e) \o <<Line(e)>> \o Lower(e)
<1>1. /\ e.lines \in Seq(TextLines) /\ Len(e.lines) \in 1 .. MaxLines /\ e.row \in 1 .. Len(e.lines)
      /\ e.col \in 0 .. Len(Line(e)) /\ e.modified \in BOOLEAN
  BY DEF Buffer, TextLines
<1>2. Line(e) \in TextLines /\ Len(Line(e)) \in Nat /\ Len(Line(e)) < MaxLen
  BY <1>1, LenProperties DEF Line, Buffer, TextLines
<1>3. /\ Upper(e) \in Seq(TextLines) /\ Len(Upper(e)) = e.row - 1
      /\ Lower(e) \in Seq(TextLines) /\ Len(Lower(e)) = Len(e.lines) - e.row
  <2>1. \A i \in 1 .. Len(e.lines) : e.lines[i] \in TextLines
    BY <1>1
  <2>. QED
    BY <1>1, <2>1, SubSeqProperties DEF Upper, Lower
<1>4. e.lines = Upper(e) \o <<Line(e)>> \o Lower(e)
  <2>1. SubSeq(e.lines, 1, e.row) = Upper(e) \o <<Line(e)>>
    <3>1. 1 \in 1 .. Len(e.lines) /\ e.row \in 1 .. Len(e.lines)
      BY <1>1
    <3>2. SubSeq(e.lines, 1, e.row) = SubSeq(e.lines, 1, e.row - 1) \o <<e.lines[e.row]>>
      BY <1>1, <3>1, SubSeqRecursiveSecond
    <3>. QED
      BY <3>2 DEF Upper, Line
  <2>2. SubSeq(e.lines, 1, e.row) \o Lower(e) = SubSeq(e.lines, 1, Len(e.lines))
    <3>1. 1 \in 1 .. Len(e.lines) + 1 /\ e.row \in 1 - 1 .. Len(e.lines) /\ Len(e.lines) \in e.row .. Len(e.lines)
      BY <1>1
    <3>2. SubSeq(e.lines, 1, e.row) \o SubSeq(e.lines, e.row + 1, Len(e.lines)) = SubSeq(e.lines, 1, Len(e.lines))
      BY <1>1, <3>1, ConcatAdjacentSubSeq
    <3>. QED
      BY <3>2 DEF Lower
  <2>3. SubSeq(e.lines, 1, Len(e.lines)) = e.lines
    BY <1>1, SubSeqFull
  <2>. QED
    BY <2>1, <2>2, <2>3
<1>. QED
  BY <1>1, <1>2, <1>3, <1>4

LEMMA TextIs ==
  ASSUME NEW e, Buffer(e)
  PROVE  /\ Above(e) \in Texts /\ Behind(e) \in Texts /\ Line(e) \in Texts
         /\ Text(e) = (Above(e) \o Line(e)) \o Behind(e) /\ Text(e) \in Texts
         /\ Len(Text(e)) = Len(Above(e)) + Len(Line(e)) + Len(Behind(e))
         /\ Place(e) = Len(Above(e)) + e.col
<1>1. Upper(e) \in Seq(TextLines) /\ Lower(e) \in Seq(TextLines) /\ Line(e) \in TextLines
      /\ e.lines = Upper(e) \o <<Line(e)>> \o Lower(e)
  BY BufferIs
<1>2. Above(e) \in Texts /\ Behind(e) \in Texts /\ Line(e) \in Texts
  BY <1>1, EndedRules, RestIsText, LinesAreTexts DEF Above, Behind
<1>3. Text(e) = (Above(e) \o Line(e)) \o Behind(e)
  <2>1. Front(Ended(Upper(e) \o <<Line(e)>> \o Lower(e))) = (Ended(Upper(e)) \o Line(e)) \o Rest(Lower(e))
    BY <1>1, TextAround
  <2>2. Text(e) = Front(Ended(e.lines))
    BY DEF Text
  <2>. QED
    BY <1>1, <2>1, <2>2 DEF Above, Behind
<1>4. Above(e) \o Line(e) \in Texts /\ Len(Above(e) \o Line(e)) = Len(Above(e)) + Len(Line(e))
  BY <1>2, ConcatProperties DEF Texts
<1>. QED
  BY <1>2, <1>3, <1>4, ConcatProperties DEF Texts, Place, Above, Upper

----------------------------------------------------------------------------
(* What one operation does to the text. *)

Same(e, f) == Text(f) = Text(e)

\* Some characters s appear at the place.
Types(e, f) ==
    \E a, s, b \in Texts :
        /\ Len(s) \in 1 .. Tab
        /\ Text(e) = a \o b /\ Place(e) = Len(a)
        /\ Text(f) = (a \o s) \o b /\ Place(f) = Len(a) + Len(s)

\* The character before the place goes.
Rubs(e, f) ==
    \E a, b \in Texts, c \in Characters :
        /\ Text(e) = (a \o <<c>>) \o b /\ Place(e) = Len(a) + 1
        /\ Text(f) = a \o b /\ Place(f) = Len(a)

\* The character under the place, not a line feed, goes.
Nips(e, f) ==
    \E a, b \in Texts, c \in Characters :
        /\ e.col < Len(Line(e))
        /\ Text(e) = (a \o <<c>>) \o b /\ Place(e) = Len(a)
        /\ Text(f) = a \o b /\ Place(f) = Len(a)

\* The line of the cursor goes, with one of the line feeds around it.
Cuts(e, f) ==
    \/ \E b \in Texts : Behind(e) = <<NL>> \o b /\ Text(f) = Above(e) \o b
    \/ \E a \in Texts : Behind(e) = <<>> /\ Above(e) = a \o <<NL>> /\ Text(f) = a
    \/ Behind(e) = <<>> /\ Above(e) = <<>> /\ Text(f) = <<>>

\* A line is opened under that of the cursor.
Opens(e, f) ==
    /\ Text(f) = (Above(e) \o Line(e)) \o (<<NL>> \o Behind(e))
    /\ Place(f) = Len(Above(e)) + Len(Line(e)) + 1

\* Where the line of the cursor starts and ends.
LEMMA LineBounds ==
  ASSUME NEW e, Buffer(e), Shown = e
  PROVE  /\ Promise!LineStart = Len(Above(e))
         /\ Promise!LineEnd = Len(Above(e)) + Len(Line(e))
<1>. DEFINE t == Text(e)
            p == Place(e)
            a == Len(Above(e))
            n == Len(Line(e))
<1>1. /\ a \in Nat /\ n \in Nat /\ e.col \in 0 .. n /\ p = a + e.col
      /\ Len(t) = a + n + Len(Behind(e)) /\ Len(Behind(e)) \in Nat
  BY TextIs, BufferIs, TextsJoin
<1>2. /\ \A i \in 1 .. a : t[i] = Above(e)[i]
      /\ \A i \in a + 1 .. a + n : t[i] = Line(e)[i - a]
      /\ \A i \in a + n + 1 .. Len(t) : t[i] = Behind(e)[i - a - n]
  <2>. DEFINE h == Above(e) \o Line(e)
  <2>1. h \in Texts /\ Len(h) = a + n
        /\ \A i \in 1 .. a + n : h[i] = IF i <= a THEN Above(e)[i] ELSE Line(e)[i - a]
    BY TextIs, ConcatProperties DEF Texts
  <2>. HIDE DEF h
  <2>2. \A i \in 1 .. Len(h) + Len(Behind(e)) :
            (h \o Behind(e))[i] = IF i <= Len(h) THEN h[i] ELSE Behind(e)[i - Len(h)]
    BY <2>1, TextIs, ConcatProperties DEF Texts
  <2>3. t = h \o Behind(e)
    BY TextIs DEF h
  <2>4. \A i \in 1 .. a + n + Len(Behind(e)) :
            t[i] = IF i <= a + n THEN IF i <= a THEN Above(e)[i] ELSE Line(e)[i - a]
                                 ELSE Behind(e)[i - (a + n)]
    <3>. HIDE DEF t, a, n
    <3>. QED
      BY <1>1, <2>1, <2>2, <2>3
  <2>. HIDE DEF t, a, n
  <2>. QED
    BY <1>1, <2>4
<1>3. \A k \in a + 1 .. a + n : t[k] # NL
  <2>1. \A i \in 1 .. n : Line(e)[i] # NL
    BY BufferIs, LinesAreTexts
  <2>. HIDE DEF t, a, n
  <2>2. \A k \in a + 1 .. a + n : k - a \in 1 .. n
    BY <1>1
  <2>. QED
    BY <1>2, <2>1, <2>2
<1>4. a = 0 \/ t[a] = NL
  <2>1. SUFFICES ASSUME a # 0 PROVE t[a] = NL
    OBVIOUS
  <2>2. Upper(e) # <<>> /\ Upper(e) \in Seq(TextLines)
    BY <2>1, BufferIs, EndedRules, EmptySeq DEF Above
  <2>3. PICK k \in Seq(TextLines), l \in TextLines : Upper(e) = Append(k, l)
    BY <2>2, SequenceEmptyOrAppend
  <2>4. Above(e) = Ended(k) \o Append(l, NL) /\ Ended(k) \in Texts /\ l \in Texts /\ NL \in Characters
    BY <2>3, EndedRules, LinesAreTexts DEF Above
  <2>5. Above(e) = Append(Ended(k) \o l, NL) /\ Ended(k) \o l \in Texts
    BY <2>4, TextsJoin
  <2>6. Above(e)[a] = NL
    BY <2>4, <2>5, AppendProperties DEF Texts
  <2>. HIDE DEF t, a, n
  <2>7. a \in 1 .. a
    BY <1>1, <2>1
  <2>. QED
    BY <1>2, <2>6, <2>7
<1>5. a + n = Len(t) \/ t[a + n + 1] = NL
  <2>1. SUFFICES ASSUME a + n # Len(t) PROVE t[a + n + 1] = NL
    OBVIOUS
  <2>2. Behind(e) # <<>>
    <3>. HIDE DEF t, a, n
    <3>. QED
      BY <1>1, <2>1, EmptySeq
  <2>3. Behind(e)[1] = NL
    BY <2>2, BufferIs, RestIsText DEF Behind
  <2>. HIDE DEF t, a, n
  <2>4. a + n + 1 \in a + n + 1 .. Len(t) /\ (a + n + 1) - a - n = 1
    BY <1>1, <2>1
  <2>. QED
    BY <1>2, <2>3, <2>4
<1>6. Promise!LineStart = CHOOSE m \in 0 .. p : (m = 0 \/ t[m] = NL) /\ \A k \in m + 1 .. p : t[k] # NL
  BY DEF Promise!LineStart
<1>7. Promise!LineEnd = CHOOSE m \in p .. Len(t) : /\ m = Len(t) \/ t[m + 1] = NL
                                                  /\ \A k \in p + 1 .. m : t[k] # NL
  BY DEF Promise!LineEnd
<1>. HIDE DEF t, p, a, n
<1>8. \A m \in 0 .. p : ((m = 0 \/ t[m] = NL) /\ \A k \in m + 1 .. p : t[k] # NL) <=> m = a
  <2>. TAKE m \in 0 .. p
  <2>1. CASE m = a
    BY <1>1, <1>3, <1>4, <2>1
  <2>2. CASE m < a
    <3>1. a \in m + 1 .. p /\ t[a] = NL
      BY <1>1, <1>4, <2>2
    <3>. QED
      BY <2>2, <3>1, <1>1
  <2>3. CASE m > a
    <3>1. m \in a + 1 .. a + n /\ m # 0
      BY <1>1, <2>3
    <3>. QED
      BY <1>3, <2>3, <3>1, <1>1
  <2>. QED
    BY <1>1, <2>1, <2>2, <2>3
<1>9. \A m \in p .. Len(t) :
         ((m = Len(t) \/ t[m + 1] = NL) /\ \A k \in p + 1 .. m : t[k] # NL) <=> m = a + n
  <2>. TAKE m \in p .. Len(t)
  <2>1. CASE m = a + n
    BY <1>1, <1>3, <1>5, <2>1
  <2>2. CASE m < a + n
    <3>1. m + 1 \in a + 1 .. a + n /\ m # Len(t)
      BY <1>1, <2>2
    <3>. QED
      BY <1>3, <2>2, <3>1, <1>1
  <2>3. CASE m > a + n
    <3>1. a + n + 1 \in p + 1 .. m /\ a + n # Len(t)
      BY <1>1, <2>3
    <3>. QED
      BY <1>5, <2>3, <3>1, <1>1
  <2>. QED
    BY <1>1, <2>1, <2>2, <2>3
<1>10. a \in 0 .. p /\ a + n \in p .. Len(t)
  BY <1>1
<1>11. Promise!LineStart = a
  BY <1>6, <1>8, <1>10
<1>12. Promise!LineEnd = a + n
  BY <1>7, <1>9, <1>10
<1>. QED
  BY <1>11, <1>12 DEF a, n

\* What an operation does to the text is a step of the promise.
LEMMA EditIsNext ==
  ASSUME NEW CONSTANT e, NEW CONSTANT f, Buffer(e), Shown = e, Shown' = f,
         Same(e, f) \/ Types(e, f) \/ Rubs(e, f) \/ Nips(e, f) \/ Cuts(e, f) \/ Opens(e, f)
  PROVE  Promise!Next
<1>. DEFINE t == Text(e)
            p == Place(e)
<1>1. Text(Shown) = t /\ Text(Shown)' = Text(f) /\ Place(Shown) = p /\ Place(Shown)' = Place(f)
  OBVIOUS
<1>2. /\ Above(e) \in Texts /\ Behind(e) \in Texts /\ Line(e) \in Texts /\ t \in Texts
      /\ t = (Above(e) \o Line(e)) \o Behind(e) /\ p = Len(Above(e)) + e.col
      /\ Len(t) = Len(Above(e)) + Len(Line(e)) + Len(Behind(e))
      /\ e.col \in 0 .. Len(Line(e))
  BY TextIs, BufferIs
<1>3. Promise!LineStart = Len(Above(e)) /\ Promise!LineEnd = Len(Above(e)) + Len(Line(e))
  BY LineBounds
<1>. HIDE DEF t, p
<1>4. CASE Same(e, f)
  BY <1>1, <1>4 DEF Same, Promise!Next, Promise!Move, t
<1>5. CASE Types(e, f)
  <2>1. PICK a \in Texts, s \in Texts, b \in Texts :
            /\ Len(s) \in 1 .. Tab
            /\ t = a \o b /\ p = Len(a)
            /\ Text(f) = (a \o s) \o b /\ Place(f) = Len(a) + Len(s)
    BY <1>5 DEF Types, t, p
  <2>2. SubSeq(t, 1, p) = a /\ SubSeq(t, p + 1, Len(t)) = b
    BY <2>1, Parts
  <2>3. a \o s \in Texts /\ Len(a \o s) = Len(a) + Len(s) /\ Len(Text(f)) = Len(a) + Len(s) + Len(b)
        /\ Len(t) = Len(a) + Len(b) /\ Len(a) \in Nat /\ Len(b) \in Nat /\ Len(s) \in Nat
    BY <2>1, TextsJoin
  <2>4. SubSeq(Text(f), Len(a) + 1, Len(a) + Len(s)) = s
    <3>1. SubSeq(a \o s, Len(a) + 1, Len(a \o s)) = s
      BY Parts
    <3>2. SubSeq((a \o s) \o b, Len(a) + 1, Len(a \o s)) = SubSeq(a \o s, Len(a) + 1, Len(a \o s))
      <4>1. a \o s \in Seq(Characters) /\ b \in Seq(Characters)
            /\ Len(a) + 1 \in 1 .. Len(a \o s) /\ Len(a \o s) \in 1 .. Len(a \o s)
        BY <2>1, <2>3 DEF Texts
      <4>. QED
        BY <4>1, SubSeqOfConcat1
    <3>. QED
      BY <2>1, <2>3, <3>1, <3>2
  <2>5. Promise!Type
    <3>1. /\ Len(Text(f)) = Len(t) + Len(s)
          /\ Text(f) = SubSeq(t, 1, p) \o SubSeq(Text(f), p + 1, p + Len(s)) \o SubSeq(t, p + 1, Len(t))
          /\ Place(f) = p + Len(s)
      <4>1. Len(Text(f)) = Len(t) + Len(s) /\ Place(f) = p + Len(s)
        BY <2>1, <2>3
      <4>2. SubSeq(Text(f), p + 1, p + Len(s)) = s
        BY <2>1, <2>4
      <4>3. Text(f) = (a \o s) \o b
        BY <2>1
      <4>. QED
        BY ONLY <2>2, <4>1, <4>2, <4>3
    <3>. QED
      BY <1>1, <2>1, <3>1 DEF Promise!Type, Promise!Upto, Promise!After
  <2>. QED
    BY <2>5 DEF Promise!Next
<1>6. ASSUME NEW a \in Texts, NEW b \in Texts, NEW c \in Characters, t = (a \o <<c>>) \o b
      PROVE  /\ Len(a) \in Nat /\ SubSeq(t, 1, Len(a)) = a /\ SubSeq(t, Len(a) + 2, Len(t)) = b
             /\ Len(t) = Len(a) + 1 + Len(b)
  <2>1. <<c>> \in Texts /\ a \o <<c>> \in Texts /\ Len(a \o <<c>>) = Len(a) + 1 /\ Len(a) \in Nat
    BY TextsJoin
  <2>2. <<c>> \o b \in Texts /\ t = a \o (<<c>> \o b)
    <3>2. \A r, s \in Texts : r \o s \in Texts
      BY TextsJoin
    <3>3. PICK x \in Texts : x = <<c>>
      BY <2>1
    <3>4. x \o b \in Texts /\ (a \o x) \o b = a \o (x \o b)
      BY Associate, <3>2
    <3>. QED
      BY <1>6, <3>3, <3>4
  <2>3. SubSeq(t, 1, Len(a)) = a
    BY <2>2, Parts
  <2>4. SubSeq(t, Len(a \o <<c>>) + 1, Len(t)) = b
    BY <1>6, <2>1, Parts
  <2>5. Len(t) = Len(a \o <<c>>) + Len(b)
    BY <1>6, <2>1, TextsJoin
  <2>. QED
    BY <2>1, <2>3, <2>4, <2>5
<1>7. CASE Rubs(e, f)
  <2>1. PICK a \in Texts, b \in Texts, c \in Characters :
            t = (a \o <<c>>) \o b /\ p = Len(a) + 1 /\ Text(f) = a \o b /\ Place(f) = Len(a)
    BY <1>7 DEF Rubs, t, p
  <2>2. /\ Len(a) \in Nat /\ SubSeq(t, 1, Len(a)) = a /\ SubSeq(t, Len(a) + 2, Len(t)) = b
    BY <1>6, <2>1
  <2>3. p > 0 /\ p - 1 = Len(a) /\ p + 1 = Len(a) + 2
    BY <2>1, <2>2
  <2>. QED
    BY <1>1, <2>1, <2>2, <2>3 DEF Promise!Next, Promise!Rub, Promise!Upto, Promise!After
<1>8. CASE Nips(e, f)
  <2>1. PICK a \in Texts, b \in Texts, c \in Characters :
            t = (a \o <<c>>) \o b /\ p = Len(a) /\ Text(f) = a \o b /\ Place(f) = Len(a)
    BY <1>8 DEF Nips, t, p
  <2>2. /\ Len(a) \in Nat /\ SubSeq(t, 1, Len(a)) = a /\ SubSeq(t, Len(a) + 2, Len(t)) = b
    BY <1>6, <2>1
  <2>3. p < Len(Above(e)) + Len(Line(e)) /\ (p + 1) + 1 = Len(a) + 2
    <3>1. Len(Above(e)) \in Nat /\ Len(Line(e)) \in Nat
      BY <1>2, TextsJoin
    <3>. QED
      BY <1>2, <1>8, <2>1, <2>2, <3>1 DEF Nips
  <2>. QED
    BY <1>1, <1>3, <2>1, <2>2, <2>3 DEF Promise!Next, Promise!Nip, Promise!Upto, Promise!After
<1>. DEFINE h == Above(e) \o Line(e)
            m == Len(Above(e)) + Len(Line(e))
<1>9. h \in Texts /\ Len(h) = m /\ Len(Above(e)) \in Nat /\ Len(Line(e)) \in Nat /\ Len(Behind(e)) \in Nat
  BY <1>2, TextsJoin
<1>10. /\ SubSeq(t, 1, m) = h /\ SubSeq(t, m + 1, Len(t)) = Behind(e)
       /\ SubSeq(t, 1, Len(Above(e))) = Above(e)
  <2>1. SubSeq(h \o Behind(e), 1, Len(h)) = h /\ SubSeq(h \o Behind(e), Len(h) + 1, Len(h \o Behind(e))) = Behind(e)
    <3>. HIDE DEF h
    <3>. QED
      BY <1>2, <1>9, Parts
  <2>2. Line(e) \o Behind(e) \in Texts /\ t = Above(e) \o (Line(e) \o Behind(e))
    BY <1>2, TextsJoin
  <2>3. SubSeq(t, 1, Len(Above(e))) = Above(e)
    BY <1>2, <2>2, Parts
  <2>. QED
    BY <1>2, <1>9, <2>1, <2>3
<1>11. CASE Opens(e, f)
  <2>1. Text(f) = h \o (<<NL>> \o Behind(e)) /\ Place(f) = m + 1
    BY <1>11 DEF Opens
  <2>2. h \o (<<NL>> \o Behind(e)) = (h \o <<NL>>) \o Behind(e)
    <3>. HIDE DEF h
    <3>2. PICK x \in Texts : x = <<NL>>
      BY LinesAreTexts
    <3>3. (h \o x) \o Behind(e) = h \o (x \o Behind(e))
      <4>1. h \in Texts /\ x \in Texts /\ Behind(e) \in Texts
        BY <1>2, <1>9
      <4>. QED
        BY ONLY <4>1, Associate
    <3>. QED
      BY <3>2, <3>3
  <2>3. Text(f) = SubSeq(t, 1, m) \o <<NL>> \o SubSeq(t, m + 1, Len(t))
    BY <1>10, <2>1, <2>2
  <2>. HIDE DEF h, m
  <2>4. Promise!LineEnd = m
    BY <1>3 DEF m
  <2>. QED
    BY <1>1, <2>1, <2>3, <2>4 DEF Promise!Next, Promise!OpenLine, Promise!Upto, Promise!After
<1>12. CASE \E b \in Texts : Behind(e) = <<NL>> \o b /\ Text(f) = Above(e) \o b
  <2>1. PICK b \in Texts : Behind(e) = <<NL>> \o b /\ Text(f) = Above(e) \o b
    BY <1>12
  <2>2. t = (h \o <<NL>>) \o b /\ NL \in Characters
    <3>. HIDE DEF h
    <3>2. t = h \o (<<NL>> \o b)
      BY <1>2, <2>1 DEF h
    <3>. QED
      BY <1>9, <2>1, <3>2, Associate, LinesAreTexts
  <2>3. SubSeq(t, Len(h) + 2, Len(t)) = b /\ Len(t) = Len(h) + 1 + Len(b)
    <3>. HIDE DEF h
    <3>. QED
      BY <1>6, <1>9, <2>2
  <2>4. m < Len(t) /\ (m + 1) + 1 = Len(h) + 2
    <3>1. Len(b) \in Nat
      BY TextsJoin
    <3>. HIDE DEF h
    <3>. QED
      BY <1>9, <2>3, <3>1
  <2>5. Text(f) = SubSeq(t, 1, Len(Above(e))) \o SubSeq(t, m + 1 + 1, Len(t))
    BY <1>10, <2>1, <2>3, <2>4
  <2>. HIDE DEF h, m
  <2>6. Promise!LineEnd = m /\ Promise!LineStart = Len(Above(e))
    BY <1>3 DEF m
  <2>. QED
    BY <1>1, <2>4, <2>5, <2>6 DEF Promise!Next, Promise!CutLine, Promise!Upto, Promise!After
<1>13. ASSUME Behind(e) = <<>> PROVE Promise!LineEnd = Len(t)
  <2>1. Len(Behind(e)) = 0
    BY <1>13
  <2>. QED
    BY <1>2, <1>3, <1>9, <2>1
<1>14. CASE \E a \in Texts : Behind(e) = <<>> /\ Above(e) = a \o <<NL>> /\ Text(f) = a
  <2>1. PICK a \in Texts : Behind(e) = <<>> /\ Above(e) = a \o <<NL>> /\ Text(f) = a
    BY <1>14
  <2>2. Len(a) \in Nat /\ Len(Above(e)) = Len(a) + 1
    BY <2>1, TextsJoin, LinesAreTexts
  <2>3. SubSeq(t, 1, Len(a)) = a
    <3>2. Line(e) \o Behind(e) \in Texts /\ <<NL>> \in Texts
      BY <1>2, TextsJoin, LinesAreTexts
    <3>3. (Above(e) \o Line(e)) \o Behind(e) = Above(e) \o (Line(e) \o Behind(e))
      <4>1. Above(e) \in Texts /\ Line(e) \in Texts /\ Behind(e) \in Texts
        BY <1>2
      <4>. QED
        BY ONLY <4>1, Associate
    <3>4. PICK x \in Texts, y \in Texts : x = <<NL>> /\ y = Line(e) \o Behind(e)
      BY <3>2
    <3>5. (a \o x) \o y = a \o (x \o y) /\ x \o y \in Texts
      BY Associate, TextsJoin
    <3>6. t = a \o (x \o y)
      BY <1>2, <2>1, <3>3, <3>4, <3>5
    <3>. QED
      BY <3>5, <3>6, Parts
  <2>4. Text(f) = SubSeq(t, 1, IF Len(Above(e)) = 0 THEN 0 ELSE Len(Above(e)) - 1)
    <3>1. (IF Len(Above(e)) = 0 THEN 0 ELSE Len(Above(e)) - 1) = Len(a)
      BY <2>2
    <3>. QED
      BY <2>1, <2>3, <3>1
  <2>. QED
    BY <1>1, <1>3, <1>13, <2>1, <2>4 DEF Promise!Next, Promise!CutLine, Promise!Upto
<1>15. CASE Behind(e) = <<>> /\ Above(e) = <<>> /\ Text(f) = <<>>
  <2>1. Text(f) = SubSeq(t, 1, IF Len(Above(e)) = 0 THEN 0 ELSE Len(Above(e)) - 1)
    <3>1. Len(Above(e)) = 0 /\ SubSeq(t, 1, 0) = <<>>
      BY <1>15, SubSeqEmpty
    <3>. QED
      BY <1>15, <3>1
  <2>. QED
    BY <1>1, <1>3, <1>13, <1>15, <2>1 DEF Promise!Next, Promise!CutLine, Promise!Upto
<1>. QED
  BY <1>4, <1>5, <1>7, <1>8, <1>11, <1>12, <1>14, <1>15 DEF Cuts

----------------------------------------------------------------------------
(* Lists of lines. *)

Short(ls) == \A i \in 1 .. Len(ls) : Len(ls[i]) < MaxLen

\* One line between others.
IsAround(w, u, l, d) ==
    /\ w \in Seq(TextLines) /\ Len(w) = Len(u) + 1 + Len(d) /\ Len(u) \in Nat /\ Len(d) \in Nat
    /\ \A i \in 1 .. Len(u) + 1 + Len(d) :
          w[i] = IF i <= Len(u) THEN u[i] ELSE IF i = Len(u) + 1 THEN l ELSE d[i - Len(u) - 1]
    /\ SubSeq(w, 1, Len(u)) = u /\ SubSeq(w, Len(u) + 2, Len(w)) = d

LEMMA Around ==
  ASSUME NEW u \in Seq(TextLines), NEW l \in TextLines, NEW d \in Seq(TextLines)
  PROVE  IsAround(u \o <<l>> \o d, u, l, d)
<1>. DEFINE h == u \o <<l>>
            w == h \o d
<1>1. <<l>> \in Seq(TextLines) /\ Len(<<l>>) = 1 /\ <<l>>[1] = l /\ Len(u) \in Nat /\ Len(d) \in Nat
  BY LenProperties
<1>2. h \in Seq(TextLines) /\ Len(h) = Len(u) + 1
      /\ \A i \in 1 .. Len(u) + 1 : h[i] = IF i <= Len(u) THEN u[i] ELSE l
  <2>1. h \in Seq(TextLines) /\ Len(h) = Len(u) + Len(<<l>>)
        /\ \A i \in 1 .. Len(u) + Len(<<l>>) : h[i] = IF i <= Len(u) THEN u[i] ELSE <<l>>[i - Len(u)]
    BY <1>1, ConcatProperties
  <2>. HIDE DEF h
  <2>. QED
    BY <1>1, <2>1
<1>3. w \in Seq(TextLines) /\ Len(w) = Len(h) + Len(d)
      /\ \A i \in 1 .. Len(h) + Len(d) : w[i] = IF i <= Len(h) THEN h[i] ELSE d[i - Len(h)]
  <2>. HIDE DEF h
  <2>. QED
    BY <1>2, ConcatProperties
<1>4. SubSeq(w, 1, Len(h)) = h /\ SubSeq(w, Len(h) + 1, Len(w)) = d
  <2>. HIDE DEF h
  <2>. QED
    BY <1>2, SeqParts
<1>5. SubSeq(w, 1, Len(u)) = u
  <2>1. PICK x \in Seq(TextLines) : x = <<l>>
    BY <1>1
  <2>2. (u \o x) \o d = u \o (x \o d) /\ x \o d \in Seq(TextLines)
    BY ConcatAssociative, ConcatProperties
  <2>3. SubSeq(u \o (x \o d), 1, Len(u)) = u
    BY <2>2, SeqParts
  <2>. QED
    BY <2>1, <2>2, <2>3
<1>6. \A i \in 1 .. Len(u) + 1 + Len(d) :
         w[i] = IF i <= Len(u) THEN u[i] ELSE IF i = Len(u) + 1 THEN l ELSE d[i - Len(u) - 1]
  <2>. HIDE DEF w, h
  <2>. QED
    BY <1>1, <1>2, <1>3
<1>7. Len(w) = Len(u) + 1 + Len(d) /\ Len(h) + 1 = Len(u) + 2
  <2>. HIDE DEF w, h
  <2>. QED
    BY <1>1, <1>2, <1>3
<1>. HIDE DEF w, h
<1>8. IsAround(w, u, l, d)
  BY <1>1, <1>3, <1>4, <1>5, <1>6, <1>7 DEF IsAround
<1>. QED
  BY <1>8 DEF w, h

\* A record whose cursor is in the line between u and d is a buffer.
LEMMA MakeBuffer ==
  ASSUME NEW f, f \in [lines : Seq(Seq(Glyphs)), row : Nat, col : Nat, modified : BOOLEAN],
         NEW u \in Seq(TextLines), NEW l \in TextLines, NEW d \in Seq(TextLines),
         f.lines = u \o <<l>> \o d, f.row = Len(u) + 1, f.col \in 0 .. Len(l),
         Len(u) + 1 + Len(d) <= MaxLines, Short(u), Len(l) < MaxLen, Short(d)
  PROVE  /\ Buffer(f) /\ Line(f) = l /\ Above(f) = Ended(u) /\ Behind(f) = Rest(d)
         /\ Text(f) = (Ended(u) \o l) \o Rest(d) /\ Place(f) = Len(Ended(u)) + f.col
<1>. DEFINE w == u \o <<l>> \o d
<1>1. /\ w \in Seq(TextLines) /\ Len(w) = Len(u) + 1 + Len(d) /\ Len(u) \in Nat /\ Len(d) \in Nat
      /\ \A i \in 1 .. Len(u) + 1 + Len(d) :
            w[i] = IF i <= Len(u) THEN u[i] ELSE IF i = Len(u) + 1 THEN l ELSE d[i - Len(u) - 1]
      /\ SubSeq(w, 1, Len(u)) = u /\ SubSeq(w, Len(u) + 2, Len(w)) = d
  <2>1. IsAround(w, u, l, d)
    BY Around
  <2>. HIDE DEF w
  <2>. QED
    BY <2>1 DEF IsAround
<1>2. f.lines = w
  OBVIOUS
<1>. HIDE DEF w
<1>3. DOMAIN w = 1 .. Len(w)
  BY <1>1, LenProperties
<1>4. Line(f) = l /\ Upper(f) = u /\ Lower(f) = d
  <2>1. f.row \in 1 .. Len(w) /\ w[f.row] = l
    BY <1>1
  <2>2. f.row - 1 = Len(u) /\ f.row + 1 = Len(u) + 2
    BY <1>1
  <2>. QED
    BY <1>1, <1>2, <2>1, <2>2 DEF Line, Upper, Lower
<1>5. \A i \in 1 .. Len(w) : Len(w[i]) < MaxLen
  <2>. TAKE i \in 1 .. Len(w)
  <2>1. CASE i <= Len(u)
    BY <1>1, <2>1 DEF Short
  <2>2. CASE i = Len(u) + 1
    BY <1>1, <2>2
  <2>3. CASE i > Len(u) + 1
    <3>1. i - Len(u) - 1 \in 1 .. Len(d) /\ w[i] = d[i - Len(u) - 1]
      BY <1>1, <2>3
    <3>. QED
      BY <3>1 DEF Short
  <2>. QED
    BY <1>1, <2>1, <2>2, <2>3
<1>6. Buffer(f)
  <2>1. Len(f.lines) \in 1 .. MaxLines /\ f.row \in DOMAIN f.lines
    BY <1>1, <1>2, <1>3, LimitsAssumption
  <2>. QED
    BY <1>2, <1>3, <1>4, <1>5, <2>1 DEF Buffer
<1>7. Above(f) = Ended(u) /\ Behind(f) = Rest(d)
  BY <1>4 DEF Above, Behind
<1>8. Text(f) = (Ended(u) \o l) \o Rest(d)
  BY <1>4, <1>6, <1>7, TextIs
<1>9. Place(f) = Len(Ended(u)) + f.col
  BY <1>6, <1>7, TextIs
<1>. QED
  BY <1>4, <1>6, <1>7, <1>8, <1>9

\* The neighbours of the cursor's line are short, like it.
LEMMA NeighboursAreShort ==
  ASSUME NEW e, Buffer(e)
  PROVE  Short(Upper(e)) /\ Short(Lower(e)) /\ Len(Upper(e)) + 1 + Len(Lower(e)) <= MaxLines
<1>. DEFINE u == Upper(e)
            d == Lower(e)
<1>1. /\ u \in Seq(TextLines) /\ d \in Seq(TextLines) /\ Line(e) \in TextLines
      /\ e.lines = u \o <<Line(e)>> \o d /\ Len(e.lines) \in 1 .. MaxLines
      /\ Len(u) = e.row - 1 /\ Len(d) = Len(e.lines) - e.row /\ e.row \in 1 .. Len(e.lines)
  BY BufferIs
<1>2. \A i \in 1 .. Len(e.lines) : Len(e.lines[i]) < MaxLen
  BY <1>1, LenProperties DEF Buffer, TextLines
<1>. HIDE DEF u, d
<1>3. /\ Len(e.lines) = Len(u) + 1 + Len(d) /\ Len(u) \in Nat /\ Len(d) \in Nat
      /\ \A i \in 1 .. Len(u) + 1 + Len(d) :
            e.lines[i] = IF i <= Len(u) THEN u[i] ELSE IF i = Len(u) + 1 THEN Line(e) ELSE d[i - Len(u) - 1]
  <2>1. IsAround(e.lines, u, Line(e), d)
    BY <1>1, Around
  <2>. QED
    BY <2>1 DEF IsAround
<1>4. \A i \in 1 .. Len(u) : Len(u[i]) < MaxLen
  <2>. TAKE i \in 1 .. Len(u)
  <2>1. i \in 1 .. Len(e.lines) /\ e.lines[i] = u[i]
    BY <1>3
  <2>. QED
    BY <1>2, <2>1
<1>5. \A i \in 1 .. Len(d) : Len(d[i]) < MaxLen
  <2>. TAKE i \in 1 .. Len(d)
  <2>1. /\ Len(u) + 1 + i \in 1 .. Len(u) + 1 + Len(d)
        /\ ~ (Len(u) + 1 + i <= Len(u)) /\ Len(u) + 1 + i # Len(u) + 1 /\ (Len(u) + 1 + i) - Len(u) - 1 = i
    BY <1>3
  <2>2. e.lines[Len(u) + 1 + i] = d[i]
    BY <1>3, <2>1
  <2>. QED
    BY <1>2, <1>3, <2>1, <2>2
<1>6. Len(u) + 1 + Len(d) <= MaxLines
  BY <1>1, <1>3
<1>. QED
  BY <1>4, <1>5, <1>6 DEF Short, u, d

\* Putting another line in the place of one.
IsPut(z, j, l, w) == [z EXCEPT ![j] = l] = w /\ w \in Seq(TextLines)

LEMMA LinesPut ==
  ASSUME NEW u \in Seq(TextLines), NEW k \in TextLines, NEW d \in Seq(TextLines), NEW l \in TextLines,
         NEW z, z = u \o <<k>> \o d, NEW j, j = Len(u) + 1
  PROVE  IsPut(z, j, l, u \o <<l>> \o d)
<1>. DEFINE v == [z EXCEPT ![j] = l]
            w == u \o <<l>> \o d
<1>1. /\ w \in Seq(TextLines) /\ Len(w) = Len(u) + 1 + Len(d) /\ Len(u) \in Nat /\ Len(d) \in Nat
      /\ \A i \in 1 .. Len(u) + 1 + Len(d) :
            w[i] = IF i <= Len(u) THEN u[i] ELSE IF i = Len(u) + 1 THEN l ELSE d[i - Len(u) - 1]
  <2>1. IsAround(w, u, l, d)
    BY Around
  <2>. HIDE DEF w
  <2>. QED
    BY <2>1 DEF IsAround
<1>2. /\ z \in Seq(TextLines) /\ Len(z) = Len(u) + 1 + Len(d)
      /\ \A i \in 1 .. Len(u) + 1 + Len(d) :
            z[i] = IF i <= Len(u) THEN u[i] ELSE IF i = Len(u) + 1 THEN k ELSE d[i - Len(u) - 1]
  <2>1. IsAround(z, u, k, d)
    BY Around
  <2>. QED
    BY ONLY <2>1 DEF IsAround
<1>3. j \in 1 .. Len(z) /\ j = Len(u) + 1
  BY ONLY <1>1, <1>2, j = Len(u) + 1
<1>4. v \in Seq(TextLines) /\ Len(v) = Len(z) /\ \A i \in 1 .. Len(z) : v[i] = IF i = j THEN l ELSE z[i]
  <2>1. v \in Seq(TextLines)
    BY ONLY <1>2, <1>3, l \in TextLines, ExceptSeq
  <2>. QED
    BY ONLY <1>2, <1>3, <2>1, LenProperties
<1>. HIDE DEF v, w
<1>5. \A i \in 1 .. Len(v) : v[i] = w[i]
  <2>. TAKE i \in 1 .. Len(v)
  <2>1. i \in 1 .. Len(u) + 1 + Len(d) /\ i \in 1 .. Len(z)
    BY <1>2, <1>4
  <2>2. CASE i = j
    BY ONLY <1>1, <1>3, <1>4, <2>1, <2>2
  <2>3. CASE i # j
    <3>1. v[i] = z[i] /\ i # Len(u) + 1
      BY <1>3, <1>4, <2>1, <2>3
    <3>2. z[i] = w[i]
      BY ONLY <1>1, <1>2, <2>1, <3>1
    <3>. QED
      BY <3>1, <3>2
  <2>. QED
    BY <2>2, <2>3
<1>6. v = w
  <2>1. Len(v) = Len(w)
    BY ONLY <1>1, <1>2, <1>4
  <2>. QED
    BY ONLY <1>1, <1>4, <1>5, <2>1, SeqEqual
<1>. QED
  BY ONLY <1>1, <1>6 DEF v, w, IsPut

LEMMA LinePut ==
  ASSUME NEW e, Buffer(e), NEW l \in TextLines
  PROVE  /\ [e.lines EXCEPT ![e.row] = l] = Upper(e) \o <<l>> \o Lower(e)
         /\ [e.lines EXCEPT ![e.row] = l] \in Seq(TextLines)
<1>1. /\ Upper(e) \in Seq(TextLines) /\ Lower(e) \in Seq(TextLines) /\ Line(e) \in TextLines
      /\ e.lines = Upper(e) \o <<Line(e)>> \o Lower(e) /\ Len(Upper(e)) = e.row - 1 /\ e.row \in 1 .. Len(e.lines)
      /\ Len(e.lines) \in 1 .. MaxLines
  BY BufferIs
<1>2. e.row = Len(Upper(e)) + 1
  BY <1>1
<1>3. PICK z, j : z = e.lines /\ j = e.row
  OBVIOUS
<1>4. [z EXCEPT ![j] = l] = Upper(e) \o <<l>> \o Lower(e) /\ Upper(e) \o <<l>> \o Lower(e) \in Seq(TextLines)
  <2>1. /\ Upper(e) \in Seq(TextLines) /\ Lower(e) \in Seq(TextLines) /\ Line(e) \in TextLines /\ l \in TextLines
        /\ z = Upper(e) \o <<Line(e)>> \o Lower(e) /\ j = Len(Upper(e)) + 1
    BY <1>1, <1>2, <1>3
  <2>2. IsPut(z, j, l, Upper(e) \o <<l>> \o Lower(e))
    BY ONLY <2>1, LinesPut
  <2>. QED
    BY ONLY <2>2 DEF IsPut
<1>. QED
  BY <1>3, <1>4

----------------------------------------------------------------------------
(* The operations keep the buffer, and each is one edit. *)

Records == [lines : Seq(Seq(Glyphs)), row : Nat, col : Nat, modified : BOOLEAN]

LEMMA MovingRow ==
  ASSUME NEW e, e \in Records, NEW r \in Nat, NEW f, f = [e EXCEPT !.row = r]
  PROVE  f \in Records /\ f.lines = e.lines /\ f.row = r /\ f.modified = e.modified
BY DEF Records

\* A change of the text sets the flag, and nothing clears it.
Noted(e, f) == ~f.modified => ~e.modified /\ Text(f) = Text(e)

LEMMA KeepCursorKeeps ==
  ASSUME NEW e, e \in Records, Len(e.lines) \in 1 .. MaxLines, Short(e.lines), e.row # 0
  PROVE  /\ Buffer(KeepCursorValid(e)) /\ KeepCursorValid(e).modified = e.modified
         /\ Text(KeepCursorValid(e)) = Text(e)
         /\ Buffer(e) => Place(KeepCursorValid(e)) = Place(e)
<1>. DEFINE f == KeepCursorValid(e)
            r == Least(e.row, Len(e.lines))
            c == Least(e.col, Len(e.lines[r]))
<1>1. e.lines \in Seq(TextLines) /\ e.row \in Nat /\ e.col \in Nat /\ e.modified \in BOOLEAN
      /\ Len(e.lines) \in Nat
  BY LenProperties DEF Records, TextLines
<1>2. r \in 1 .. Len(e.lines) /\ r \in Nat
  BY <1>1 DEF Least
<1>3. e.lines[r] \in TextLines
  <2>. HIDE DEF r
  <2>. QED
    BY <1>1, <1>2, ElementOfSeq
<1>4. Len(e.lines[r]) \in Nat
  BY <1>3, LenProperties DEF TextLines
<1>5. c \in 0 .. Len(e.lines[r])
  <2>. HIDE DEF r
  <2>. QED
    BY <1>1, <1>4 DEF Least
<1>6. f = [e EXCEPT !.row = r, !.col = c]
  BY DEF KeepCursorValid
<1>. HIDE DEF f, r, c
<1>7. f \in Records /\ f.lines = e.lines /\ f.row = r /\ f.col = c /\ f.modified = e.modified
  <2>1. r \in Nat /\ c \in Nat
    BY <1>2, <1>4, <1>5
  <2>2. e \in Records
    OBVIOUS
  <2>. QED
    BY ONLY <1>6, <2>1, <2>2 DEF Records
<1>8. Buffer(f)
  <2>1. Line(f) = e.lines[r] /\ DOMAIN f.lines = 1 .. Len(f.lines)
    BY <1>1, <1>7, LenProperties DEF Line
  <2>. QED
    BY <1>2, <1>5, <1>7, <2>1 DEF Buffer, Records, Short
<1>9. Text(f) = Text(e)
  BY <1>7 DEF Text
<1>10. ASSUME Buffer(e) PROVE Place(f) = Place(e)
  <2>1. e.row \in 1 .. Len(e.lines) /\ e.col \in 0 .. Len(Line(e)) /\ Len(Line(e)) \in Nat
    BY <1>10, BufferIs
  <2>2. r = e.row
    BY <1>1, <2>1 DEF r, Least
  <2>3. c = e.col
    BY <1>1, <2>1, <2>2 DEF c, Least, Line
  <2>. QED
    BY <1>7, <2>2, <2>3 DEF Place
<1>. QED
  BY <1>7, <1>8, <1>9, <1>10 DEF f

LEMMA BufferIsKept ==
  ASSUME NEW e, Buffer(e)
  PROVE  /\ Buffer(KeepCursorValid(e)) /\ KeepCursorValid(e).modified = e.modified
         /\ Text(KeepCursorValid(e)) = Text(e) /\ Place(KeepCursorValid(e)) = Place(e)
<1>1. e \in Records /\ Len(e.lines) \in 1 .. MaxLines /\ e.row # 0
  BY BufferIs DEF Buffer, Records
<1>2. Short(e.lines)
  <2>1. DOMAIN e.lines = 1 .. Len(e.lines)
    BY BufferIs, LenProperties
  <2>. QED
    BY <2>1 DEF Buffer, Short
<1>. QED
  BY <1>1, <1>2, KeepCursorKeeps

\* Another row and column of the same lines.
LEMMA MakeMoved ==
  ASSUME NEW e, Buffer(e), NEW f, f \in Records, f.lines = e.lines, f.modified = e.modified,
         f.row \in 1 .. Len(e.lines), f.col \in 0 .. Len(e.lines[f.row])
  PROVE  Buffer(f) /\ Text(f) = Text(e)
<1>1. DOMAIN e.lines = 1 .. Len(e.lines)
  BY BufferIs, LenProperties
<1>. QED
  BY <1>1 DEF Buffer, Records, Line, Text

LEMMA MovesKeep ==
  ASSUME NEW e, Buffer(e), NEW m \in Moves
  PROVE  Buffer(Moved(e, m)) /\ Text(Moved(e, m)) = Text(e) /\ Moved(e, m).modified = e.modified
<1>. DEFINE n == Len(e.lines)
<1>1. /\ e \in Records /\ e.lines \in Seq(TextLines) /\ n \in Nat /\ e.row \in 1 .. n /\ e.col \in 0 .. Len(Line(e))
      /\ Line(e) = e.lines[e.row] /\ e.modified \in BOOLEAN
  <2>1. e \in Records /\ Line(e) = e.lines[e.row]
    BY DEF Buffer, Records, Line
  <2>. QED
    BY <2>1, BufferIs, LenProperties
<1>2. \A i \in 1 .. n : Len(e.lines[i]) \in Nat
  <2>. TAKE i \in 1 .. n
  <2>1. e.lines[i] \in TextLines
    BY <1>1, ElementOfSeq
  <2>. QED
    BY <2>1, LenProperties DEF TextLines
<1>. DEFINE Kept(f) == Buffer(f) /\ Text(f) = Text(e) /\ f.modified = e.modified
<1>. HIDE DEF n
<1>3. ASSUME NEW r \in 1 .. n, NEW c \in 0 .. Len(e.lines[r])
      PROVE  Kept([e EXCEPT !.row = r, !.col = c])
  <2>. DEFINE f == [e EXCEPT !.row = r, !.col = c]
  <2>1. r \in Nat /\ c \in Nat
    BY <1>1, <1>2
  <2>2. f \in Records /\ f.lines = e.lines /\ f.modified = e.modified /\ f.row = r /\ f.col = c
    <3>1. f = [e EXCEPT !.row = r, !.col = c]
      OBVIOUS
    <3>2. e \in Records
      BY <1>1
    <3>. QED
      BY ONLY <2>1, <3>1, <3>2 DEF Records
  <2>. HIDE DEF f
  <2>3. Buffer(f) /\ Text(f) = Text(e)
    BY <2>2, MakeMoved DEF n
  <2>. QED
    BY <2>2, <2>3 DEF f
<1>11. SUFFICES Kept(Moved(e, m))
  OBVIOUS
<1>12. Kept(e)
  OBVIOUS
<1>. HIDE DEF Kept
<1>4. CASE m = "left"
  <2>1. CASE e.col > 0
    <3>1. Moved(e, m) = [e EXCEPT !.row = e.row, !.col = e.col - 1]
      BY <1>1, <1>4, <2>1 DEF Moved, MoveLeft, Records
    <3>2. e.col - 1 \in 0 .. Len(e.lines[e.row])
      BY <1>1, <1>2, <2>1
    <3>. QED
      BY <1>1, <1>3, <3>1, <3>2
  <2>2. CASE ~(e.col > 0) /\ e.row > 1
    <3>1. Moved(e, m) = [e EXCEPT !.row = e.row - 1, !.col = Len(e.lines[e.row - 1])]
      BY <1>1, <1>4, <2>2 DEF Moved, MoveLeft, Records
    <3>2. e.row - 1 \in 1 .. n
      BY <1>1, <2>2
    <3>3. Len(e.lines[e.row - 1]) \in 0 .. Len(e.lines[e.row - 1])
      BY <1>2, <3>2
    <3>. QED
      BY <1>3, <3>1, <3>2, <3>3
  <2>3. CASE ~(e.col > 0) /\ ~(e.row > 1)
    BY <1>4, <1>12, <2>3 DEF Moved, MoveLeft
  <2>. QED
    BY <2>1, <2>2, <2>3
<1>5. CASE m = "right"
  <2>1. CASE e.col < Len(Line(e))
    <3>1. Moved(e, m) = [e EXCEPT !.row = e.row, !.col = e.col + 1]
      BY <1>1, <1>5, <2>1 DEF Moved, MoveRight, Records
    <3>2. e.col + 1 \in 0 .. Len(e.lines[e.row])
      BY <1>1, <1>2, <2>1
    <3>. QED
      BY <1>1, <1>3, <3>1, <3>2
  <2>2. CASE ~(e.col < Len(Line(e))) /\ e.row < n
    <3>1. Moved(e, m) = [e EXCEPT !.row = e.row + 1, !.col = 0]
      BY <1>1, <1>5, <2>2 DEF Moved, MoveRight, Records, n
    <3>2. e.row + 1 \in 1 .. n
      BY <1>1, <2>2
    <3>3. 0 \in 0 .. Len(e.lines[e.row + 1])
      BY <1>2, <3>2
    <3>. QED
      BY <1>3, <3>1, <3>2, <3>3
  <2>3. CASE ~(e.col < Len(Line(e))) /\ ~(e.row < n)
    BY <1>5, <1>12, <2>3 DEF Moved, MoveRight, n
  <2>. QED
    BY <2>1, <2>2, <2>3
<1>6. ASSUME NEW r \in 1 .. n
      PROVE  Kept(KeepCursorValid([e EXCEPT !.row = r]))
  <2>. DEFINE f == [e EXCEPT !.row = r]
  <2>1. f \in Records /\ f.lines = e.lines /\ f.modified = e.modified /\ f.row = r
    <3>1. r \in Nat
      BY <1>1
    <3>. QED
      BY <1>1, <3>1, MovingRow
  <2>2. Short(e.lines) /\ n \in 1 .. MaxLines
    <3>1. DOMAIN e.lines = 1 .. Len(e.lines)
      BY BufferIs, LenProperties
    <3>. QED
      BY <3>1 DEF Buffer, Short, n
  <2>. HIDE DEF f
  <2>3. Buffer(KeepCursorValid(f)) /\ Text(KeepCursorValid(f)) = Text(f) /\ KeepCursorValid(f).modified = f.modified
    BY <1>1, <2>1, <2>2, KeepCursorKeeps DEF n
  <2>4. Text(f) = Text(e)
    BY <2>1 DEF Text
  <2>5. Kept(KeepCursorValid(f))
    BY <2>1, <2>3, <2>4 DEF Kept
  <2>. QED
    BY <2>5 DEF f
<1>7. CASE m = "up"
  <2>. DEFINE r == IF e.row > 1 THEN e.row - 1 ELSE e.row
  <2>1. Moved(e, m) = KeepCursorValid([e EXCEPT !.row = r]) /\ r \in 1 .. n
    BY <1>1, <1>7 DEF Moved, MoveUp
  <2>. QED
    BY <1>6, <2>1
<1>8. CASE m = "down"
  <2>. DEFINE r == Least(e.row + 1, Len(e.lines))
  <2>1. Moved(e, m) = KeepCursorValid([e EXCEPT !.row = r])
    BY <1>8 DEF Moved, MoveDown
  <2>2. r \in 1 .. n
    BY <1>1 DEF Least, n
  <2>. QED
    BY <1>6, <2>1, <2>2
<1>9. CASE m = "home"
  <2>1. Moved(e, m) = [e EXCEPT !.row = e.row, !.col = 0]
    BY <1>1, <1>9 DEF Moved, Home, Records
  <2>2. 0 \in 0 .. Len(e.lines[e.row])
    BY <1>1, <1>2
  <2>. QED
    BY <1>1, <1>3, <2>1, <2>2
<1>10. CASE m = "end"
  <2>1. Moved(e, m) = [e EXCEPT !.row = e.row, !.col = Len(e.lines[e.row])]
    BY <1>1, <1>10 DEF Moved, End, Records
  <2>2. Len(e.lines[e.row]) \in 0 .. Len(e.lines[e.row])
    BY <1>1, <1>2
  <2>. QED
    BY <1>1, <1>3, <2>1, <2>2
<1>. QED
  BY <1>4, <1>5, <1>7, <1>8, <1>9, <1>10 DEF Moves

\* A line before and from one of its places on.
LEMMA LineSplits ==
  ASSUME NEW l \in TextLines, NEW k \in 0 .. Len(l)
  PROVE  /\ SubSeq(l, 1, k) \in TextLines /\ Len(SubSeq(l, 1, k)) = k
         /\ SubSeq(l, k + 1, Len(l)) \in TextLines /\ Len(SubSeq(l, k + 1, Len(l))) = Len(l) - k
         /\ l = SubSeq(l, 1, k) \o SubSeq(l, k + 1, Len(l))
         /\ k > 0 => l[k] \in Glyphs /\ SubSeq(l, 1, k) = SubSeq(l, 1, k - 1) \o <<l[k]>>
<1>1. l \in Seq(Glyphs) /\ Len(l) \in Nat /\ \A i \in 1 .. Len(l) : l[i] \in Glyphs
  BY LenProperties, ElementOfSeq DEF TextLines
<1>. DEFINE v == SubSeq(l, 1, k)
            w == SubSeq(l, k + 1, Len(l))
<1>2. v \in Seq(Glyphs) /\ Len(v) = k
  <2>1. v = [i \in 1 .. k |-> l[i]] /\ \A i \in 1 .. k : l[i] \in Glyphs
    BY <1>1
  <2>. HIDE DEF v
  <2>. QED
    BY <2>1, IsASeq
<1>3. w \in Seq(Glyphs) /\ Len(w) = Len(l) - k
  <2>1. w = [i \in 1 .. Len(l) - k |-> l[k + i]] /\ \A i \in 1 .. Len(l) - k : l[k + i] \in Glyphs
    BY <1>1
  <2>2. Len(l) - k \in Nat
    BY <1>1
  <2>. HIDE DEF w
  <2>. QED
    BY <2>1, <2>2, IsASeq
<1>4. l = v \o w
  <2>1. 1 \in 1 .. Len(l) + 1 /\ k \in 1 - 1 .. Len(l) /\ Len(l) \in k .. Len(l)
    BY <1>1
  <2>2. SubSeq(l, 1, k) \o SubSeq(l, k + 1, Len(l)) = SubSeq(l, 1, Len(l))
    BY <1>1, <2>1, ConcatAdjacentSubSeq
  <2>. QED
    BY <1>1, <2>2, SubSeqFull
<1>5. ASSUME k > 0 PROVE l[k] \in Glyphs /\ SubSeq(l, 1, k) = SubSeq(l, 1, k - 1) \o <<l[k]>>
  <2>1. 1 \in 1 .. Len(l) /\ k \in 1 .. Len(l)
    BY <1>1, <1>5
  <2>. QED
    BY <1>1, <2>1, SubSeqRecursiveSecond
<1>. QED
  BY <1>2, <1>3, <1>4, <1>5 DEF TextLines

LEMMA LinesJoin ==
  ASSUME NEW k \in TextLines, NEW l \in TextLines
  PROVE  k \o l \in TextLines /\ Len(k \o l) = Len(k) + Len(l) /\ k \in Texts /\ l \in Texts
         /\ Len(k) \in Nat /\ Len(l) \in Nat
BY ConcatProperties, LinesAreTexts, LenProperties DEF TextLines

\* What the steps below know of two texts and of one character.
LEMMA Joined ==
  ASSUME NEW r \in Texts, NEW s \in Texts
  PROVE  r \o s \in Texts /\ Len(r \o s) = Len(r) + Len(s) /\ Len(r) \in Nat /\ Len(s) \in Nat
BY TextsJoin

LEMMA SingleIsText ==
  ASSUME NEW c \in Characters
  PROVE  <<c>> \in Texts /\ Len(<<c>>) = 1
BY EmptySeq, LenProperties DEF Texts

Associates(r, s, t) == (r \o s) \o t = r \o (s \o t)

LEMMA Associative ==
  ASSUME NEW r \in Texts, NEW s \in Texts, NEW t \in Texts
  PROVE  Associates(r, s, t)
BY Associate DEF Associates

\* A text with something put in the middle of a line between others.
IsSpread(a, v, x, w, d) ==
    /\ (a \o (v \o w)) \o d = (a \o v) \o (w \o d)
    /\ (a \o ((v \o x) \o w)) \o d = ((a \o v) \o x) \o (w \o d)
    /\ a \o v \in Texts /\ w \o d \in Texts /\ Len(a \o v) = Len(a) + Len(v)

LEMMA Spread ==
  ASSUME NEW a \in Texts, NEW v \in Texts, NEW x \in Texts, NEW w \in Texts, NEW d \in Texts
  PROVE  IsSpread(a, v, x, w, d)
<1>1. v \o x \in Texts /\ a \o v \in Texts /\ w \o d \in Texts /\ Len(a \o v) = Len(a) + Len(v)
  BY Joined
<1>2. a \o (v \o x) \in Texts
  BY <1>1, Joined
<1>3. /\ Associates(a, v, x) /\ Associates(a, v \o x, w) /\ Associates(a \o (v \o x), w, d)
      /\ Associates(a, v, w) /\ Associates(a \o v, w, d)
  BY <1>1, <1>2, Associative
<1>. QED
  BY ONLY <1>1, <1>3 DEF Associates, IsSpread

\* Another line in the place of the cursor's.
LEMMA MakePut ==
  ASSUME NEW e, Buffer(e), NEW l \in TextLines, Len(l) < MaxLen,
         NEW f, f \in Records, f.lines = [e.lines EXCEPT ![e.row] = l],
         f.row = e.row, f.col \in 0 .. Len(l)
  PROVE  /\ Buffer(f) /\ Text(f) = (Above(e) \o l) \o Behind(e)
         /\ Place(f) = Len(Above(e)) + f.col
<1>1. f.lines = Upper(e) \o <<l>> \o Lower(e)
  BY LinePut
<1>2. /\ Upper(e) \in Seq(TextLines) /\ Lower(e) \in Seq(TextLines) /\ f.row = Len(Upper(e)) + 1
      /\ Short(Upper(e)) /\ Short(Lower(e)) /\ Len(Upper(e)) + 1 + Len(Lower(e)) <= MaxLines
  <2>1. e.row \in 1 .. Len(e.lines) /\ Len(Upper(e)) = e.row - 1 /\ Len(e.lines) \in 1 .. MaxLines
    BY BufferIs
  <2>2. f.row = Len(Upper(e)) + 1
    BY <2>1, LimitsAssumption
  <2>. QED
    BY <2>2, BufferIs, NeighboursAreShort
<1>3. f \in [lines : Seq(Seq(Glyphs)), row : Nat, col : Nat, modified : BOOLEAN]
  BY DEF Records
<1>4. /\ Buffer(f) /\ Text(f) = (Ended(Upper(e)) \o l) \o Rest(Lower(e))
      /\ Place(f) = Len(Ended(Upper(e))) + f.col
  BY <1>1, <1>2, <1>3, MakeBuffer
<1>. QED
  BY <1>4 DEF Above, Behind

\* A buffer whose line and column were replaced is still a record of one.
LEMMA Replaced ==
  ASSUME NEW e, Buffer(e), NEW l \in TextLines
  PROVE  [e.lines EXCEPT ![e.row] = l] \in Seq(Seq(Glyphs)) /\ e \in Records
<1>1. [e.lines EXCEPT ![e.row] = l] \in Seq(Seq(Glyphs))
  BY LinePut DEF TextLines
<1>2. e \in Records
  BY DEF Buffer, Records
<1>. QED
  BY <1>1, <1>2

\* Insert takes what fits; what it takes is typed at the cursor.
LEMMA InsertKeeps ==
  ASSUME NEW e, Buffer(e), NEW s \in TextLines, Len(s) \in 1 .. Tab
  PROVE  /\ Buffer(Insert(e, s)) /\ Noted(e, Insert(e, s))
         /\ Insert(e, s) = e \/ Types(e, Insert(e, s))
         /\ Place(Insert(e, s)) <= Place(e) + Len(s)
<1>. DEFINE l == Line(e)
            k == Least(Len(s), MaxLen - 1 - Len(l))
            fit == SubSeq(s, 1, k)
            v == SubSeq(l, 1, e.col)
            w == SubSeq(l, e.col + 1, Len(l))
            f == [e EXCEPT !.lines[e.row] = v \o fit \o w, !.col = e.col + Len(fit), !.modified = TRUE]
<1>1. /\ l \in TextLines /\ Len(l) \in Nat /\ Len(l) < MaxLen /\ e.col \in 0 .. Len(l) /\ e.col \in Nat
  BY BufferIs DEF Buffer
<1>2. k \in 0 .. Len(s) /\ k + Len(l) < MaxLen
  <2>1. Len(s) \in Nat
    BY LenProperties DEF TextLines
  <2>. HIDE DEF l
  <2>. QED
    BY <1>1, <2>1, LimitsAssumption DEF Least
<1>3. fit \in TextLines /\ Len(fit) = k
  <2>. HIDE DEF k
  <2>. QED
    BY <1>2, LineSplits
<1>4. /\ v \in TextLines /\ Len(v) = e.col /\ w \in TextLines /\ Len(w) = Len(l) - e.col /\ l = v \o w
  <2>. HIDE DEF l
  <2>. QED
    BY <1>1, LineSplits
<1>5. Insert(e, s) = IF fit = <<>> THEN e ELSE f
  BY DEF Insert, Line
<1>6. CASE fit = <<>>
  <2>1. Len(s) \in Nat /\ Place(e) = Len(Above(e)) + e.col /\ Len(Above(e)) \in Nat /\ e.col \in Nat
    BY <1>1, TextIs, TextsJoin, LenProperties DEF TextLines
  <2>2. Place(e) <= Place(e) + Len(s)
    BY ONLY <2>1
  <2>. QED
    BY <1>5, <1>6, <2>2 DEF Noted
<1>7. CASE fit # <<>>
  <2>1. Len(fit) \in 1 .. Tab
    <3>1. Len(fit) # 0
      BY <1>3, <1>7, EmptySeq DEF TextLines
    <3>2. Len(s) \in Nat
      BY LenProperties DEF TextLines
    <3>3. k \in Nat /\ k <= Len(s)
      BY <1>2, <3>2
    <3>. HIDE DEF fit, k
    <3>. QED
      BY <1>3, <3>1, <3>2, <3>3, LimitsAssumption
  <2>. DEFINE n == (v \o fit) \o w
  <2>. HIDE DEF fit, v, w, k, l
  <2>2. n \in TextLines /\ Len(n) = e.col + Len(fit) + (Len(l) - e.col) /\ v \o fit \in TextLines
        /\ v \in Texts /\ w \in Texts /\ fit \in Texts /\ Len(fit) \in Nat
    <3>1. v \in TextLines /\ w \in TextLines /\ fit \in TextLines
      BY <1>3, <1>4
    <3>2. v \o fit \in TextLines /\ Len(v \o fit) = Len(v) + Len(fit) /\ v \in Texts /\ fit \in Texts
          /\ Len(fit) \in Nat
      BY ONLY <3>1, LinesJoin
    <3>3. n \in TextLines /\ Len(n) = Len(v \o fit) + Len(w) /\ w \in Texts
      BY ONLY <3>1, <3>2, LinesJoin DEF n
    <3>. HIDE DEF n
    <3>. QED
      BY <1>4, <3>2, <3>3
  <2>3. Len(n) < MaxLen /\ e.col + Len(fit) \in 0 .. Len(n) /\ e.col + Len(fit) \in Nat
    <3>. HIDE DEF n
    <3>. QED
      BY <1>1, <1>2, <1>3, <2>2, LimitsAssumption
  <2>4. /\ f \in Records /\ f.lines = [e.lines EXCEPT ![e.row] = n] /\ f.row = e.row
        /\ f.col = e.col + Len(fit) /\ f.modified = TRUE
    <3>1. f = [e EXCEPT !.lines[e.row] = n, !.col = e.col + Len(fit), !.modified = TRUE]
      OBVIOUS
    <3>. HIDE DEF f, n
    <3>2. [e.lines EXCEPT ![e.row] = n] \in Seq(Seq(Glyphs)) /\ e \in Records
      BY <2>2, Replaced
    <3>. QED
      BY ONLY <2>3, <3>1, <3>2 DEF Records
  <2>. HIDE DEF f
  <2>5. /\ Buffer(f) /\ Text(f) = (Above(e) \o n) \o Behind(e)
        /\ Place(f) = Len(Above(e)) + (e.col + Len(fit))
    <3>. HIDE DEF n
    <3>. QED
      BY <2>2, <2>3, <2>4, MakePut
  <2>6. /\ Above(e) \in Texts /\ Behind(e) \in Texts /\ Text(e) = (Above(e) \o l) \o Behind(e)
        /\ Place(e) = Len(Above(e)) + e.col /\ Len(Above(e)) \in Nat
    BY TextIs, TextsJoin DEF l
  <2>. DEFINE a == Above(e) \o v
              b == w \o Behind(e)
  <2>7. v \in Texts /\ w \in Texts /\ fit \in Texts /\ Above(e) \in Texts /\ Behind(e) \in Texts
    BY <2>2, <2>6
  <2>8. /\ (Above(e) \o (v \o w)) \o Behind(e) = a \o b
        /\ (Above(e) \o ((v \o fit) \o w)) \o Behind(e) = (a \o fit) \o b
        /\ a \in Texts /\ b \in Texts /\ Len(a) = Len(Above(e)) + Len(v)
    <3>1. IsSpread(Above(e), v, fit, w, Behind(e))
      BY ONLY <2>7, Spread
    <3>. QED
      BY ONLY <3>1 DEF IsSpread
  <2>9. Text(e) = a \o b /\ Text(f) = (a \o fit) \o b /\ Len(a) = Len(Above(e)) + e.col
    BY ONLY <1>4, <2>5, <2>6, <2>8 DEF n
  <2>10. Place(e) = Len(a) /\ Place(f) = Len(a) + Len(fit)
    <3>. HIDE DEF a
    <3>. QED
      BY <1>1, <2>2, <2>5, <2>6, <2>9
  <2>11. Types(e, f)
    <3>. HIDE DEF a, b
    <3>. QED
      BY <2>1, <2>2, <2>8, <2>9, <2>10 DEF Types
  <2>12. Insert(e, s) = f /\ Noted(e, f)
    BY <1>5, <1>7, <2>4 DEF Noted
  <2>13. Place(f) <= Place(e) + Len(s)
    <3>1. PICK before, kept, typed : before = Len(a) /\ kept = Len(fit) /\ typed = Len(s)
      OBVIOUS
    <3>2. before \in Nat /\ kept \in Nat /\ typed \in Nat /\ kept <= typed
      <4>1. Len(s) \in Nat
        BY LenProperties DEF TextLines
      <4>2. k \in 0 .. Len(s) /\ Len(fit) = k
        BY <1>2, <1>3
      <4>3. Len(a) \in Nat
        BY <2>8, TextsJoin
      <4>. QED
        BY ONLY <3>1, <4>1, <4>2, <4>3
    <3>3. before + kept <= before + typed
      BY ONLY <3>2
    <3>. QED
      BY ONLY <2>10, <3>1, <3>3
  <2>. QED
    BY <2>5, <2>11, <2>12, <2>13
<1>. QED
  BY <1>6, <1>7

\* A character goes from a line at place k, which is the cursor's or before it.
IsWithout(n, l, k, v, w) ==
    /\ v \in TextLines /\ w \in TextLines /\ Len(v) = k - 1 /\ Len(w) = Len(l) - k
    /\ n = v \o w /\ l = (v \o <<l[k]>>) \o w /\ l[k] \in Glyphs
    /\ n \in TextLines /\ Len(n) = Len(l) - 1

LEMMA RemoveIs ==
  ASSUME NEW l \in TextLines, NEW k \in 1 .. Len(l)
  PROVE  IsWithout(RemoveAt(l, k), l, k, SubSeq(l, 1, k - 1), SubSeq(l, k + 1, Len(l)))
<1>1. Len(l) \in Nat
  BY LenProperties DEF TextLines
<1>2. k \in 0 .. Len(l) /\ k - 1 \in 0 .. Len(l) /\ k > 0
  BY <1>1
<1>3. /\ SubSeq(l, 1, k - 1) \in TextLines /\ Len(SubSeq(l, 1, k - 1)) = k - 1
      /\ SubSeq(l, k + 1, Len(l)) \in TextLines /\ Len(SubSeq(l, k + 1, Len(l))) = Len(l) - k
      /\ l = SubSeq(l, 1, k) \o SubSeq(l, k + 1, Len(l))
      /\ l[k] \in Glyphs /\ SubSeq(l, 1, k) = SubSeq(l, 1, k - 1) \o <<l[k]>>
  BY <1>2, LineSplits
<1>4. RemoveAt(l, k) = SubSeq(l, 1, k - 1) \o SubSeq(l, k + 1, Len(l))
  BY DEF RemoveAt
<1>5. RemoveAt(l, k) \in TextLines /\ Len(RemoveAt(l, k)) = (k - 1) + (Len(l) - k)
  BY <1>3, <1>4, LinesJoin
<1>6. (k - 1) + (Len(l) - k) = Len(l) - 1
  BY <1>1
<1>. QED
  BY <1>3, <1>4, <1>5, <1>6 DEF IsWithout

\* The text loses the character after p others.
LosesAt(e, f, p) ==
    \E a, b \in Texts, c \in Characters :
        Len(a) = p /\ Text(e) = (a \o <<c>>) \o b /\ Text(f) = a \o b

\* The text without one character of the cursor's line.
LEMMA RemoveKeeps ==
  ASSUME NEW e, Buffer(e), NEW k \in 1 .. Len(Line(e)), NEW c \in 0 .. Len(Line(e)) - 1, NEW f,
         f = [e EXCEPT !.lines[e.row] = RemoveAt(Line(e), k), !.col = c, !.modified = TRUE]
  PROVE  /\ Buffer(f) /\ f.modified = TRUE /\ Place(f) = Len(Above(e)) + c
         /\ LosesAt(e, f, Len(Above(e)) + k - 1)
<1>. DEFINE l == Line(e)
            v == SubSeq(l, 1, k - 1)
            w == SubSeq(l, k + 1, Len(l))
            n == RemoveAt(l, k)
<1>1. l \in TextLines /\ Len(l) \in Nat /\ Len(l) < MaxLen
  BY BufferIs
<1>2. /\ v \in TextLines /\ w \in TextLines /\ Len(v) = k - 1 /\ Len(w) = Len(l) - k
      /\ n = v \o w /\ l = (v \o <<l[k]>>) \o w /\ l[k] \in Glyphs
      /\ n \in TextLines /\ Len(n) = Len(l) - 1
  <2>. HIDE DEF l
  <2>1. k \in 1 .. Len(l)
    BY DEF l
  <2>2. IsWithout(n, l, k, v, w)
    BY <1>1, <2>1, RemoveIs
  <2>. QED
    BY <2>2 DEF IsWithout
<1>3. c \in Nat /\ Len(n) < MaxLen /\ c \in 0 .. Len(n)
  <2>1. Len(n) = Len(l) - 1 /\ k \in 1 .. Len(l) /\ c \in 0 .. Len(l) - 1
    BY <1>2
  <2>. HIDE DEF n, l
  <2>. QED
    BY <1>1, <2>1, LimitsAssumption
<1>4. /\ f \in Records /\ f.lines = [e.lines EXCEPT ![e.row] = n] /\ f.row = e.row
      /\ f.col = c /\ f.modified = TRUE
  <2>1. f = [e EXCEPT !.lines[e.row] = n, !.col = c, !.modified = TRUE]
    OBVIOUS
  <2>. HIDE DEF n
  <2>2. [e.lines EXCEPT ![e.row] = n] \in Seq(Seq(Glyphs)) /\ e \in Records
    BY <1>2, Replaced
  <2>. QED
    BY ONLY <1>3, <2>1, <2>2 DEF Records
<1>5. Buffer(f) /\ Text(f) = (Above(e) \o n) \o Behind(e) /\ Place(f) = Len(Above(e)) + c
  <2>1. Buffer(e) /\ n \in TextLines /\ Len(n) < MaxLen /\ f \in Records /\ f.row = e.row
        /\ f.lines = [e.lines EXCEPT ![e.row] = n] /\ f.col \in 0 .. Len(n) /\ f.col = c
    BY <1>2, <1>3, <1>4
  <2>. HIDE DEF n
  <2>2. Buffer(f) /\ Text(f) = (Above(e) \o n) \o Behind(e) /\ Place(f) = Len(Above(e)) + f.col
    BY ONLY <2>1, MakePut
  <2>. QED
    BY <2>1, <2>2
<1>6. /\ Above(e) \in Texts /\ Behind(e) \in Texts /\ Text(e) = (Above(e) \o l) \o Behind(e)
      /\ Len(Above(e)) \in Nat
  BY TextIs, TextsJoin
<1>. HIDE DEF v, w, n, l
<1>7. v \in Texts /\ w \in Texts /\ l[k] \in Characters
  BY <1>2, LinesAreTexts
<1>8. PICK x \in Texts : x = <<l[k]>>
  BY <1>7, TextsJoin
<1>. DEFINE a == Above(e) \o v
            b == w \o Behind(e)
<1>9. v \in Texts /\ x \in Texts /\ w \in Texts /\ Above(e) \in Texts /\ Behind(e) \in Texts
  BY <1>6, <1>7, <1>8
<1>10. /\ (Above(e) \o (v \o w)) \o Behind(e) = a \o b
       /\ (Above(e) \o ((v \o x) \o w)) \o Behind(e) = (a \o x) \o b
       /\ a \in Texts /\ b \in Texts /\ Len(a) = Len(Above(e)) + Len(v)
  <2>1. IsSpread(Above(e), v, x, w, Behind(e))
    BY ONLY <1>9, Spread
  <2>. QED
    BY ONLY <2>1 DEF IsSpread
<1>11. Text(e) = (a \o x) \o b /\ Text(f) = a \o b
  BY ONLY <1>2, <1>5, <1>6, <1>8, <1>10
<1>12. Len(a) = Len(Above(e)) + k - 1
  <2>. HIDE DEF a
  <2>. QED
    BY <1>2, <1>6, <1>10
<1>13. LosesAt(e, f, Len(Above(e)) + k - 1)
  <2>. HIDE DEF a, b
  <2>. QED
    BY <1>7, <1>8, <1>10, <1>11, <1>12 DEF LosesAt
<1>. QED
  BY <1>4, <1>5, <1>13

LEMMA DeleteCharKeeps ==
  ASSUME NEW e, Buffer(e)
  PROVE  /\ Buffer(DeleteChar(e)) /\ Noted(e, DeleteChar(e))
         /\ DeleteChar(e) = e \/ Nips(e, DeleteChar(e))
<1>1. CASE e.col >= Len(Line(e))
  BY <1>1 DEF DeleteChar, Noted
<1>2. CASE ~(e.col >= Len(Line(e)))
  <2>. DEFINE f == [e EXCEPT !.lines[e.row] = RemoveAt(Line(e), e.col + 1), !.col = e.col, !.modified = TRUE]
  <2>1. e.col \in 0 .. Len(Line(e)) /\ Len(Line(e)) \in Nat /\ e \in Records
    BY BufferIs DEF Buffer, Records
  <2>2. DeleteChar(e) = f
    <3>1. DeleteChar(e) = [e EXCEPT !.lines[e.row] = RemoveAt(@, e.col + 1), !.modified = TRUE]
      BY <1>2 DEF DeleteChar
    <3>2. Line(e) = e.lines[e.row]
      BY DEF Line
    <3>. QED
      BY <2>1, <3>1, <3>2 DEF Records
  <2>3. e.col + 1 \in 1 .. Len(Line(e)) /\ e.col \in 0 .. Len(Line(e)) - 1 /\ e.col < Len(Line(e))
    BY <1>2, <2>1
  <2>4. f = [e EXCEPT !.lines[e.row] = RemoveAt(Line(e), e.col + 1), !.col = e.col, !.modified = TRUE]
    OBVIOUS
  <2>. HIDE DEF f
  <2>5. Buffer(f) /\ f.modified = TRUE /\ Place(f) = Len(Above(e)) + e.col
    BY <2>3, <2>4, RemoveKeeps
  <2>6. PICK a \in Texts, b \in Texts, ch \in Characters :
            /\ Len(a) = Len(Above(e)) + (e.col + 1) - 1
            /\ Text(e) = (a \o <<ch>>) \o b /\ Text(f) = a \o b
    <3>1. LosesAt(e, f, Len(Above(e)) + (e.col + 1) - 1)
      BY <2>3, <2>4, RemoveKeeps
    <3>. QED
      BY <3>1 DEF LosesAt
  <2>7. Place(e) = Len(Above(e)) + e.col /\ Len(Above(e)) \in Nat
    BY TextIs, TextsJoin
  <2>8. Len(a) = Place(e) /\ Place(f) = Len(a)
    BY <2>1, <2>5, <2>6, <2>7
  <2>9. Nips(e, f)
    BY <2>3, <2>6, <2>8 DEF Nips
  <2>. QED
    BY <2>2, <2>5, <2>9 DEF Noted
<1>. QED
  BY <1>1, <1>2


\* One more line under others.
LEMMA EndedLine ==
  ASSUME NEW u \in Seq(TextLines), NEW l \in TextLines
  PROVE  /\ u \o <<l>> \in Seq(TextLines) /\ Len(u \o <<l>>) = Len(u) + 1 /\ Len(u) \in Nat
         /\ Ended(u \o <<l>>) = Ended(u) \o (l \o <<NL>>)
         /\ Short(u) /\ Len(l) < MaxLen => Short(u \o <<l>>)
<1>1. /\ u \o <<l>> = Append(u, l) /\ Append(u, l) \in Seq(TextLines) /\ Len(Append(u, l)) = Len(u) + 1
      /\ Len(u) \in Nat /\ \A i \in 1 .. Len(u) + 1 : Append(u, l)[i] = IF i <= Len(u) THEN u[i] ELSE l
  BY AppendIsConcat, AppendProperties, LenProperties
<1>2. Ended(Append(u, l)) = Ended(u) \o Append(l, NL)
  BY EndedRules
<1>3. Append(l, NL) = l \o <<NL>>
  BY LinesAreTexts, TextsJoin
<1>4. ASSUME Short(u), Len(l) < MaxLen PROVE Short(Append(u, l))
  BY <1>1, <1>4 DEF Short
<1>. QED
  BY ONLY <1>1, <1>2, <1>3, <1>4

\* Lines that are not none have a last one.
EndsIn(u, v, p) ==
    /\ u = v \o <<p>> /\ Len(v) = Len(u) - 1 /\ u[Len(u)] = p
    /\ Short(u) => Short(v) /\ Len(p) < MaxLen

LEMMA LastLine ==
  ASSUME NEW u \in Seq(TextLines), Len(u) # 0
  PROVE  \E v \in Seq(TextLines), p \in TextLines : EndsIn(u, v, p)
<1>. DEFINE n == Len(u)
            v == SubSeq(u, 1, n - 1)
<1>1. n \in Nat \ {0} /\ u[n] \in TextLines /\ \A i \in 1 .. n : u[i] \in TextLines
  BY LenProperties, ElementOfSeq
<1>2. v = [i \in 1 .. n - 1 |-> u[i]] /\ n - 1 \in Nat /\ \A i \in 1 .. n - 1 : u[i] \in TextLines
  BY <1>1
<1>3. v \in Seq(TextLines) /\ Len(v) = n - 1
  <2>. HIDE DEF v, n
  <2>. QED
    BY <1>2, IsASeq
<1>4. u = v \o <<u[n]>>
  <2>1. 1 \in 1 .. Len(u) /\ n \in 1 .. Len(u)
    BY <1>1
  <2>2. SubSeq(u, 1, n) = SubSeq(u, 1, n - 1) \o <<u[n]>>
    BY <2>1, SubSeqRecursiveSecond
  <2>3. SubSeq(u, 1, n) = u
    BY SubSeqFull
  <2>. QED
    BY <2>2, <2>3
<1>5. Short(u) => Short(v) /\ Len(u[n]) < MaxLen
  BY <1>1, <1>2, <1>3 DEF Short
<1>6. EndsIn(u, v, u[n])
  BY <1>3, <1>4, <1>5 DEF EndsIn
<1>. QED
  BY <1>1, <1>3, <1>6

\* The lines with an empty one put under that of the cursor.
LEMMA LineOpened ==
  ASSUME NEW e, Buffer(e)
  PROVE  /\ InsertAt(e.lines, e.row + 1, <<>>) = (Upper(e) \o <<Line(e)>>) \o <<<<>>>> \o Lower(e)
         /\ InsertLineAfter(e) = [e EXCEPT !.lines = (Upper(e) \o <<Line(e)>>) \o <<<<>>>> \o Lower(e)]
         /\ Upper(e) \o <<Line(e)>> \in Seq(TextLines) /\ Len(Upper(e) \o <<Line(e)>>) = e.row
         /\ Ended(Upper(e) \o <<Line(e)>>) = Above(e) \o (Line(e) \o <<NL>>)
         /\ Short(Upper(e) \o <<Line(e)>>)
<1>. DEFINE h == Upper(e) \o <<Line(e)>>
<1>1. /\ Upper(e) \in Seq(TextLines) /\ Lower(e) \in Seq(TextLines) /\ Line(e) \in TextLines
      /\ e.lines = h \o Lower(e) /\ Len(Upper(e)) = e.row - 1 /\ e.row \in 1 .. Len(e.lines)
      /\ Len(Line(e)) < MaxLen /\ Short(Upper(e)) /\ Len(e.lines) \in 1 .. MaxLines
  BY BufferIs, NeighboursAreShort
<1>2. h \in Seq(TextLines) /\ Len(h) = Len(Upper(e)) + 1 /\ Ended(h) = Ended(Upper(e)) \o (Line(e) \o <<NL>>) /\ Short(h)
  BY <1>1, EndedLine
<1>. HIDE DEF h
<1>3. SubSeq(e.lines, 1, Len(h)) = h
  BY <1>1, <1>2, SeqParts
<1>4. Len(h) = e.row /\ (e.row + 1) - 1 = e.row
  BY <1>1, <1>2
<1>5. InsertAt(e.lines, e.row + 1, <<>>) = h \o <<<<>>>> \o Lower(e)
  BY <1>3, <1>4 DEF InsertAt, Lower
<1>. QED
  BY <1>2, <1>4, <1>5 DEF InsertLineAfter, Above, h

\* A text broken by an x between a and d.
IsBroken(a, v, x, w, d) ==
    /\ ((a \o (v \o x)) \o w) \o d = ((a \o v) \o x) \o (w \o d)
    /\ (a \o (v \o w)) \o d = (a \o v) \o (w \o d)
    /\ (a \o (v \o x)) \o d = (a \o v) \o (x \o d)
    /\ a \o v \in Texts /\ w \o d \in Texts /\ Len(a \o v) = Len(a) + Len(v)
    /\ Len(a \o (v \o x)) = Len(a) + Len(v) + Len(x)

LEMMA Broken ==
  ASSUME NEW a \in Texts, NEW v \in Texts, NEW x \in Texts, NEW w \in Texts, NEW d \in Texts
  PROVE  IsBroken(a, v, x, w, d)
<1>1. /\ v \o x \in Texts /\ a \o v \in Texts /\ w \o d \in Texts /\ Len(a \o v) = Len(a) + Len(v)
      /\ Len(v \o x) = Len(v) + Len(x) /\ Len(a) \in Nat /\ Len(v) \in Nat /\ Len(x) \in Nat
  BY Joined
<1>2. a \o (v \o x) \in Texts /\ (a \o v) \o x \in Texts /\ Len(a \o (v \o x)) = Len(a) + Len(v \o x)
  BY <1>1, Joined
<1>3. /\ Associates(a, v, x) /\ Associates((a \o v) \o x, w, d)
      /\ Associates(a, v, w) /\ Associates(a \o v, w, d) /\ Associates(a \o v, x, d)
  BY <1>1, <1>2, Associative
<1>4. /\ a \o (v \o x) = (a \o v) \o x /\ (((a \o v) \o x) \o w) \o d = ((a \o v) \o x) \o (w \o d)
      /\ (a \o (v \o w)) \o d = (a \o v) \o (w \o d) /\ ((a \o v) \o x) \o d = (a \o v) \o (x \o d)
  BY ONLY <1>3 DEF Associates
<1>5. Len(a \o (v \o x)) = Len(a) + Len(v) + Len(x)
  BY <1>1, <1>2
<1>. QED
  BY ONLY <1>1, <1>4, <1>5 DEF IsBroken

LEMMA LinesAssociate ==
  ASSUME NEW r \in Seq(TextLines), NEW s \in Seq(TextLines), NEW t \in Seq(TextLines)
  PROVE  Associates(r, s, t)
BY ConcatAssociative DEF Associates

\* The same with another line under the one that is put.
LEMMA UpperPut ==
  ASSUME NEW u \in Seq(TextLines), NEW k \in TextLines, NEW m \in TextLines, NEW d \in Seq(TextLines),
         NEW l \in TextLines, NEW z, z = (u \o <<k>>) \o <<m>> \o d, NEW j, j = Len(u) + 1
  PROVE  IsPut(z, j, l, (u \o <<l>>) \o <<m>> \o d) /\ z[j] = k
<1>1. PICK x \in Seq(TextLines) : x = <<m>>
  <2>1. <<m>> \in Seq(TextLines)
    OBVIOUS
  <2>. QED
    BY <2>1
<1>2. PICK g \in Seq(TextLines) : g = x \o d
  BY ConcatProperties
<1>3. u \o <<k>> \in Seq(TextLines) /\ u \o <<l>> \in Seq(TextLines)
  BY EndedLine
<1>4. (u \o <<k>>) \o x \o d = (u \o <<k>>) \o g /\ (u \o <<l>>) \o x \o d = (u \o <<l>>) \o g
  <2>1. Associates(u \o <<k>>, x, d) /\ Associates(u \o <<l>>, x, d)
    BY <1>3, LinesAssociate
  <2>. QED
    BY ONLY <1>2, <2>1 DEF Associates
<1>5. /\ u \in Seq(TextLines) /\ k \in TextLines /\ g \in Seq(TextLines) /\ l \in TextLines
      /\ z = u \o <<k>> \o g /\ j = Len(u) + 1
  BY ONLY <1>1, <1>2, <1>4, u \in Seq(TextLines), k \in TextLines, l \in TextLines, j = Len(u) + 1,
          z = (u \o <<k>>) \o <<m>> \o d
<1>6. IsPut(z, j, l, u \o <<l>> \o g)
  BY ONLY <1>5, LinesPut
<1>7. z[j] = k
  <2>1. IsAround(z, u, k, g)
    BY ONLY <1>5, Around
  <2>2. Len(u) + 1 \in 1 .. Len(u) + 1 + Len(g) /\ ~ (Len(u) + 1 <= Len(u))
    BY ONLY <2>1 DEF IsAround
  <2>. QED
    BY ONLY <1>5, <2>1, <2>2 DEF IsAround
<1>. QED
  BY ONLY <1>1, <1>4, <1>6, <1>7

\* A line feed is typed, and the line is split there.
LEMMA SplitKeeps ==
  ASSUME NEW e, Buffer(e)
  PROVE  /\ Buffer(SplitLine(e)) /\ Noted(e, SplitLine(e))
         /\ SplitLine(e) = e \/ Types(e, SplitLine(e))
<1>1. CASE ~HasRoom(e)
  BY <1>1 DEF SplitLine, Noted
<1>2. CASE HasRoom(e)
  <2>. DEFINE l == Line(e)
              v == SubSeq(l, 1, e.col)
              w == SubSeq(l, e.col + 1, Len(l))
              u == Upper(e)
              d == Lower(e)
              z == (u \o <<l>>) \o <<<<>>>> \o d
              y == (u \o <<v>>) \o <<w>> \o d
              f == SplitLine(e)
  <2>1. /\ l \in TextLines /\ Len(l) \in Nat /\ Len(l) < MaxLen /\ e.col \in 0 .. Len(l) /\ e.col \in Nat
        /\ u \in Seq(TextLines) /\ d \in Seq(TextLines) /\ Len(u) = e.row - 1 /\ Len(d) = Len(e.lines) - e.row
        /\ e.row \in 1 .. Len(e.lines) /\ Len(e.lines) \in 1 .. MaxLines /\ e \in Records
        /\ Short(u) /\ Short(d)
    BY BufferIs, NeighboursAreShort DEF Buffer, Records
  <2>2. Len(e.lines) < MaxLines
    BY <1>2 DEF HasRoom
  <2>3. v \in TextLines /\ Len(v) = e.col /\ w \in TextLines /\ Len(w) = Len(l) - e.col /\ l = v \o w
    <3>. HIDE DEF l
    <3>. QED
      BY <2>1, LineSplits
  <2>4. /\ InsertLineAfter(e) = [e EXCEPT !.lines = z]
        /\ u \o <<l>> \in Seq(TextLines) /\ Len(u \o <<l>>) = e.row
    BY LineOpened
  <2>5. /\ u \o <<v>> \in Seq(TextLines) /\ Len(u \o <<v>>) = Len(u) + 1
        /\ Ended(u \o <<v>>) = Ended(u) \o (v \o <<NL>>) /\ Short(u \o <<v>>)
    <3>1. Len(v) < MaxLen
      <4>. HIDE DEF v, l
      <4>. QED
        BY <2>1, <2>3, LimitsAssumption
    <3>. HIDE DEF v, l, u, d
    <3>. QED
      BY <2>1, <2>3, <3>1, EndedLine
  <2>. HIDE DEF v, w, l, u, d
  <2>6. IsPut(z, e.row, v, (u \o <<v>>) \o <<<<>>>> \o d) /\ z[e.row] = l
    <3>1. /\ u \in Seq(TextLines) /\ l \in TextLines /\ <<>> \in TextLines /\ d \in Seq(TextLines)
          /\ v \in TextLines /\ e.row = Len(u) + 1
      BY <2>1, <2>3, LinesAreTexts
    <3>2. z = (u \o <<l>>) \o <<<<>>>> \o d
      OBVIOUS
    <3>. HIDE DEF z
    <3>3. IsPut(z, e.row, v, (u \o <<v>>) \o <<<<>>>> \o d)
      BY ONLY <3>1, <3>2, UpperPut
    <3>4. z[e.row] = l
      BY ONLY <3>1, <3>2, UpperPut
    <3>. QED
      BY <3>3, <3>4
  <2>7. PICK z1 : z1 = (u \o <<v>>) \o <<<<>>>> \o d
    OBVIOUS
  <2>8. IsPut(z1, e.row + 1, w, y)
    <3>1. /\ u \o <<v>> \in Seq(TextLines) /\ <<>> \in TextLines /\ d \in Seq(TextLines)
          /\ w \in TextLines /\ e.row + 1 = Len(u \o <<v>>) + 1
      BY <2>1, <2>3, <2>5, LinesAreTexts
    <3>. QED
      BY ONLY <2>7, <3>1, LinesPut
  <2>9. z1 = [z EXCEPT ![e.row] = v] /\ y = [z1 EXCEPT ![e.row + 1] = w] /\ y \in Seq(TextLines)
    BY ONLY <2>6, <2>7, <2>8 DEF IsPut
  <2>23. z \in Seq(TextLines)
    <3>1. IsAround(z, u \o <<l>>, <<>>, d)
      BY <2>1, <2>4, LinesAreTexts, Around DEF l, u, d
    <3>. QED
      BY ONLY <3>1 DEF IsAround
  <2>10. f = [[e EXCEPT !.lines = z] EXCEPT !.lines[e.row] = SubSeq(@, 1, e.col), !.lines[e.row + 1] = w,
                                            !.row = @ + 1, !.col = 0, !.modified = TRUE]
    BY <1>2, <2>4 DEF SplitLine, w, l
  <2>11. SubSeq(z[e.row], 1, e.col) = v
    BY <2>6 DEF v
  <2>. HIDE DEF z, y, f
  <2>12. f \in Records /\ f.lines = y /\ f.row = e.row + 1 /\ f.col = 0 /\ f.modified = TRUE
    <3>1. /\ e.row \in Nat /\ e.row # e.row + 1 /\ e \in Records
          /\ y \in Seq(Seq(Glyphs)) /\ z \in Seq(Seq(Glyphs))
      BY <2>1, <2>9, <2>23 DEF TextLines
    <3>2. PICK g : g = [e EXCEPT !.lines = z]
      OBVIOUS
    <3>3. g \in Records /\ g.lines = z /\ g.row = e.row
      BY ONLY <3>1, <3>2 DEF Records
    <3>4. f = [g EXCEPT !.lines[e.row] = SubSeq(@, 1, e.col), !.lines[e.row + 1] = w,
                        !.row = @ + 1, !.col = 0, !.modified = TRUE]
      BY ONLY <2>10, <3>2
    <3>5. f = [g EXCEPT !.lines = [[z EXCEPT ![e.row] = SubSeq(z[e.row], 1, e.col)] EXCEPT ![e.row + 1] = w],
                        !.row = e.row + 1, !.col = 0, !.modified = TRUE]
      BY ONLY <3>1, <3>3, <3>4 DEF Records
    <3>6. f = [g EXCEPT !.lines = y, !.row = e.row + 1, !.col = 0, !.modified = TRUE]
      BY ONLY <2>9, <2>11, <3>5
    <3>7. PICK r \in Nat : r = e.row + 1
      BY <3>1
    <3>8. f = [g EXCEPT !.lines = y, !.row = r, !.col = 0, !.modified = TRUE]
      BY <3>6, <3>7
    <3>9. f \in Records /\ f.lines = y /\ f.row = r /\ f.col = 0 /\ f.modified = TRUE
      BY ONLY <3>1, <3>3, <3>8, r \in Nat DEF Records
    <3>. QED
      BY <3>7, <3>9
  <2>13. /\ Buffer(f) /\ Text(f) = (Ended(u \o <<v>>) \o w) \o Rest(d)
         /\ Place(f) = Len(Ended(u \o <<v>>)) + f.col
    <3>1. Len(w) < MaxLen /\ f.col \in 0 .. Len(w) /\ f.row = Len(u \o <<v>>) + 1
          /\ Len(u \o <<v>>) + 1 + Len(d) <= MaxLines
      <4>1. PICK m : m = Len(u \o <<v>>)
        OBVIOUS
      <4>2. m = e.row
        BY <2>1, <2>5, <4>1
      <4>3. Len(w) < MaxLen /\ f.col \in 0 .. Len(w)
        BY <2>1, <2>3, <2>12, LimitsAssumption
      <4>4. Len(d) = Len(e.lines) - e.row /\ Len(e.lines) + 1 <= MaxLines /\ m = e.row /\ f.row = e.row + 1
        BY <2>1, <2>2, <2>12, <4>2, LimitsAssumption
      <4>5. m + 1 + Len(d) = Len(e.lines) + 1
        BY <2>1, <4>4
      <4>. QED
        BY <4>1, <4>3, <4>4, <4>5
    <3>2. /\ f \in [lines : Seq(Seq(Glyphs)), row : Nat, col : Nat, modified : BOOLEAN]
          /\ u \o <<v>> \in Seq(TextLines) /\ w \in TextLines /\ d \in Seq(TextLines)
          /\ f.lines = (u \o <<v>>) \o <<w>> \o d /\ Short(u \o <<v>>) /\ Short(d)
      BY <2>1, <2>3, <2>5, <2>12 DEF Records, y
    <3>. QED
      BY ONLY <3>1, <3>2, MakeBuffer
  <2>14. /\ Above(e) \in Texts /\ Behind(e) \in Texts /\ Text(e) = (Above(e) \o l) \o Behind(e)
         /\ Place(e) = Len(Above(e)) + e.col /\ Ended(u) = Above(e) /\ Rest(d) = Behind(e)
    BY TextIs DEF l, u, d, Above, Behind
  <2>15. PICK x \in Texts : x = <<NL>> /\ Len(x) = 1
    BY LinesAreTexts
  <2>16. v \in Texts /\ w \in Texts
    BY <2>3, LinesAreTexts
  <2>17. IsBroken(Above(e), v, x, w, Behind(e))
    BY <2>14, <2>15, <2>16, Broken
  <2>18. /\ Text(e) = (Above(e) \o v) \o (w \o Behind(e))
         /\ Text(f) = ((Above(e) \o v) \o x) \o (w \o Behind(e))
         /\ Above(e) \o v \in Texts /\ w \o Behind(e) \in Texts
         /\ Len(Above(e) \o v) = Len(Above(e)) + Len(v)
         /\ Len(Ended(u \o <<v>>)) = Len(Above(e)) + Len(v) + Len(x)
    BY ONLY <2>3, <2>5, <2>13, <2>14, <2>15, <2>17 DEF IsBroken
  <2>19. PICK a \in Texts, b \in Texts : a = Above(e) \o v /\ b = w \o Behind(e)
    BY <2>18
  <2>20. Text(e) = a \o b /\ Text(f) = (a \o x) \o b /\ Len(a) = Len(Above(e)) + e.col
    BY ONLY <2>3, <2>18, <2>19
  <2>21. Place(e) = Len(a) /\ Place(f) = Len(a) + Len(x) /\ Len(x) \in 1 .. Tab
    <3>1. Len(a) \in Nat /\ Len(Above(e)) \in Nat
      BY <2>14, Joined
    <3>2. Place(f) = Len(Above(e)) + Len(v) + Len(x)
      BY <2>12, <2>13, <2>15, <2>18, <2>1, <2>3, <3>1
    <3>. QED
      BY <2>1, <2>3, <2>14, <2>15, <2>20, <3>1, <3>2, LimitsAssumption
  <2>22. Types(e, f)
    BY ONLY <2>15, <2>19, <2>20, <2>21 DEF Types
  <2>. QED
    BY <2>12, <2>13, <2>22 DEF Noted, f
<1>. QED
  BY <1>1, <1>2

\* A line opened under the cursor's.
LEMMA OpenKeeps ==
  ASSUME NEW e, Buffer(e), HasRoom(e)
  PROVE  Buffer(OpenBelow(e)) /\ Noted(e, OpenBelow(e)) /\ Opens(e, OpenBelow(e))
<1>. DEFINE l == Line(e)
            u == Upper(e)
            d == Lower(e)
            h == u \o <<l>>
            z == h \o <<<<>>>> \o d
            f == OpenBelow(e)
<1>1. /\ l \in TextLines /\ u \in Seq(TextLines) /\ d \in Seq(TextLines) /\ Len(d) = Len(e.lines) - e.row
      /\ e.row \in 1 .. Len(e.lines) /\ Len(e.lines) \in 1 .. MaxLines /\ e \in Records /\ Short(d)
  BY BufferIs, NeighboursAreShort DEF Buffer, Records
<1>2. Len(e.lines) < MaxLines
  BY DEF HasRoom
<1>3. /\ InsertLineAfter(e) = [e EXCEPT !.lines = z] /\ h \in Seq(TextLines) /\ Len(h) = e.row
      /\ Ended(h) = Above(e) \o (l \o <<NL>>) /\ Short(h)
  BY LineOpened
<1>. HIDE DEF l, u, d, h
<1>4. z \in Seq(TextLines)
  <2>1. IsAround(z, h, <<>>, d)
    BY <1>1, <1>3, LinesAreTexts, Around
  <2>. QED
    BY ONLY <2>1 DEF IsAround
<1>5. f = [[e EXCEPT !.lines = z] EXCEPT !.row = @ + 1, !.col = 0, !.modified = TRUE]
  BY <1>3 DEF OpenBelow
<1>. HIDE DEF z, f
<1>6. f \in Records /\ f.lines = z /\ f.row = e.row + 1 /\ f.col = 0 /\ f.modified = TRUE
  <2>1. e.row \in Nat /\ e \in Records /\ z \in Seq(Seq(Glyphs))
    BY <1>1, <1>4 DEF TextLines
  <2>2. PICK g : g = [e EXCEPT !.lines = z]
    OBVIOUS
  <2>3. g \in Records /\ g.lines = z /\ g.row = e.row
    BY ONLY <2>1, <2>2 DEF Records
  <2>4. f = [g EXCEPT !.row = g.row + 1, !.col = 0, !.modified = TRUE]
    BY ONLY <1>5, <2>2
  <2>5. PICK r \in Nat : r = e.row + 1
    BY <2>1
  <2>6. f = [g EXCEPT !.row = r, !.col = 0, !.modified = TRUE]
    BY <2>3, <2>4, <2>5
  <2>7. f \in Records /\ f.lines = z /\ f.row = r /\ f.col = 0 /\ f.modified = TRUE
    BY ONLY <2>1, <2>3, <2>6, r \in Nat DEF Records
  <2>. QED
    BY <2>5, <2>7
<1>7. Buffer(f) /\ Text(f) = (Ended(h) \o <<>>) \o Rest(d) /\ Place(f) = Len(Ended(h)) + f.col
  <2>1. Len(<<>>) < MaxLen /\ f.col \in 0 .. Len(<<>>) /\ f.row = Len(h) + 1 /\ Len(h) + 1 + Len(d) <= MaxLines
    <3>1. Len(<<>>) = 0
      OBVIOUS
    <3>. QED
      BY <1>1, <1>2, <1>3, <1>6, <3>1, LimitsAssumption
  <2>2. /\ f \in [lines : Seq(Seq(Glyphs)), row : Nat, col : Nat, modified : BOOLEAN]
        /\ h \in Seq(TextLines) /\ <<>> \in TextLines /\ d \in Seq(TextLines)
        /\ f.lines = h \o <<<<>>>> \o d /\ Short(h) /\ Short(d)
    BY <1>1, <1>3, <1>6, LinesAreTexts DEF Records, z
  <2>. QED
    BY ONLY <2>1, <2>2, MakeBuffer
<1>8. /\ Above(e) \in Texts /\ Behind(e) \in Texts /\ l \in Texts /\ Rest(d) = Behind(e)
  BY TextIs DEF l, d, Behind
<1>9. PICK x \in Texts : x = <<NL>> /\ Len(x) = 1
  BY LinesAreTexts
<1>10. IsBroken(Above(e), l, x, l, Behind(e))
  BY <1>8, <1>9, Broken
<1>11. /\ (Above(e) \o (l \o x)) \o Behind(e) = (Above(e) \o l) \o (x \o Behind(e))
       /\ Len(Ended(h)) = Len(Above(e)) + Len(l) + 1
  BY ONLY <1>3, <1>9, <1>10 DEF IsBroken
<1>12. Ended(h) \in Texts
  BY <1>3, EndedRules, LinesAreTexts
<1>13. Ended(h) \o <<>> = Ended(h) /\ Len(Ended(h)) \in Nat
  BY <1>12, TextsJoin
<1>14. Text(f) = (Above(e) \o l) \o (<<NL>> \o Behind(e)) /\ Place(f) = Len(Above(e)) + Len(l) + 1
  BY ONLY <1>3, <1>6, <1>7, <1>8, <1>9, <1>11, <1>13
<1>. QED
  BY <1>6, <1>7, <1>14 DEF Noted, Opens, f, l

\* A line joins the one over it, if the two fit together.
LEMMA MergeKeeps ==
  ASSUME NEW e, Buffer(e), e.row # 1, e.col = 0
  PROVE  Buffer(Merge(e)) /\ Noted(e, Merge(e)) /\ (Merge(e) = e \/ Rubs(e, Merge(e)))
<1>. DEFINE l == Line(e)
            u == Upper(e)
            d == Lower(e)
<1>1. /\ l \in TextLines /\ Len(l) \in Nat /\ u \in Seq(TextLines) /\ d \in Seq(TextLines)
      /\ e.row \in 1 .. Len(e.lines) /\ Len(e.lines) \in 1 .. MaxLines /\ Len(u) = e.row - 1
      /\ Len(d) = Len(e.lines) - e.row /\ Short(u) /\ Short(d) /\ e.lines = u \o <<l>> \o d
  BY BufferIs, NeighboursAreShort
<1>2. PICK v \in Seq(TextLines), p \in TextLines : EndsIn(u, v, p)
  <2>1. Len(u) # 0
    BY <1>1
  <2>. HIDE DEF u
  <2>. QED
    BY <1>1, <2>1, LastLine
<1>. HIDE DEF l, u, d
<1>3. /\ u = v \o <<p>> /\ Len(v) = e.row - 2 /\ u[e.row - 1] = p /\ Short(v) /\ Len(p) < MaxLen
      /\ Len(v) \in Nat /\ Len(p) \in Nat
  <2>1. Len(v) \in Nat /\ Len(p) \in Nat
    BY LenProperties DEF TextLines
  <2>2. u = v \o <<p>> /\ Len(v) = Len(u) - 1 /\ u[Len(u)] = p /\ Short(v) /\ Len(p) < MaxLen
    BY <1>1, <1>2 DEF EndsIn
  <2>3. PICK m : m = Len(u)
    OBVIOUS
  <2>4. m = e.row - 1 /\ Len(v) = m - 1 /\ u[m] = p
    BY <1>1, <2>2, <2>3
  <2>5. Len(v) = e.row - 2
    BY <1>1, <2>4
  <2>. QED
    BY ONLY <2>1, <2>2, <2>3, <2>4, <2>5
<1>4. e.lines[e.row - 1] = p
  <2>1. IsAround(e.lines, u, l, d)
    BY <1>1, Around
  <2>2. e.row - 1 \in 1 .. Len(u) + 1 + Len(d) /\ e.row - 1 <= Len(u)
    BY <1>1, <1>3
  <2>3. e.lines[e.row - 1] = u[e.row - 1]
    BY ONLY <2>1, <2>2 DEF IsAround
  <2>. QED
    BY <1>3, <2>3
<1>5. CASE Len(p) + Len(l) >= MaxLen
  BY <1>4, <1>5 DEF Merge, Noted, l
<1>6. CASE ~(Len(p) + Len(l) >= MaxLen)
  <2>. DEFINE k == p \o l
              z == (v \o <<p>>) \o <<l>> \o d
              y == (v \o <<k>>) \o <<l>> \o d
              f == Merge(e)
  <2>1. k \in TextLines /\ Len(k) = Len(p) + Len(l) /\ p \in Texts /\ l \in Texts
    BY <1>1, LinesJoin
  <2>2. Len(k) < MaxLen /\ Len(p) \in 0 .. Len(k)
    <3>1. PICK m, n, o : m = Len(p) /\ n = Len(l) /\ o = Len(k)
      OBVIOUS
    <3>2. m \in Nat /\ n \in Nat /\ o = m + n /\ ~(m + n >= MaxLen) /\ MaxLen \in Nat
      BY <1>1, <1>3, <1>6, <2>1, <3>1, LimitsAssumption
    <3>3. o < MaxLen /\ m \in 0 .. o
      BY ONLY <3>2
    <3>. QED
      BY <3>1, <3>3
  <2>. HIDE DEF k
  <2>3. e.lines = z
    BY <1>1, <1>3
  <2>4. IsPut(z, e.row - 1, k, y)
    <3>1. /\ v \in Seq(TextLines) /\ p \in TextLines /\ l \in TextLines /\ d \in Seq(TextLines) /\ k \in TextLines
          /\ e.row - 1 = Len(v) + 1
      BY <1>1, <1>3, <2>1
    <3>2. z = (v \o <<p>>) \o <<l>> \o d
      OBVIOUS
    <3>. HIDE DEF z
    <3>. QED
      BY ONLY <3>1, <3>2, UpperPut
  <2>5. /\ v \o <<k>> \in Seq(TextLines) /\ Len(v \o <<k>>) = Len(v) + 1
    BY <2>1, EndedLine
  <2>6. RemoveAt(y, e.row) = v \o <<k>> \o d
    <3>1. IsAround(y, v \o <<k>>, l, d)
      BY <1>1, <2>5, Around
    <3>2. PICK m : m = Len(v \o <<k>>)
      OBVIOUS
    <3>3. m = e.row - 1 /\ m + 2 = e.row + 1
      BY <1>1, <1>3, <2>5, <3>2
    <3>. HIDE DEF y
    <3>4. SubSeq(y, 1, m) = v \o <<k>> /\ SubSeq(y, m + 2, Len(y)) = d
      BY ONLY <3>1, <3>2 DEF IsAround
    <3>. QED
      BY <3>3, <3>4 DEF RemoveAt
  <2>7. f = [lines |-> v \o <<k>> \o d, row |-> e.row - 1, col |-> Len(p), modified |-> TRUE]
    <3>1. [e.lines EXCEPT ![e.row - 1] = k] = y
      BY <2>3, <2>4 DEF IsPut
    <3>2. f = [lines |-> RemoveAt([e.lines EXCEPT ![e.row - 1] = k], e.row),
               row |-> e.row - 1, col |-> Len(p), modified |-> TRUE]
      BY <1>4, <1>6 DEF Merge, k, l
    <3>. HIDE DEF y, f
    <3>. QED
      BY ONLY <2>6, <3>1, <3>2
  <2>. HIDE DEF f
  <2>8. f \in Records /\ f.lines = v \o <<k>> \o d /\ f.row = Len(v) + 1 /\ f.col = Len(p) /\ f.modified = TRUE
    <3>1. IsAround(v \o <<k>> \o d, v, k, d)
      BY <1>1, <2>1, Around
    <3>2. v \o <<k>> \o d \in Seq(TextLines)
      BY ONLY <3>1 DEF IsAround
    <3>3. e.row - 1 = Len(v) + 1 /\ e.row - 1 \in Nat
      BY <1>1, <1>3
    <3>. QED
      BY <1>3, <2>7, <3>2, <3>3 DEF Records, TextLines
  <2>9. /\ Buffer(f) /\ Text(f) = (Ended(v) \o k) \o Rest(d)
        /\ Place(f) = Len(Ended(v)) + f.col
    <3>1. Len(v) + 1 + Len(d) <= MaxLines /\ f.col \in 0 .. Len(k)
      <4>1. Len(v) = e.row - 2 /\ Len(d) = Len(e.lines) - e.row /\ Len(e.lines) <= MaxLines
        BY <1>1, <1>3, LimitsAssumption
      <4>2. Len(v) + 1 + Len(d) = Len(e.lines) - 1 /\ Len(e.lines) \in Nat /\ MaxLines \in Nat
        BY <1>1, <4>1, LimitsAssumption
      <4>3. Len(v) + 1 + Len(d) <= MaxLines
        BY ONLY <4>1, <4>2
      <4>. QED
        BY <2>2, <2>8, <4>3
    <3>2. /\ f \in [lines : Seq(Seq(Glyphs)), row : Nat, col : Nat, modified : BOOLEAN]
          /\ v \in Seq(TextLines) /\ k \in TextLines /\ d \in Seq(TextLines)
          /\ f.lines = v \o <<k>> \o d /\ Short(v) /\ Short(d) /\ Len(k) < MaxLen /\ f.row = Len(v) + 1
      BY <1>1, <1>3, <2>1, <2>2, <2>8 DEF Records
    <3>. QED
      BY ONLY <3>1, <3>2, MakeBuffer
  <2>10. /\ Above(e) \in Texts /\ Behind(e) \in Texts /\ Text(e) = (Above(e) \o l) \o Behind(e)
         /\ Place(e) = Len(Above(e)) + e.col /\ Ended(u) = Above(e) /\ Rest(d) = Behind(e)
    BY TextIs DEF l, u, d, Above, Behind
  <2>11. Ended(v) \in Texts /\ Ended(u) = Ended(v) \o (p \o <<NL>>)
    BY <1>3, EndedRules, EndedLine
  <2>12. PICK x \in Texts : x = <<NL>> /\ Len(x) = 1
    BY LinesAreTexts
  <2>13. IsBroken(Ended(v), p, x, l, Behind(e))
    BY <2>1, <2>10, <2>11, <2>12, Broken
  <2>14. /\ Text(e) = ((Ended(v) \o p) \o <<NL>>) \o (l \o Behind(e))
         /\ Text(f) = (Ended(v) \o p) \o (l \o Behind(e))
         /\ Ended(v) \o p \in Texts /\ l \o Behind(e) \in Texts
         /\ Len(Ended(v) \o p) = Len(Ended(v)) + Len(p)
         /\ Len(Above(e)) = Len(Ended(v)) + Len(p) + 1
    BY ONLY <2>9, <2>10, <2>11, <2>12, <2>13 DEF IsBroken, k
  <2>15. PICK a \in Texts, b \in Texts : a = Ended(v) \o p /\ b = l \o Behind(e)
    BY <2>14
  <2>16. Text(e) = (a \o <<NL>>) \o b /\ Text(f) = a \o b /\ Len(a) = Len(Ended(v)) + Len(p)
    BY ONLY <2>14, <2>15
  <2>17. Place(e) = Len(a) + 1 /\ Place(f) = Len(a)
    <3>1. Len(Ended(v)) \in Nat
      BY <2>11, Joined
    <3>. QED
      BY <1>3, <2>8, <2>9, <2>10, <2>14, <2>16, <3>1
  <2>18. Rubs(e, f)
    BY <2>15, <2>16, <2>17, LinesAreTexts DEF Rubs
  <2>. QED
    BY <2>8, <2>9, <2>18 DEF Noted, f
<1>. QED
  BY <1>5, <1>6

LEMMA BackspaceKeeps ==
  ASSUME NEW e, Buffer(e)
  PROVE  /\ Buffer(Backspace(e)) /\ Noted(e, Backspace(e))
         /\ Backspace(e) = e \/ Rubs(e, Backspace(e))
<1>1. CASE e.col > 0
  <2>. DEFINE f == [e EXCEPT !.lines[e.row] = RemoveAt(Line(e), e.col), !.col = e.col - 1, !.modified = TRUE]
  <2>1. e.col \in 0 .. Len(Line(e)) /\ Len(Line(e)) \in Nat /\ e \in Records
    BY BufferIs DEF Buffer, Records
  <2>2. Backspace(e) = f
    <3>1. Backspace(e) = [e EXCEPT !.lines[e.row] = RemoveAt(@, e.col), !.col = @ - 1, !.modified = TRUE]
      BY <1>1 DEF Backspace
    <3>2. Line(e) = e.lines[e.row]
      BY DEF Line
    <3>. QED
      BY <2>1, <3>1, <3>2 DEF Records
  <2>3. e.col \in 1 .. Len(Line(e)) /\ e.col - 1 \in 0 .. Len(Line(e)) - 1
    BY <1>1, <2>1
  <2>4. f = [e EXCEPT !.lines[e.row] = RemoveAt(Line(e), e.col), !.col = e.col - 1, !.modified = TRUE]
    OBVIOUS
  <2>. HIDE DEF f
  <2>5. /\ Buffer(f) /\ f.modified = TRUE /\ Place(f) = Len(Above(e)) + (e.col - 1)
        /\ LosesAt(e, f, Len(Above(e)) + e.col - 1)
    BY <2>3, <2>4, RemoveKeeps
  <2>6. PICK a \in Texts, b \in Texts, ch \in Characters :
            /\ Len(a) = Len(Above(e)) + e.col - 1
            /\ Text(e) = (a \o <<ch>>) \o b /\ Text(f) = a \o b
    BY <2>5 DEF LosesAt
  <2>7. Place(e) = Len(Above(e)) + e.col /\ Len(Above(e)) \in Nat
    BY TextIs, TextsJoin
  <2>8. Place(e) = Len(a) + 1 /\ Place(f) = Len(a)
    BY <2>1, <2>3, <2>5, <2>6, <2>7
  <2>9. Rubs(e, f)
    BY <2>6, <2>8 DEF Rubs
  <2>. QED
    BY <2>2, <2>5, <2>9 DEF Noted
<1>2. CASE ~(e.col > 0) /\ e.row = 1
  BY <1>2 DEF Backspace, Noted
<1>3. CASE ~(e.col > 0) /\ e.row # 1
  <2>1. e.col = 0
    <3>1. e.col \in 0 .. Len(Line(e)) /\ Len(Line(e)) \in Nat
      BY BufferIs
    <3>. QED
      BY <1>3, <3>1
  <2>. QED
    BY <1>3, <2>1, MergeKeeps DEF Backspace
<1>. QED
  BY <1>1, <1>2, <1>3

\* The cursor's line is cut out, with one of the line feeds around it; a text
\* of one line becomes the empty one.
LEMMA DeleteLineKeeps ==
  ASSUME NEW e, Buffer(e)
  PROVE  Buffer(DeleteLine(e)) /\ Noted(e, DeleteLine(e)) /\ Cuts(e, DeleteLine(e))
<1>. DEFINE l == Line(e)
            u == Upper(e)
            d == Lower(e)
            h == u \o d
<1>1. /\ l \in TextLines /\ u \in Seq(TextLines) /\ d \in Seq(TextLines) /\ e \in Records
      /\ e.row \in 1 .. Len(e.lines) /\ Len(e.lines) \in 1 .. MaxLines /\ Len(u) = e.row - 1
      /\ Len(d) = Len(e.lines) - e.row /\ Short(u) /\ Short(d)
      /\ Above(e) = Ended(u) /\ Behind(e) = Rest(d)
  BY BufferIs, NeighboursAreShort DEF Above, Behind, Buffer, Records
<1>. HIDE DEF l, u, d
<1>2. CASE Len(e.lines) = 1
  <2>. DEFINE f == DeleteLine(e)
  <2>1. f \in Records /\ f.lines = << <<>> >> /\ f.row = 1 /\ f.col = 0 /\ f.modified = TRUE
    <3>1. f = [EmptyBuffer EXCEPT !.modified = TRUE]
      BY <1>2 DEF DeleteLine
    <3>2. << <<>> >> \in Seq(Seq(Glyphs))
      OBVIOUS
    <3>3. /\ EmptyBuffer \in Records /\ EmptyBuffer.lines = << <<>> >>
          /\ EmptyBuffer.row = 1 /\ EmptyBuffer.col = 0
      BY <3>2 DEF EmptyBuffer, Records
    <3>. HIDE DEF f
    <3>. QED
      BY ONLY <3>1, <3>3 DEF Records
  <2>. HIDE DEF f
  <2>2. <<>> \in Seq(TextLines) /\ Len(<<>>) = 0 /\ <<>> \o <<<<>>>> \o <<>> = << <<>> >> /\ Ended(<<>>) = <<>>
        /\ Rest(<<>>) = <<>> /\ <<>> \in Texts /\ <<>> \in TextLines
    <3>1. <<>> \in Seq(TextLines) /\ Len(<<>>) = 0 /\ << <<>> >> \in Seq(TextLines)
      BY LinesAreTexts
    <3>2. <<>> \o << <<>> >> = << <<>> >> /\ << <<>> >> \o <<>> = << <<>> >>
      BY <3>1, ConcatEmptySeq
    <3>3. Ended(<<>>) = <<>> /\ Rest(<<>>) = <<>>
      BY <3>1, EndedRules, RestIsText, LinesAreTexts
    <3>. QED
      BY ONLY <3>1, <3>2, <3>3, LinesAreTexts
  <2>3. Buffer(f) /\ Text(f) = (Ended(<<>>) \o <<>>) \o Rest(<<>>)
    <3>1. /\ f \in [lines : Seq(Seq(Glyphs)), row : Nat, col : Nat, modified : BOOLEAN]
          /\ f.lines = <<>> \o <<<<>>>> \o <<>>
      BY <2>1, <2>2 DEF Records
    <3>2. /\ f.row = Len(<<>>) + 1 /\ f.col \in 0 .. Len(<<>>) /\ Len(<<>>) + 1 + Len(<<>>) <= MaxLines
          /\ Len(<<>>) < MaxLen
      BY <2>1, <2>2, LimitsAssumption
    <3>3. Short(<<>>)
      BY <2>2 DEF Short
    <3>. QED
      BY <2>2, <3>1, <3>2, <3>3, MakeBuffer
  <2>4. Text(f) = <<>>
    BY <2>2, <2>3, TextsJoin
  <2>5. Above(e) = <<>> /\ Behind(e) = <<>>
    <3>1. Len(u) = 0 /\ Len(d) = 0
      BY <1>1, <1>2
    <3>2. u = <<>> /\ d = <<>>
      BY <1>1, <3>1, EmptySeq
    <3>. QED
      BY <1>1, <2>2, <3>2
  <2>. QED
    BY <2>1, <2>3, <2>4, <2>5 DEF Cuts, Noted, f
<1>3. CASE Len(e.lines) # 1
  <2>. DEFINE g == [e EXCEPT !.lines = h, !.modified = TRUE]
              f == KeepCursorValid(g)
  <2>1. DeleteLine(e) = f
    <3>1. RemoveAt(e.lines, e.row) = h
      BY DEF RemoveAt, Upper, Lower, u, d
    <3>. QED
      BY <1>3, <3>1 DEF DeleteLine
  <2>2. h \in Seq(TextLines) /\ Len(h) = Len(e.lines) - 1 /\ Short(h) /\ Ended(h) = Ended(u) \o Ended(d)
    <3>1. /\ h \in Seq(TextLines) /\ Len(h) = Len(u) + Len(d)
          /\ \A i \in 1 .. Len(u) + Len(d) : h[i] = IF i <= Len(u) THEN u[i] ELSE d[i - Len(u)]
      BY <1>1, ConcatProperties
    <3>. HIDE DEF h
    <3>2. Len(u) \in Nat /\ Len(d) \in Nat
      BY <1>1, LenProperties
    <3>3. Short(h)
      <4>. SUFFICES ASSUME NEW i \in 1 .. Len(h) PROVE Len(h[i]) < MaxLen
        BY DEF Short
      <4>1. CASE i <= Len(u)
        <5>1. i \in 1 .. Len(u) /\ h[i] = u[i]
          BY <3>1, <3>2, <4>1
        <5>. QED
          BY <1>1, <5>1 DEF Short
      <4>2. CASE ~(i <= Len(u))
        <5>1. i - Len(u) \in 1 .. Len(d) /\ h[i] = d[i - Len(u)]
          BY <3>1, <3>2, <4>2
        <5>. QED
          BY <1>1, <5>1 DEF Short
      <4>. QED
        BY <4>1, <4>2
    <3>4. Len(h) = Len(e.lines) - 1
      BY <1>1, <3>1, <3>2
    <3>5. Ended(h) = Ended(u) \o Ended(d)
      BY <1>1, EndedBoth DEF h
    <3>. QED
      BY <3>1, <3>3, <3>4, <3>5
  <2>. HIDE DEF h
  <2>3. g \in Records /\ g.lines = h /\ g.row = e.row /\ g.modified = TRUE
    <3>1. h \in Seq(Seq(Glyphs)) /\ e \in Records
      BY <1>1, <2>2 DEF TextLines
    <3>2. g = [e EXCEPT !.lines = h, !.modified = TRUE]
      OBVIOUS
    <3>. HIDE DEF g
    <3>. QED
      BY ONLY <3>1, <3>2 DEF Records
  <2>. HIDE DEF g
  <2>4. Buffer(f) /\ f.modified = g.modified /\ Text(f) = Text(g)
    <3>1. Len(g.lines) \in 1 .. MaxLines /\ Short(g.lines) /\ g.row # 0
      <4>1. PICK m, n : m = Len(h) /\ n = Len(e.lines)
        OBVIOUS
      <4>2. m = n - 1 /\ n \in 1 .. MaxLines /\ n # 1 /\ MaxLines \in Nat
        BY <1>1, <1>3, <2>2, <4>1, LimitsAssumption
      <4>3. m \in 1 .. MaxLines
        BY ONLY <4>2
      <4>. QED
        BY <1>1, <2>2, <2>3, <4>1, <4>3
    <3>. QED
      BY <2>3, <3>1, KeepCursorKeeps
  <2>5. Text(f) = Front(Ended(u) \o Ended(d))
    BY <2>2, <2>3, <2>4 DEF Text
  <2>6. Ended(u) \in Texts /\ Ended(d) \in Texts /\ <<NL>> \in Texts
    BY <1>1, EndedRules, LinesAreTexts
  <2>7. CASE Ended(d) # <<>>
    <3>1. Front(Ended(d)) \in Texts /\ Front(Ended(u) \o Ended(d)) = Ended(u) \o Front(Ended(d))
      BY <2>6, <2>7, FrontRules DEF Texts
    <3>2. Rest(d) = <<NL>> \o Front(Ended(d))
      BY <2>6, <2>7, FrontRules DEF Texts, Rest
    <3>. QED
      BY <1>1, <2>1, <2>3, <2>4, <2>5, <3>1, <3>2 DEF Cuts, Noted
  <2>8. CASE Ended(d) = <<>>
    <3>1. Ended(u) \o Ended(d) = Ended(u)
      BY <2>6, <2>8, TextsJoin
    <3>2. d = <<>>
      <4>. SUFFICES ASSUME d # <<>> PROVE FALSE
        OBVIOUS
      <4>1. Len(d) # 0
        BY <1>1, EmptySeq
      <4>2. PICK v \in Seq(TextLines), p \in TextLines : EndsIn(d, v, p)
        BY <1>1, <4>1, LastLine
      <4>3. Ended(d) = Ended(v) \o (p \o <<NL>>) /\ Ended(v) \in Texts /\ p \in Texts
        BY <4>2, EndedLine, EndedRules, LinesAreTexts DEF EndsIn
      <4>4. IsBroken(Ended(v), p, <<NL>>, p, p)
        BY <2>6, <4>3, Broken
      <4>5. Len(Ended(d)) = Len(Ended(v)) + Len(p) + Len(<<NL>>)
        BY ONLY <4>3, <4>4 DEF IsBroken
      <4>6. Len(Ended(v)) \in Nat /\ Len(p) \in Nat /\ Len(<<NL>>) = 1 /\ Len(Ended(d)) = 0
        BY <2>8, <4>3, Joined
      <4>7. PICK m \in Nat, n \in Nat : m = Len(Ended(v)) /\ n = Len(p)
        BY <4>6
      <4>8. 0 = m + n + 1
        BY ONLY <4>5, <4>6, <4>7
      <4>. QED
        BY ONLY <4>7, <4>8, m \in Nat, n \in Nat
    <3>3. Rest(d) = <<>>
      BY <1>1, <3>2, RestIsText
    <3>4. Len(u) # 0
      <4>1. Len(d) = 0
        BY <3>2
      <4>2. PICK m, n, o : m = Len(u) /\ n = Len(e.lines) /\ o = e.row
        OBVIOUS
      <4>3. n \in Nat /\ n # 1 /\ o \in 1 .. n /\ m = o - 1 /\ 0 = n - o
        BY <1>1, <1>3, <4>1, <4>2, LimitsAssumption
      <4>4. m # 0
        BY ONLY <4>3
      <4>. QED
        BY <4>2, <4>4
    <3>5. PICK v \in Seq(TextLines), p \in TextLines : EndsIn(u, v, p)
      BY <1>1, <3>4, LastLine
    <3>6. Ended(u) = Ended(v) \o (p \o <<NL>>) /\ Ended(v) \in Texts /\ p \in Texts
      BY <3>5, EndedLine, EndedRules, LinesAreTexts DEF EndsIn
    <3>7. PICK x \in Texts : x = <<NL>>
      BY <2>6
    <3>8. Ended(v) \o (p \o x) = (Ended(v) \o p) \o x /\ Ended(v) \o p \in Texts
      <4>1. Associates(Ended(v), p, x) /\ Ended(v) \o p \in Texts
        BY <3>6, Associative, Joined
      <4>. QED
        BY ONLY <4>1 DEF Associates
    <3>9. PICK a \in Texts : a = Ended(v) \o p
      BY <3>8
    <3>10. Ended(u) = a \o <<NL>>
      BY ONLY <3>6, <3>7, <3>8, <3>9
    <3>11. Front(a \o <<NL>>) = a
      <4>1. <<NL>> # <<>> /\ Front(<<NL>>) = <<>>
        BY DEF Front
      <4>2. Front(a \o <<NL>>) = a \o Front(<<NL>>)
        BY <2>6, <4>1, FrontRules DEF Texts
      <4>. QED
        BY <4>1, <4>2, TextsJoin
    <3>12. Text(f) = a
      BY ONLY <2>5, <3>1, <3>10, <3>11
    <3>. QED
      BY <1>1, <2>1, <2>3, <2>4, <3>3, <3>10, <3>12 DEF Cuts, Noted
  <2>. QED
    BY <2>7, <2>8
<1>. QED
  BY <1>2, <1>3

----------------------------------------------------------------------------
(* Reading a file keeps the limits, and its text when nothing is left out. *)

ReadStates == {acc \in [lines : Seq(TextLines), lossless : BOOLEAN] :
                  Len(acc.lines) \in 1 .. MaxLines /\ Short(acc.lines)}
ReadAs(acc, t) == acc.lossless => Front(Ended(acc.lines)) = t

LEMMA TextOfLast ==
  ASSUME NEW v \in Seq(TextLines), NEW p \in TextLines
  PROVE  /\ Front(Ended(v \o <<p>>)) = Ended(v) \o p /\ v \o <<p>> \in Seq(TextLines)
         /\ Ended(v) \in Texts /\ p \in Texts
         /\ Ended(v \o <<p>>) = (Ended(v) \o p) \o <<NL>>
<1>1. Ended(v) \in Texts /\ p \in Texts /\ v \o <<p>> \in Seq(TextLines) /\ <<NL>> \in Texts
      /\ Ended(v \o <<p>>) = Ended(v) \o (p \o <<NL>>)
  BY EndedRules, LinesAreTexts, EndedLine
<1>2. PICK x \in Texts : x = <<NL>>
  BY <1>1
<1>3. Associates(Ended(v), p, x) /\ Ended(v) \o p \in Texts
  BY <1>1, Associative, Joined
<1>4. Ended(v \o <<p>>) = (Ended(v) \o p) \o x
  BY ONLY <1>1, <1>2, <1>3 DEF Associates
<1>5. Front((Ended(v) \o p) \o <<NL>>) = Ended(v) \o p
  <2>1. <<NL>> # <<>> /\ Front(<<NL>>) = <<>>
    BY DEF Front
  <2>2. Front((Ended(v) \o p) \o <<NL>>) = (Ended(v) \o p) \o Front(<<NL>>)
    BY <1>1, <1>3, <2>1, FrontRules DEF Texts
  <2>. QED
    BY <1>3, <2>1, <2>2, TextsJoin
<1>. QED
  BY ONLY <1>1, <1>2, <1>4, <1>5

\* A character is taken or noted as lost.
LEMMA StepReads ==
  ASSUME NEW acc \in ReadStates, NEW t \in Texts, ReadAs(acc, t), NEW ch \in Characters
  PROVE  LoadStep(acc, ch) \in ReadStates /\ ReadAs(LoadStep(acc, ch), t \o <<ch>>)
<1>. DEFINE ls == acc.lines
            r == Len(ls)
            f == LoadStep(acc, ch)
<1>1. /\ acc \in [lines : Seq(TextLines), lossless : BOOLEAN] /\ ls \in Seq(TextLines)
      /\ r \in 1 .. MaxLines /\ r \in Nat /\ Short(ls)
  BY LenProperties DEF ReadStates
<1>2. PICK v \in Seq(TextLines), p \in TextLines : EndsIn(ls, v, p)
  <2>1. r # 0
    BY <1>1
  <2>. HIDE DEF ls
  <2>. QED
    BY <1>1, <2>1, LastLine
<1>3. ls = v \o <<p>> /\ Len(v) = r - 1 /\ ls[r] = p /\ Short(v) /\ Len(p) < MaxLen
  BY <1>1, <1>2 DEF EndsIn
<1>4. /\ Front(Ended(ls)) = Ended(v) \o p /\ Ended(v) \in Texts /\ p \in Texts
      /\ Ended(ls) = (Ended(v) \o p) \o <<NL>>
  <2>1. /\ Front(Ended(v \o <<p>>)) = Ended(v) \o p /\ Ended(v) \in Texts /\ p \in Texts
        /\ Ended(v \o <<p>>) = (Ended(v) \o p) \o <<NL>>
    BY TextOfLast
  <2>. QED
    BY ONLY <1>3, <2>1
<1>. HIDE DEF ls
<1>5. ASSUME f = [acc EXCEPT !.lossless = FALSE] PROVE f \in ReadStates /\ ReadAs(f, t \o <<ch>>)
  <2>1. f \in [lines : Seq(TextLines), lossless : BOOLEAN] /\ f.lines = acc.lines /\ f.lossless = FALSE
    BY ONLY <1>1, <1>5
  <2>. HIDE DEF f
  <2>. QED
    BY <1>1, <2>1 DEF ReadStates, ReadAs, ls
<1>. DEFINE IsWith(g, ks) == g = [acc EXCEPT !.lines = ks]
<1>6. ASSUME NEW ks \in Seq(TextLines), IsWith(f, ks), Len(ks) \in 1 .. MaxLines, Short(ks),
             Front(Ended(ks)) = (Ended(v) \o p) \o <<ch>>
      PROVE  f \in ReadStates /\ ReadAs(f, t \o <<ch>>)
  <2>1. f \in [lines : Seq(TextLines), lossless : BOOLEAN] /\ f.lines = ks /\ f.lossless = acc.lossless
    BY ONLY <1>1, <1>6, ks \in Seq(TextLines)
  <2>2. acc.lossless => Ended(v) \o p = t
    BY <1>4 DEF ReadAs, ls
  <2>. HIDE DEF f
  <2>. QED
    BY <1>6, <2>1, <2>2 DEF ReadStates, ReadAs
<1>7. CASE ch = CR
  <2>1. f = [acc EXCEPT !.lossless = FALSE]
    BY <1>7, LinesAreTexts DEF LoadStep
  <2>. QED
    BY ONLY <1>5, <2>1
<1>8. CASE ch = NL
  <2>1. CASE ~(r < MaxLines)
    BY <1>5, <1>8, <2>1, LinesAreTexts DEF LoadStep, ls
  <2>2. CASE r < MaxLines
    <3>. DEFINE ks == ls \o << <<>> >>
    <3>1. Append(ls, <<>>) = ks /\ ks \in Seq(TextLines) /\ Len(ks) = r + 1 /\ Short(ks)
      <4>1. <<>> \in TextLines /\ Len(<<>>) < MaxLen
        BY LinesAreTexts, LimitsAssumption
      <4>2. ks \in Seq(TextLines) /\ Len(ks) = Len(ls) + 1 /\ Short(ks)
        BY <1>1, <4>1, EndedLine
      <4>. QED
        BY <1>1, <4>1, <4>2, AppendIsConcat
    <3>2. Front(Ended(ks)) = (Ended(v) \o p) \o <<NL>>
      <4>1. Front(Ended(ks)) = Ended(ls) \o <<>> /\ Ended(ls) \in Texts
        BY <1>1, LinesAreTexts, TextOfLast
      <4>. QED
        BY <1>4, <4>1, TextsJoin
    <3>3. f = [acc EXCEPT !.lines = ks]
      BY <1>8, <2>2, <3>1, LinesAreTexts DEF LoadStep, ls
    <3>4. Len(ks) \in 1 .. MaxLines
      <4>. HIDE DEF ks, r
      <4>. QED
        BY <1>1, <2>2, <3>1, LimitsAssumption
    <3>5. IsWith(f, ks)
      BY <3>3
    <3>. HIDE DEF ks, f, IsWith
    <3>6. f \in ReadStates /\ ReadAs(f, t \o <<ch>>)
      BY ONLY <1>6, <1>8, <3>1, <3>2, <3>4, <3>5
    <3>. QED
      BY <3>6 DEF f
  <2>. QED
    BY <2>1, <2>2
<1>9. CASE ch # CR /\ ch # NL
  <2>1. ch \in Glyphs
    BY <1>9, LinesAreTexts
  <2>2. CASE ~(Len(p) + 1 < MaxLen)
    BY <1>3, <1>5, <1>9, <2>2 DEF LoadStep, ls
  <2>3. CASE Len(p) + 1 < MaxLen
    <3>. DEFINE k == Append(p, ch)
                ks == v \o <<k>>
    <3>1. k \in TextLines /\ Len(k) = Len(p) + 1 /\ k = p \o <<ch>>
      BY <2>1, AppendProperties, AppendIsConcat DEF TextLines
    <3>2. Len(k) < MaxLen
      BY <2>3, <3>1
    <3>. HIDE DEF k
    <3>3. ks \in Seq(TextLines) /\ Len(ks) = Len(v) + 1 /\ Short(ks)
      BY <1>3, <3>1, <3>2, EndedLine
    <3>4. [ls EXCEPT ![r] = k] = ks
      <4>1. <<>> \in Seq(TextLines) /\ v \o <<p>> \in Seq(TextLines)
        BY <1>1, <1>3, EmptySeq
      <4>2. ls = v \o <<p>> \o <<>> /\ ks \o <<>> = ks
        BY <1>3, <3>3, <4>1, ConcatEmptySeq
      <4>3. r = Len(v) + 1
        BY <1>1, <1>3
      <4>. HIDE DEF r
      <4>4. /\ v \in Seq(TextLines) /\ p \in TextLines /\ <<>> \in Seq(TextLines) /\ k \in TextLines
            /\ ls = v \o <<p>> \o <<>> /\ r = Len(v) + 1
        BY <3>1, <4>1, <4>2, <4>3
      <4>5. IsPut(ls, r, k, v \o <<k>> \o <<>>)
        BY ONLY <4>4, LinesPut
      <4>. QED
        BY <4>2, <4>5 DEF IsPut
    <3>5. f = [acc EXCEPT !.lines = ks]
      <4>1. f = [acc EXCEPT !.lines[r] = k]
        BY <1>3, <1>9, <2>3 DEF LoadStep, ls, k
      <4>2. [acc EXCEPT !.lines[r] = k] = [acc EXCEPT !.lines = [acc.lines EXCEPT ![r] = k]]
        BY <1>1
      <4>3. [acc.lines EXCEPT ![r] = k] = ks
        BY <3>4 DEF ls
      <4>. HIDE DEF f, r, ks
      <4>. QED
        BY <4>1, <4>2, <4>3
    <3>6. Len(ks) \in 1 .. MaxLines
      BY <1>1, <1>3, <3>3
    <3>7. Front(Ended(ks)) = (Ended(v) \o p) \o <<ch>>
      <4>1. Front(Ended(ks)) = Ended(v) \o k
        BY <3>1, TextOfLast
      <4>2. PICK x \in Texts : x = <<ch>>
        BY SingleIsText
      <4>3. Associates(Ended(v), p, x)
        BY <1>4, Associative
      <4>. QED
        BY ONLY <3>1, <4>1, <4>2, <4>3 DEF Associates
    <3>8. IsWith(f, ks)
      BY <3>5
    <3>. HIDE DEF ks, f, IsWith
    <3>9. f \in ReadStates /\ ReadAs(f, t \o <<ch>>)
      BY ONLY <1>6, <3>3, <3>6, <3>7, <3>8
    <3>. QED
      BY <3>9 DEF f
  <2>. QED
    BY <2>2, <2>3
<1>. QED
  BY <1>7, <1>8, <1>9

\* What Loaded returns.
LEMMA LoadReads ==
  ASSUME NEW file \in Texts
  PROVE  Loaded(file) \in ReadStates /\ ReadAs(Loaded(file), file)
<1>. DEFINE n == Len(file)
            e == [lines |-> << <<>> >>, lossless |-> TRUE]
            Is(g) == g = [i \in 0 .. n |-> IF i = 0 THEN e ELSE LoadStep(g[i - 1], file[i])]
            steps == [i \in 1 .. n |-> [acc \in ReadStates |-> LoadStep(acc, file[i])]]
<1>1. n \in Nat /\ \A i \in 1 .. n : file[i] \in Characters
  BY LenProperties, ElementOfSeq DEF Texts
<1>2. e \in ReadStates /\ ReadAs(e, <<>>)
  <2>1. <<>> \in Seq(TextLines) /\ <<>> \in TextLines /\ Len(<<>>) = 0
    BY LinesAreTexts
  <2>2. << <<>> >> \in Seq(TextLines) /\ Len(<< <<>> >>) = 1 /\ << <<>> >>[1] = <<>>
    BY <2>1
  <2>3. Short(<< <<>> >>)
    BY <2>1, <2>2, LimitsAssumption DEF Short
  <2>4. <<>> \o << <<>> >> = << <<>> >>
    BY <2>2, ConcatEmptySeq
  <2>5. Front(Ended(<<>> \o << <<>> >>)) = Ended(<<>>) \o <<>>
    BY ONLY <2>1, TextOfLast
  <2>6. Ended(<<>>) \o <<>> = <<>>
    BY <2>1, EndedRules, LinesAreTexts, TextsJoin
  <2>7. Front(Ended(<< <<>> >>)) = <<>>
    BY ONLY <2>4, <2>5, <2>6
  <2>8. 1 \in 1 .. MaxLines
    BY LimitsAssumption
  <2>. QED
    BY <2>2, <2>3, <2>7, <2>8 DEF ReadStates, ReadAs
<1>3. ASSUME NEW acc \in ReadStates, NEW i \in 1 .. n
      PROVE  LoadStep(acc, file[i]) \in ReadStates
  <2>. DEFINE t == Front(Ended(acc.lines))
  <2>1. t \in Texts
    <3>1. acc.lines \in Seq(TextLines) /\ Len(acc.lines) # 0
      BY LimitsAssumption DEF ReadStates
    <3>2. PICK v \in Seq(TextLines), p \in TextLines : EndsIn(acc.lines, v, p)
      BY <3>1, LastLine
    <3>3. t = Ended(v) \o p /\ Ended(v) \in Texts /\ p \in Texts
      BY <3>2, TextOfLast DEF EndsIn
    <3>. HIDE DEF t
    <3>. QED
      BY <3>3, Joined
  <2>2. ReadAs(acc, t)
    BY DEF ReadAs
  <2>. HIDE DEF t
  <2>. QED
    BY <1>1, <2>1, <2>2, StepReads
<1>4. steps \in [1 .. n -> [ReadStates -> ReadStates]]
  BY <1>3
<1>. HIDE DEF e
<1>5. \E g : Is(g)
  <2>1. PICK g \in [0 .. n -> ReadStates] : IsRun(g, e, steps, n)
    <3>. HIDE DEF n, steps
    <3>. QED
      BY <1>1, <1>2, <1>4, RunExists
  <2>2. \A i \in 0 .. n : g[i] = IF i = 0 THEN e ELSE LoadStep(g[i - 1], file[i])
    <3>. TAKE i \in 0 .. n
    <3>1. i # 0 => i \in 1 .. n /\ i - 1 \in 0 .. n
      BY <1>1
    <3>. QED
      BY <2>1, <3>1 DEF IsRun
  <2>. QED
    BY <2>1, <2>2
<1>6. Loaded(file) = (CHOOSE g : Is(g))[n]
  BY DEF Loaded, e
<1>7. PICK g : Is(g) /\ Loaded(file) = g[n]
  <2>. HIDE DEF Is
  <2>. QED
    BY <1>5, <1>6
<1>8. \A i \in 0 .. n : g[i] = IF i = 0 THEN e ELSE LoadStep(g[i - 1], file[i])
  BY <1>7
<1>. DEFINE Right(i) == g[i] \in ReadStates /\ ReadAs(g[i], SubSeq(file, 1, i))
<1>9. \A i \in 0 .. n : Right(i)
  <2>. DEFINE Bad == {i \in 0 .. n : ~Right(i)}
  <2>1. SUFFICES ASSUME Bad # {} PROVE FALSE
    OBVIOUS
  <2>2. PICK m \in Bad : \A k \in Bad : m <= k
    <3>1. Bad \in SUBSET Nat
      BY <1>1
    <3>. HIDE DEF Bad
    <3>. QED
      BY <2>1, <3>1, LeastNumber
  <2>3. m # 0
    <3>1. g[0] = e /\ SubSeq(file, 1, 0) = <<>>
      BY <1>1, <1>8, SubSeqEmpty
    <3>2. Right(0)
      BY <1>2, <3>1
    <3>. HIDE DEF Right
    <3>. QED
      BY <2>2, <3>2
  <2>4. m \in 1 .. n /\ m - 1 \in 0 .. n /\ m \in 0 .. n
    BY <1>1, <2>2, <2>3
  <2>5. Right(m - 1)
    <3>1. m - 1 \notin Bad
      <4>. HIDE DEF Bad
      <4>. QED
        BY <2>2, <2>4
    <3>. HIDE DEF Right
    <3>. QED
      BY <2>4, <3>1
  <2>6. g[m] = LoadStep(g[m - 1], file[m])
    BY <1>8, <2>3, <2>4
  <2>7. SubSeq(file, 1, m - 1) \in Texts /\ SubSeq(file, 1, m) = SubSeq(file, 1, m - 1) \o <<file[m]>>
    <3>1. 1 \in 1 .. Len(file) /\ m \in 1 .. Len(file)
      BY <1>1, <2>4
    <3>2. SubSeq(file, 1, m) = SubSeq(file, 1, m - 1) \o <<file[m]>>
      BY <3>1, SubSeqRecursiveSecond DEF Texts
    <3>3. SubSeq(file, 1, m - 1) = [i \in 1 .. m - 1 |-> file[i]] /\ \A i \in 1 .. m - 1 : file[i] \in Characters
      BY <1>1, <2>4
    <3>4. m - 1 \in Nat
      BY <2>4
    <3>5. PICK x : x = SubSeq(file, 1, m - 1)
      OBVIOUS
    <3>6. x \in Texts
      BY <3>3, <3>4, <3>5, IsASeq DEF Texts
    <3>. QED
      BY <3>2, <3>5, <3>6
  <2>8. Right(m)
    <3>1. file[m] \in Characters
      BY <1>1, <2>4
    <3>2. g[m - 1] \in ReadStates /\ ReadAs(g[m - 1], SubSeq(file, 1, m - 1))
      BY <2>5
    <3>3. LoadStep(g[m - 1], file[m]) \in ReadStates
          /\ ReadAs(LoadStep(g[m - 1], file[m]), SubSeq(file, 1, m - 1) \o <<file[m]>>)
      BY <2>7, <3>1, <3>2, StepReads
    <3>. QED
      BY <2>6, <2>7, <3>3
  <2>. HIDE DEF Right
  <2>. QED
    BY <2>2, <2>8
<1>10. Right(n)
  <2>1. n \in 0 .. n
    BY <1>1
  <2>. HIDE DEF Right
  <2>. QED
    BY <1>9, <2>1
<1>11. SubSeq(file, 1, n) = file
  BY SubSeqFull DEF Texts
<1>. QED
  BY <1>7, <1>10, <1>11

----------------------------------------------------------------------------
(* A key turns a buffer into another one. *)

Edits(e, f) == Same(e, f) \/ Types(e, f) \/ Rubs(e, f) \/ Nips(e, f) \/ Cuts(e, f) \/ Opens(e, f)
Turns(e, f) == Buffer(f) /\ Noted(e, f) /\ Edits(e, f)

\* Putting the cursor right afterwards changes nothing of that.
LEMMA TurnsKept ==
  ASSUME NEW e, NEW g, Turns(e, g)
  PROVE  Turns(e, KeepCursorValid(g))
<1>1. PICK f : f = KeepCursorValid(g)
  OBVIOUS
<1>2. Buffer(f) /\ f.modified = g.modified /\ Text(f) = Text(g) /\ Place(f) = Place(g)
  BY <1>1, BufferIsKept DEF Turns
<1>3. Edits(e, f)
  BY <1>2 DEF Turns, Edits, Same, Types, Rubs, Nips, Cuts, Opens
<1>. QED
  BY <1>1, <1>2, <1>3 DEF Turns, Noted

\* So does another row or column of the same lines.
LEMMA PlacedTurns ==
  ASSUME NEW e, Buffer(e), NEW r \in Nat \ {0}, NEW c \in Nat
  PROVE  Turns(e, KeepCursorValid([e EXCEPT !.row = r, !.col = c]))
<1>1. PICK g : g = [e EXCEPT !.row = r, !.col = c]
  OBVIOUS
<1>2. e \in Records
  BY DEF Buffer, Records
<1>3. g \in Records /\ g.lines = e.lines /\ g.row = r /\ g.modified = e.modified
  BY ONLY <1>1, <1>2, r \in Nat, c \in Nat DEF Records
<1>4. Short(e.lines) /\ Len(e.lines) \in 1 .. MaxLines
  <2>1. DOMAIN e.lines = 1 .. Len(e.lines) /\ Len(e.lines) \in 1 .. MaxLines
    BY BufferIs, LenProperties
  <2>. QED
    BY <2>1 DEF Buffer, Short
<1>5. PICK f : f = KeepCursorValid(g)
  OBVIOUS
<1>6. Buffer(f) /\ f.modified = g.modified /\ Text(f) = Text(g)
  BY <1>3, <1>4, <1>5, KeepCursorKeeps
<1>7. Text(f) = Text(e) /\ f.modified = e.modified
  BY <1>3, <1>6 DEF Text
<1>. QED
  BY <1>1, <1>5, <1>6, <1>7 DEF Turns, Noted, Edits, Same

LEMMA OperationsTurn ==
  ASSUME NEW e, Buffer(e)
  PROVE  /\ Turns(e, e) /\ Turns(e, DeleteLine(e)) /\ Turns(e, DeleteChar(e))
         /\ Turns(e, SplitLine(e)) /\ Turns(e, Backspace(e))
         /\ HasRoom(e) => Turns(e, OpenBelow(e))
         /\ \A m \in Moves : Turns(e, Moved(e, m))
<1>1. Turns(e, e)
  BY DEF Turns, Noted, Edits, Same
<1>2. Turns(e, DeleteLine(e))
  BY DeleteLineKeeps DEF Turns, Edits
<1>3. Turns(e, DeleteChar(e))
  BY DeleteCharKeeps DEF Turns, Edits, Same
<1>4. Turns(e, SplitLine(e))
  BY SplitKeeps DEF Turns, Edits, Same
<1>5. Turns(e, Backspace(e))
  BY BackspaceKeeps DEF Turns, Edits, Same
<1>6. HasRoom(e) => Turns(e, OpenBelow(e))
  BY OpenKeeps DEF Turns, Edits
<1>7. \A m \in Moves : Turns(e, Moved(e, m))
  BY MovesKeep DEF Turns, Noted, Edits, Same
<1>. QED
  BY <1>1, <1>2, <1>3, <1>4, <1>5, <1>6, <1>7

LEMMA InsertTurns ==
  ASSUME NEW e, Buffer(e), NEW s \in TextLines, Len(s) \in 1 .. Tab
  PROVE  Turns(e, Insert(e, s))
BY InsertKeeps DEF Turns, Edits, Same

\* One character, and the blanks of a tab, are such insertions.
LEMMA TypedIsLine ==
  /\ \A c \in Glyphs : <<c>> \in TextLines /\ Len(<<c>>) \in 1 .. Tab
  /\ [i \in 1 .. Tab |-> Space] \in TextLines /\ Len([i \in 1 .. Tab |-> Space]) \in 1 .. Tab
<1>1. ASSUME NEW c \in Glyphs PROVE <<c>> \in TextLines /\ Len(<<c>>) \in 1 .. Tab
  BY LimitsAssumption DEF TextLines
<1>2. PICK s : s = [i \in 1 .. Tab |-> Space]
  OBVIOUS
<1>3. s \in TextLines /\ Len(s) = Tab
  <2>1. Tab \in Nat /\ \A i \in 1 .. Tab : Space \in Glyphs
    BY LimitsAssumption, LinesAreTexts
  <2>. QED
    BY <1>2, <2>1, IsASeq DEF TextLines
<1>. QED
  BY <1>1, <1>2, <1>3, LimitsAssumption

\* A waiting j that is dropped was the last character typed.
LEMMA DroppedIsEdit ==
  ASSUME NEW e, Buffer(e)
  PROVE  Edits(Insert(e, <<J>>), e)
<1>1. PICK f : f = Insert(e, <<J>>)
  OBVIOUS
<1>2. (f = e \/ Types(e, f)) /\ Place(f) <= Place(e) + 1
  <2>1. <<J>> \in TextLines /\ Len(<<J>>) \in 1 .. Tab /\ Len(<<J>>) = 1
    BY TypedIsLine, LinesAreTexts
  <2>. QED
    BY <1>1, <2>1, InsertKeeps
<1>3. CASE f = e
  BY <1>1, <1>3 DEF Edits, Same
<1>4. CASE Types(e, f)
  <2>1. PICK a \in Texts, s \in Texts, b \in Texts :
            /\ Len(s) \in 1 .. Tab
            /\ Text(e) = a \o b /\ Place(e) = Len(a)
            /\ Text(f) = (a \o s) \o b /\ Place(f) = Len(a) + Len(s)
    BY <1>4 DEF Types
  <2>2. Len(s) = 1
    <3>1. PICK m, n : m = Len(a) /\ n = Len(s)
      OBVIOUS
    <3>2. m \in Nat /\ n \in 1 .. Tab /\ m + n <= m + 1 /\ Tab \in Nat
      <4>1. Len(a) \in Nat
        BY TextsJoin
      <4>. QED
        BY ONLY <1>2, <2>1, <3>1, <4>1, LimitsAssumption
    <3>3. n = 1
      BY ONLY <3>2
    <3>. QED
      BY <3>1, <3>3
  <2>3. PICK c \in Characters : s = <<c>>
    <3>1. s[1] \in Characters /\ s = <<s[1]>>
      <4>1. s \in Seq(Characters) /\ 1 \in 1 .. Len(s)
        BY <2>2 DEF Texts
      <4>2. s[1] \in Characters
        BY <4>1, ElementOfSeq
      <4>3. PICK x : x = <<s[1]>>
        OBVIOUS
      <4>4. x \in Seq(Characters) /\ Len(x) = 1 /\ x[1] = s[1]
        BY <4>2, <4>3
      <4>5. \A i \in 1 .. Len(x) : x[i] = s[i]
        BY <4>4
      <4>6. x = s
        BY ONLY <2>2, <4>1, <4>4, <4>5, SeqEqual
      <4>. QED
        BY <4>2, <4>3, <4>6
    <3>. QED
      BY <3>1
  <2>4. Rubs(f, e)
    BY <2>1, <2>2, <2>3 DEF Rubs
  <2>. QED
    BY <1>1, <2>4 DEF Edits
<1>. QED
  BY <1>2, <1>3, <1>4

----------------------------------------------------------------------------
(* The invariant, and that every key is an edit. *)

LEMMA PendingsAre ==
  /\ DOMAIN Pendings = {"normal", "insert", "command"}
  /\ Pendings["normal"] = {"none", "dd", "gg"} /\ Pendings["insert"] = {"none", "jj"}
  /\ Pendings["command"] = {"none"}
BY DEF Pendings

\* A step that turns the buffer and leaves the files alone.
LEMMA QuietKeeps ==
  ASSUME EditorInv, Quiet, phase = "edit", Buffer(ed'), Noted(ed, ed'),
         mode' \in DOMAIN Pendings, pending' \in Pendings[mode'], keys' \in 0 .. MaxKeys
  PROVE  EditorInv'
<1>1. TypeOK'
  BY DEF EditorInv, TypeOK, Quiet
<1>2. UnmodifiedIsOnDisk'
  <2>. SUFFICES ASSUME ~ed'.modified, faithful' PROVE path' # NoPath /\ disk'[path'] = Text(ed')
    BY DEF UnmodifiedIsOnDisk
  <2>1. ~ed.modified /\ Text(ed') = Text(ed)
    BY DEF Noted
  <2>. QED
    BY <2>1 DEF EditorInv, UnmodifiedIsOnDisk, Quiet
<1>. QED
  BY <1>1, <1>2 DEF EditorInv, Quiet

\* A key that turns what is shown: a waiting j counts as typed before it.
LEMMA ShownTurns ==
  ASSUME TypeOK
  PROVE  Turns(ed, Shown) /\ Buffer(Shown) /\ (mode # "insert" => Shown = ed)
<1>1. Buffer(ed) /\ <<J>> \in TextLines /\ Len(<<J>>) \in 1 .. Tab
  BY TypedIsLine, LinesAreTexts DEF TypeOK
<1>2. Turns(ed, Insert(ed, <<J>>)) /\ Turns(ed, ed)
  BY <1>1, InsertTurns, OperationsTurn
<1>3. mode # "insert" => pending # "jj"
  BY PendingsAre DEF TypeOK
<1>. QED
  BY <1>1, <1>2, <1>3 DEF Shown, Turns

Sound == EditorInv' /\ Edits(Shown, Shown')

\* A key after which nothing waits.
LEMMA KeySounds ==
  ASSUME EditorInv, Quiet, phase = "edit", Turns(Shown, ed'), keys' \in 0 .. MaxKeys,
         mode' \in DOMAIN Pendings, pending' \in Pendings[mode'], pending' # "jj"
  PROVE  Sound
<1>1. Noted(ed, ed') /\ Buffer(ed')
  BY ShownTurns DEF EditorInv, Turns, Noted
<1>2. EditorInv'
  BY <1>1, QuietKeeps
<1>3. Shown' = ed'
  BY DEF Shown
<1>4. Edits(Shown, ed')
  BY DEF Turns
<1>. QED
  BY <1>2, <1>3, <1>4 DEF Sound

LEMMA KeyIs ==
  ASSUME EditorInv, NEW m, Key(m)
  PROVE  /\ phase = "edit" /\ mode = m /\ keys' \in 0 .. MaxKeys /\ Buffer(ed) /\ Buffer(Shown)
         /\ m # "insert" => Shown = ed
         /\ m \in DOMAIN Pendings /\ pending \in Pendings[m]
BY ShownTurns, LimitsAssumption DEF Key, EditorInv, TypeOK

\* Moving on from Shown in normal mode, and putting the cursor right.
LEMMA NormalSounds ==
  ASSUME EditorInv, Key("normal"), Quiet, NEW e, Turns(ed, e), ed' = KeepCursorValid(e),
         mode' \in {"normal", "insert"}, pending' = "none"
  PROVE  Sound
<1>1. phase = "edit" /\ keys' \in 0 .. MaxKeys /\ Shown = ed
  BY KeyIs
<1>2. Turns(Shown, ed')
  BY <1>1, TurnsKept
<1>3. mode' \in DOMAIN Pendings /\ pending' \in Pendings[mode'] /\ pending' # "jj"
  BY PendingsAre
<1>. QED
  BY <1>1, <1>2, <1>3, KeySounds

\* A row and a column that some keys choose.
LEMMA PlacedSounds ==
  ASSUME EditorInv, Key("normal"), Quiet, NEW r \in Nat \ {0}, NEW c \in Nat,
         ed' = KeepCursorValid([ed EXCEPT !.row = r, !.col = c]),
         mode' \in {"normal", "insert"}, pending' = "none"
  PROVE  Sound
<1>1. phase = "edit" /\ keys' \in 0 .. MaxKeys /\ Shown = ed /\ Buffer(ed)
  BY KeyIs
<1>2. PICK f : f = KeepCursorValid([ed EXCEPT !.row = r, !.col = c])
  OBVIOUS
<1>3. Turns(ed, f)
  BY <1>1, <1>2, PlacedTurns
<1>4. mode' \in DOMAIN Pendings /\ pending' \in Pendings[mode'] /\ pending' # "jj"
  BY PendingsAre
<1>. QED
  BY <1>1, <1>2, <1>3, <1>4, KeySounds

LEMMA NormalKeysSound ==
  ASSUME EditorInv, SecondD \/ SecondG \/ NormalMove \/ EnterInsert \/ OpenInsert \/ NormalDelete
  PROVE  Sound
<1>. DEFINE Row(r, c) == [ed EXCEPT !.row = r, !.col = c]
<1>1. ASSUME Key("normal")
      PROVE  /\ Buffer(ed) /\ ed \in Records /\ ed.row \in Nat \ {0} /\ ed.col \in Nat /\ Len(ed.lines) \in Nat \ {0}
             /\ Len(Line(ed)) \in Nat /\ Turns(ed, ed)
  <2>1. Buffer(ed)
    BY <1>1, KeyIs
  <2>2. ed.row \in 1 .. Len(ed.lines) /\ ed.col \in 0 .. Len(Line(ed)) /\ Len(Line(ed)) \in Nat
        /\ Len(ed.lines) \in 1 .. MaxLines
    BY <2>1, BufferIs
  <2>. QED
    BY <2>1, <2>2, OperationsTurn, LimitsAssumption DEF Buffer, Records
<1>2. ASSUME Key("normal"), Quiet, NEW r \in Nat \ {0}, NEW c \in Nat, Becomes(Row(r, c)),
             mode' \in {"normal", "insert"}, pending' = "none"
      PROVE  Sound
  BY <1>2, PlacedSounds DEF Becomes
<1>3. ASSUME Key("normal"), Quiet, NEW e, Turns(ed, e), Becomes(e),
             mode' \in {"normal", "insert"}, pending' = "none"
      PROVE  Sound
  BY <1>3, NormalSounds DEF Becomes
<1>4. CASE SecondD
  <2>1. Key("normal") /\ Quiet /\ mode' = "normal" /\ pending' = "none" /\ (Becomes(ed) \/ Becomes(DeleteLine(ed)))
    BY <1>4 DEF SecondD, Key
  <2>2. Turns(ed, ed) /\ Turns(ed, DeleteLine(ed))
    BY <1>1, <2>1, OperationsTurn
  <2>. QED
    BY <1>3, <2>1, <2>2
<1>5. CASE SecondG
  <2>1. Key("normal") /\ Quiet /\ mode' = "normal" /\ pending' = "none" /\ (Becomes(ed) \/ Becomes(Row(1, 0)))
    BY <1>5 DEF SecondG, Key
  <2>. HIDE DEF Row
  <2>. QED
    BY <1>1, <1>2, <1>3, <2>1
<1>6. CASE NormalMove
  <2>1. Key("normal") /\ Quiet /\ mode' = "normal" /\ pending' = "none"
        /\ ((\E m \in Moves : Becomes(Moved(ed, m))) \/ Becomes([ed EXCEPT !.row = Len(ed.lines)]))
    BY <1>6 DEF NormalMove, FirstKey, Key
  <2>2. CASE \E m \in Moves : Becomes(Moved(ed, m))
    <3>1. PICK m \in Moves : Becomes(Moved(ed, m))
      BY <2>2
    <3>2. Turns(ed, Moved(ed, m))
      BY <1>1, <2>1, OperationsTurn
    <3>. QED
      BY <1>3, <2>1, <3>1, <3>2
  <2>3. CASE Becomes([ed EXCEPT !.row = Len(ed.lines)])
    <3>1. [ed EXCEPT !.row = Len(ed.lines)] = Row(Len(ed.lines), ed.col)
      BY <1>1, <2>1 DEF Records
    <3>2. Becomes(Row(Len(ed.lines), ed.col))
      BY <2>3, <3>1
    <3>. HIDE DEF Row
    <3>. QED
      BY <1>1, <1>2, <2>1, <3>2
  <2>. QED
    BY <2>1, <2>2, <2>3
<1>7. CASE EnterInsert
  <2>1. Key("normal") /\ Quiet /\ mode' = "insert" /\ pending' = "none"
        /\ (Becomes(ed) \/ Becomes([ed EXCEPT !.col = Least(@ + 1, Len(Line(ed)))]))
    BY <1>7 DEF EnterInsert, FirstKey, Key
  <2>2. CASE Becomes([ed EXCEPT !.col = Least(@ + 1, Len(Line(ed)))])
    <3>1. [ed EXCEPT !.col = Least(@ + 1, Len(Line(ed)))] = Row(ed.row, Least(ed.col + 1, Len(Line(ed))))
      BY <1>1, <2>1 DEF Records
    <3>2. Becomes(Row(ed.row, Least(ed.col + 1, Len(Line(ed)))))
      BY <2>2, <3>1
    <3>3. Least(ed.col + 1, Len(Line(ed))) \in Nat
      BY <1>1, <2>1 DEF Least
    <3>. HIDE DEF Row
    <3>. QED
      BY <1>1, <1>2, <2>1, <3>2, <3>3
  <2>. QED
    BY <1>1, <1>3, <2>1, <2>2
<1>8. CASE OpenInsert
  <2>1. /\ Key("normal") /\ Quiet /\ pending' = "none"
        /\ IF HasRoom(ed) THEN Becomes(OpenBelow(ed)) /\ mode' = "insert" ELSE ed' = ed /\ mode' = "normal"
    BY <1>8 DEF OpenInsert, FirstKey, Key
  <2>2. CASE HasRoom(ed)
    <3>1. Turns(ed, OpenBelow(ed))
      BY <1>1, <2>1, <2>2, OperationsTurn
    <3>. QED
      BY <1>3, <2>1, <2>2, <3>1
  <2>3. CASE ~HasRoom(ed)
    <3>1. phase = "edit" /\ keys' \in 0 .. MaxKeys /\ Shown = ed
      BY <2>1, KeyIs
    <3>2. Turns(Shown, ed')
      BY <1>1, <2>1, <2>3, <3>1
    <3>3. mode' \in DOMAIN Pendings /\ pending' \in Pendings[mode'] /\ pending' # "jj"
      BY <2>1, <2>3, PendingsAre
    <3>. QED
      BY <2>1, <3>1, <3>2, <3>3, KeySounds
  <2>. QED
    BY <2>2, <2>3
<1>9. CASE NormalDelete
  <2>1. Key("normal") /\ Quiet /\ mode' = "normal" /\ pending' = "none" /\ Becomes(DeleteChar(ed))
    BY <1>9 DEF NormalDelete, FirstKey, Key
  <2>2. Turns(ed, DeleteChar(ed))
    BY <1>1, <2>1, OperationsTurn
  <2>. QED
    BY <1>3, <2>1, <2>2
<1>. QED
  BY <1>4, <1>5, <1>6, <1>7, <1>8, <1>9

\* Keys that change the mode or what waits, and not the text.
LEMMA ModeKeysSound ==
  ASSUME EditorInv, Prefix \/ EnterCommand \/ LeaveCommand
  PROVE  Sound
<1>1. /\ Quiet /\ (Key("normal") \/ Key("command")) /\ ed' = ed
      /\ mode' \in {"normal", "command"} /\ pending' \in Pendings[mode'] /\ pending' # "jj"
  <2>1. CASE Prefix
    BY <2>1, PendingsAre DEF Prefix, FirstKey, Key
  <2>2. CASE EnterCommand
    BY <2>2, PendingsAre DEF EnterCommand, FirstKey, Key
  <2>3. CASE LeaveCommand
    <3>1. Key("command") /\ mode' = "normal" /\ Quiet /\ ed' = ed /\ pending' = pending
      BY <2>3 DEF LeaveCommand
    <3>2. pending = "none"
      BY <3>1, KeyIs, PendingsAre
    <3>. QED
      BY <3>1, <3>2, PendingsAre
  <2>. QED
    BY <2>1, <2>2, <2>3
<1>2. phase = "edit" /\ keys' \in 0 .. MaxKeys /\ Shown = ed /\ Buffer(ed)
  BY <1>1, KeyIs
<1>3. Turns(Shown, ed')
  BY <1>1, <1>2, OperationsTurn
<1>4. mode' \in DOMAIN Pendings
  BY <1>1, PendingsAre
<1>. QED
  BY <1>1, <1>2, <1>3, <1>4, KeySounds

LEMMA InsertKeysSound ==
  ASSUME EditorInv, LeaveInsert \/ HoldJ \/ InsertKey
  PROVE  Sound
<1>1. Key("insert") /\ Quiet /\ mode = "insert"
  BY DEF LeaveInsert, HoldJ, InsertKey, Key
<1>2. phase = "edit" /\ keys' \in 0 .. MaxKeys /\ Buffer(ed) /\ Buffer(Shown)
  BY <1>1, KeyIs
<1>3. <<J>> \in TextLines /\ Len(<<J>>) \in 1 .. Tab /\ Turns(ed, ed)
  BY <1>2, TypedIsLine, LinesAreTexts, OperationsTurn
<1>4. CASE LeaveInsert
  <2>1. mode' = "normal" /\ pending' = "none" /\ ed' = ed
    BY <1>4 DEF LeaveInsert
  <2>2. EditorInv'
    BY <1>1, <1>2, <1>3, <2>1, QuietKeeps, PendingsAre DEF Turns
  <2>3. Shown' = ed
    BY <2>1 DEF Shown
  <2>4. Edits(Insert(ed, <<J>>), ed) /\ Edits(ed, ed)
    BY <1>2, <1>3, DroppedIsEdit DEF Turns
  <2>5. Edits(Shown, ed)
    BY <2>4 DEF Shown
  <2>. QED
    BY <2>2, <2>3, <2>5 DEF Sound
<1>5. CASE HoldJ
  <2>1. pending = "none" /\ pending' = "jj" /\ ed' = ed /\ mode' = "insert"
    BY <1>1, <1>5 DEF HoldJ
  <2>2. EditorInv'
    BY <1>1, <1>2, <1>3, <2>1, QuietKeeps, PendingsAre DEF Turns
  <2>3. Shown = ed /\ Shown' = Insert(ed, <<J>>)
    BY <2>1 DEF Shown
  <2>4. Edits(ed, Insert(ed, <<J>>))
    BY <1>2, <1>3, InsertTurns DEF Turns
  <2>. QED
    BY <2>2, <2>3, <2>4 DEF Sound
<1>6. CASE InsertKey
  <2>1. mode' = "insert" /\ pending' = "none" /\ Flushed = Shown
    BY <1>1, <1>6 DEF InsertKey, Flushed, Shown
  <2>2. \E e : Turns(Shown, e) /\ ed' = KeepCursorValid(e)
    <3>1. /\ Turns(Shown, Shown) /\ Turns(Shown, SplitLine(Shown)) /\ Turns(Shown, Backspace(Shown))
          /\ \A m \in Moves : Turns(Shown, Moved(Shown, m))
      BY <1>2, OperationsTurn
    <3>2. /\ Turns(Shown, Insert(Shown, [i \in 1 .. Tab |-> Space]))
          /\ \A c \in Letters \cup {Space} : Turns(Shown, Insert(Shown, <<c>>))
      <4>1. PICK s : s = [i \in 1 .. Tab |-> Space]
        OBVIOUS
      <4>2. Turns(Shown, Insert(Shown, s))
        BY <1>2, <4>1, TypedIsLine, InsertTurns
      <4>3. ASSUME NEW c \in Letters \cup {Space} PROVE Turns(Shown, Insert(Shown, <<c>>))
        <5>1. <<c>> \in TextLines /\ Len(<<c>>) \in 1 .. Tab
          BY TypedIsLine DEF Glyphs
        <5>. QED
          BY <1>2, <5>1, InsertTurns
      <4>. QED
        BY <4>1, <4>2, <4>3
    <3>3. CASE \E m \in Moves : Becomes(Moved(Flushed, m))
      BY <2>1, <3>1, <3>3 DEF Becomes
    <3>4. CASE Becomes(SplitLine(Flushed)) \/ Becomes(Backspace(Flushed)) \/ Becomes(Flushed)
      BY <2>1, <3>1, <3>4 DEF Becomes
    <3>5. CASE Becomes(Insert(Flushed, [i \in 1 .. Tab |-> Space]))
      BY <2>1, <3>2, <3>5 DEF Becomes
    <3>6. CASE \E c \in Letters \cup {Space} : Becomes(Insert(Flushed, <<c>>))
      BY <2>1, <3>2, <3>6 DEF Becomes
    <3>. QED
      BY <1>6, <3>3, <3>4, <3>5, <3>6 DEF InsertKey
  <2>3. Turns(Shown, ed')
    BY <2>2, TurnsKept
  <2>. QED
    BY <1>1, <1>2, <2>1, <2>3, KeySounds, PendingsAre
<1>. QED
  BY <1>4, <1>5, <1>6

\* Commands: what is saved is the text, and a write that fails is not believed.
LEMMA CommandsSound ==
  ASSUME EditorInv, Quit \/ QuitAnyway \/ Refuse \/ Write \/ WriteQuit
  PROVE  Sound
<1>1. Entered
  BY DEF Quit, QuitAnyway, Refuse, Write, WriteQuit
<1>2. /\ mode' = "normal" /\ pending' = pending /\ pending = "none" /\ keys' \in 0 .. MaxKeys /\ phase = "edit"
      /\ Buffer(ed) /\ mode' \in DOMAIN Pendings /\ pending' \in Pendings[mode'] /\ Shown = ed /\ Shown' = ed'
  <2>1. Key("command") /\ mode' = "normal" /\ pending' = pending
    BY <1>1 DEF Entered
  <2>2. phase = "edit" /\ keys' \in 0 .. MaxKeys /\ Buffer(ed) /\ Shown = ed /\ pending = "none"
    BY <2>1, KeyIs, PendingsAre
  <2>. QED
    BY <2>1, <2>2, PendingsAre DEF Shown
<1>3. Text(ed) \in Seq(Characters)
  BY <1>2, TextIs DEF Texts
<1>4. ASSUME UNCHANGED <<ed, path, disk, faithful>>, phase' \in {"edit", "ended", "left"} PROVE Sound
  <2>1. TypeOK' /\ UnmodifiedIsOnDisk'
    BY <1>2, <1>4 DEF EditorInv, TypeOK, UnmodifiedIsOnDisk
  <2>2. EditorInv'
    BY <1>4, <2>1 DEF EditorInv
  <2>. QED
    BY <1>2, <1>4, <2>2 DEF Sound, Edits, Same
<1>5. ASSUME NEW p \in Paths, Saved(p), phase' \in {"edit", "ended"} PROVE Sound
  <2>1. /\ disk' = [disk EXCEPT ![p] = Text(ed)] /\ path' = p /\ faithful' = TRUE
        /\ ed' = [ed EXCEPT !.modified = FALSE]
    BY <1>5 DEF Saved
  <2>2. ed' \in Records /\ ed'.lines = ed.lines /\ ed'.row = ed.row /\ ed'.col = ed.col
    <3>1. ed \in Records
      BY <1>2 DEF Buffer, Records
    <3>. QED
      BY ONLY <2>1, <3>1 DEF Records
  <2>3. Buffer(ed') /\ Text(ed') = Text(ed)
    BY <1>2, <2>2 DEF Buffer, Records, Line, Text
  <2>4. disk \in [Paths -> {Absent} \cup Seq(Characters)] /\ NoPath \notin Paths
    BY DiskAssumption DEF EditorInv, TypeOK
  <2>5. disk' \in [Paths -> {Absent} \cup Seq(Characters)] /\ disk'[p] = Text(ed)
    BY <1>3, <2>1, <2>4
  <2>6. TypeOK'
    BY <1>2, <1>5, <2>1, <2>3, <2>5 DEF TypeOK
  <2>7. UnmodifiedIsOnDisk' /\ path' # NoPath
    BY <2>1, <2>3, <2>4, <2>5 DEF UnmodifiedIsOnDisk
  <2>8. EditorInv'
    BY <1>5, <2>6, <2>7 DEF EditorInv
  <2>. QED
    BY <1>2, <2>3, <2>8 DEF Sound, Edits, Same
<1>6. ASSUME NEW p \in Paths, WriteFails(p) PROVE Sound
  <2>1. PICK n \in 0 .. Len(Text(ed)) - 1 : disk' = [disk EXCEPT ![p] = SubSeq(Text(ed), 1, n)]
    BY <1>6 DEF WriteFails
  <2>2. UNCHANGED <<ed, path, phase>> /\ faithful' = (faithful /\ p # path)
    BY <1>6 DEF WriteFails
  <2>3. SubSeq(Text(ed), 1, n) \in Seq(Characters)
    <3>1. PICK t : t = Text(ed)
      OBVIOUS
    <3>2. Len(t) \in Nat /\ \A i \in 1 .. Len(t) : t[i] \in Characters
      BY <1>3, <3>1, LenProperties, ElementOfSeq
    <3>3. n \in Nat /\ n <= Len(t)
      BY <3>1, <3>2
    <3>4. SubSeq(t, 1, n) = [i \in 1 .. n |-> t[i]] /\ \A i \in 1 .. n : t[i] \in Characters
      BY <1>3, <3>1, <3>2, <3>3
    <3>5. PICK s : s = SubSeq(t, 1, n)
      OBVIOUS
    <3>6. s \in Seq(Characters)
      BY <3>3, <3>4, <3>5, IsASeq
    <3>. QED
      BY <3>1, <3>5, <3>6
  <2>4. disk \in [Paths -> {Absent} \cup Seq(Characters)] /\ path \in Paths \cup {NoPath} /\ faithful \in BOOLEAN
    BY DEF EditorInv, TypeOK
  <2>5. /\ disk' \in [Paths -> {Absent} \cup Seq(Characters)] /\ faithful' \in BOOLEAN
        /\ \A q \in Paths : q # p => disk'[q] = disk[q]
    BY <2>1, <2>2, <2>3, <2>4
  <2>6. TypeOK'
    BY <1>2, <2>2, <2>5 DEF EditorInv, TypeOK
  <2>7. faithful' => faithful /\ path \in Paths /\ path # p /\ path # NoPath
    BY <2>2, <2>4 DEF EditorInv
  <2>8. UnmodifiedIsOnDisk' /\ (faithful' => path' # NoPath)
    BY <2>2, <2>5, <2>7 DEF EditorInv, UnmodifiedIsOnDisk
  <2>9. EditorInv'
    BY <1>2, <2>2, <2>6, <2>8 DEF EditorInv
  <2>. QED
    BY <1>2, <2>2, <2>9 DEF Sound, Edits, Same
<1>7. CASE Quit \/ QuitAnyway \/ Refuse
  BY <1>2, <1>4, <1>7 DEF Quit, QuitAnyway, Refuse
<1>8. CASE Write
  <2>1. PICK p \in Paths : (Saved(p) /\ phase' = phase) \/ WriteFails(p) \/ OpenRefused
    BY <1>8 DEF Write
  <2>. QED
    BY <1>2, <1>4, <1>5, <1>6, <2>1 DEF OpenRefused
<1>9. CASE WriteQuit
  <2>1. path \in Paths /\ ((Saved(path) /\ phase' = "ended") \/ WriteFails(path) \/ OpenRefused)
    BY <1>9 DEF WriteQuit, EditorInv, TypeOK
  <2>. QED
    BY <1>2, <1>4, <1>5, <1>6, <2>1 DEF OpenRefused
<1>. QED
  BY <1>7, <1>8, <1>9

\* The start: nothing was read, or what is in the buffer was.
LEMMA StartKeeps ==
  ASSUME EditorInv, Start
  PROVE  EditorInv'
<1>1. /\ phase = "start" /\ ~faithful /\ UNCHANGED <<mode, pending, disk, keys>>
      /\ disk \in [Paths -> {Absent} \cup Seq(Characters)] /\ NoPath \notin Paths
  BY DiskAssumption DEF Start, EditorInv, TypeOK
<1>2. ASSUME UNCHANGED <<ed, faithful>>, path' \in Paths \cup {NoPath}, phase' \in {"edit", "failed"} PROVE EditorInv'
  BY <1>1, <1>2 DEF EditorInv, TypeOK, UnmodifiedIsOnDisk
<1>3. ASSUME NEW p \in Paths, disk[p] # Absent, phase' = "edit", path' = p,
             ed' = [EmptyBuffer EXCEPT !.lines = Loaded(disk[p]).lines], faithful' = Loaded(disk[p]).lossless
      PROVE  EditorInv'
  <2>1. PICK got : got = Loaded(disk[p])
    OBVIOUS
  <2>2. disk[p] \in Texts
    BY <1>1, <1>3 DEF Texts
  <2>3. got \in ReadStates /\ ReadAs(got, disk[p])
    BY <2>1, <2>2, LoadReads
  <2>4. /\ got.lines \in Seq(TextLines) /\ got.lossless \in BOOLEAN /\ Len(got.lines) \in 1 .. MaxLines
        /\ Short(got.lines) /\ (got.lossless => Front(Ended(got.lines)) = disk[p])
    BY <2>3 DEF ReadStates, ReadAs
  <2>5. ed' \in Records /\ ed'.lines = got.lines /\ ed'.row = 1 /\ ed'.col = 0
    <3>1. ed' = [EmptyBuffer EXCEPT !.lines = got.lines] /\ got.lines \in Seq(Seq(Glyphs))
      BY <1>3, <2>1, <2>4 DEF TextLines
    <3>2. EmptyBuffer = [lines |-> << <<>> >>, row |-> 1, col |-> 0, modified |-> FALSE]
      BY DEF EmptyBuffer
    <3>3. << <<>> >> \in Seq(Seq(Glyphs))
      OBVIOUS
    <3>4. EmptyBuffer \in Records /\ EmptyBuffer.row = 1 /\ EmptyBuffer.col = 0
      BY <3>2, <3>3 DEF Records
    <3>. QED
      BY ONLY <3>1, <3>4 DEF Records
  <2>6. Buffer(ed') /\ Text(ed') = Front(Ended(got.lines))
    <3>1. DOMAIN got.lines = 1 .. Len(got.lines) /\ 1 \in 1 .. Len(got.lines)
      BY <2>4, LenProperties, LimitsAssumption
    <3>2. Len(got.lines[1]) \in Nat
      <4>1. got.lines[1] \in TextLines
        BY <2>4, <3>1, ElementOfSeq
      <4>. QED
        BY <4>1, LenProperties DEF TextLines
    <3>3. Line(ed') = got.lines[1]
      BY <2>5 DEF Line
    <3>4. 0 \in 0 .. Len(got.lines[1])
      BY <3>2
    <3>5. \A i \in DOMAIN ed'.lines : Len(ed'.lines[i]) < MaxLen
      BY <2>4, <2>5, <3>1 DEF Short
    <3>6. Buffer(ed')
      BY <2>4, <2>5, <3>1, <3>3, <3>4, <3>5 DEF Buffer, Records
    <3>7. Text(ed') = Front(Ended(ed'.lines))
      BY DEF Text
    <3>. QED
      BY <2>5, <3>6, <3>7
  <2>7. faithful' = got.lossless
    BY <1>3, <2>1
  <2>8. TypeOK'
    BY <1>1, <1>3, <2>4, <2>6, <2>7 DEF EditorInv, TypeOK
  <2>9. UnmodifiedIsOnDisk' /\ path' # NoPath
    BY <1>1, <1>3, <2>4, <2>6, <2>7 DEF UnmodifiedIsOnDisk
  <2>. QED
    BY <1>3, <2>8, <2>9 DEF EditorInv
<1>4. path \in Paths \cup {NoPath}
  BY DEF EditorInv, TypeOK
<1>. QED
  BY <1>2, <1>3, <1>4 DEF Start

LEMMA Beginning == Init => EditorInv
<1>. SUFFICES ASSUME Init PROVE EditorInv
  OBVIOUS
<1>1. /\ disk \in [Paths -> {Absent} \cup Seq(Characters)] /\ path = NoPath /\ ed = EmptyBuffer
      /\ mode = "normal" /\ pending = "none" /\ faithful = FALSE /\ phase = "start" /\ keys \in 0 .. MaxKeys
  BY DiskAssumption, LimitsAssumption DEF Init
<1>2. Buffer(ed)
  <2>1. << <<>> >> \in Seq(Seq(Glyphs)) /\ Len(<< <<>> >>) = 1 /\ << <<>> >>[1] = <<>> /\ Len(<<>>) = 0
        /\ DOMAIN << <<>> >> = {1}
    OBVIOUS
  <2>. QED
    BY <1>1, <2>1, LimitsAssumption DEF EmptyBuffer, Buffer, Line
<1>3. mode \in DOMAIN Pendings /\ pending \in Pendings[mode]
  BY <1>1, PendingsAre
<1>. QED
  BY <1>1, <1>2, <1>3 DEF EditorInv, TypeOK, UnmodifiedIsOnDisk

\* A key makes one edit of the text, in every state of the invariant.
LEMMA KeysSound ==
  ASSUME EditorInv, Next, phase = "edit"
  PROVE  Sound
<1>1. ~Start
  BY DEF Start
<1>. QED
  BY <1>1, NormalKeysSound, ModeKeysSound, InsertKeysSound, CommandsSound DEF Next

\* The invariant of every step: the arrays of the editor are never overrun and
\* the cursor stays in the text (vim_main.c indexes the lines with it and checks
\* nothing), and a buffer without the flag is what its file holds.
THEOREM EditorIsSound == Spec => []EditorInv
<1>1. EditorInv /\ [Next]_vars => EditorInv'
  <2>. SUFFICES ASSUME EditorInv, [Next]_vars PROVE EditorInv'
    OBVIOUS
  <2>1. CASE Next /\ phase = "edit"
    BY <2>1, KeysSound DEF Sound
  <2>2. CASE Next /\ phase # "edit"
    <3>1. Start
      BY <2>2 DEF Next, SecondD, SecondG, NormalMove, Prefix, EnterInsert, OpenInsert, NormalDelete, EnterCommand,
                  LeaveInsert, HoldJ, InsertKey, LeaveCommand, Quit, QuitAnyway, Refuse, Write, WriteQuit,
                  FirstKey, Entered, Key
    <3>. QED
      BY <3>1, StartKeeps
  <2>3. CASE UNCHANGED vars
    BY <2>3 DEF vars, EditorInv, TypeOK, UnmodifiedIsOnDisk
  <2>. QED
    BY <2>1, <2>2, <2>3
<1>. QED
  BY <1>1, Beginning, PTL DEF Spec

\* The limits of the arrays and the place of the cursor.
THEOREM BuffersKeepLimits == Spec => []TypeOK
<1>1. EditorInv => TypeOK
  BY DEF EditorInv
<1>. QED
  BY <1>1, EditorIsSound, PTL

\* :q leaves only when nothing would be lost: the flag misses no edit, no
\* failed write and no file that was read in part.
THEOREM NothingIsMissed == Spec => []UnmodifiedIsOnDisk
<1>1. EditorInv => UnmodifiedIsOnDisk
  BY DEF EditorInv
<1>. QED
  BY <1>1, EditorIsSound, PTL

\* Every key is one edit of one text at one place, or none: the lines, the
\* limits and the j that waits are a refinement of the promise.
THEOREM KeysKeepPromise == Spec => KeysAreEdits
<1>1. EditorInv /\ [Next]_vars => [KeyIsEdit]_vars
  <2>. SUFFICES ASSUME EditorInv, Next, phase = "edit" PROVE Promise!Next
    BY DEF KeyIsEdit
  <2>1. Edits(Shown, Shown')
    BY KeysSound DEF Sound
  <2>2. Buffer(Shown)
    BY ShownTurns DEF EditorInv
  <2>3. PICK e, f : e = Shown /\ f = Shown'
    OBVIOUS
  <2>4. Buffer(e) /\ Shown = e /\ Shown' = f
    BY <2>2, <2>3
  <2>5. Same(e, f) \/ Types(e, f) \/ Rubs(e, f) \/ Nips(e, f) \/ Cuts(e, f) \/ Opens(e, f)
    BY <2>1, <2>3 DEF Edits
  <2>. QED
    BY <2>4, <2>5, EditIsNext
<1>. QED
  BY <1>1, EditorIsSound, PTL DEF Spec, KeysAreEdits

=============================================================================
