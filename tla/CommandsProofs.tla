--------------------------- MODULE CommandsProofs ---------------------------
(***************************************************************************)
(* Proofs about the commands' modules.  Files: what the path code computes *)
(* for every text, the inductive invariant FilesInv, and from it that a    *)
(* user changes only what is his, that cp and mv keep the source, and that *)
(* both resolvers agree.  Partition: what strtoul reads is what the text   *)
(* means by its places, and the boot record stays whole under partctl.     *)
(* Accounts: ids stay distinct, a typed password opens the login, and what *)
(* a library reports as done is done.  Terminal: the window and the        *)
(* transcript take the same steps, so the window shows its end.            *)
(***************************************************************************)
EXTENDS Files, Partition, Accounts, Terminal, NaturalsInduction, WellFoundedInduction, SequenceTheorems,
        FiniteSetTheorems, TLAPS

----------------------------------------------------------------------------
(* Runs: functions that take one step of a list after another. *)

\* A non-empty set of numbers has a least one.
LEMMA LeastNumber ==
  ASSUME NEW T \in SUBSET Nat, T # {}
  PROVE  \E n \in T : \A m \in T : n <= m
<1>1. PICK n \in T : \A m \in T : ~(<<m, n>> \in OpToRel(<, Nat))
  BY WFMin, NatLessThanWellFounded
<1>2. \A m \in T : ~(m < n)
  BY <1>1 DEF OpToRel
<1>. QED
  BY <1>2

\* f starts at e and takes the steps 1 to n.
IsRun(f, e, step, n) ==
    f[0] = e /\ \A i \in 1 .. n : f[i] = step[i][f[i - 1]]

\* There is a run of every list of steps.
LEMMA RunExists ==
  ASSUME NEW S, NEW e \in S, NEW n \in Nat, NEW step \in [1 .. n -> [S -> S]]
  PROVE  \E f \in [0 .. n -> S] : IsRun(f, e, step, n)
<1>. DEFINE Bad == {m \in Nat : m <= n /\ ~ \E f \in [0 .. m -> S] : IsRun(f, e, step, m)}
<1>1. SUFFICES Bad = {}
  OBVIOUS
<1>2. SUFFICES ASSUME Bad # {} PROVE FALSE
  OBVIOUS
<1>3. PICK m \in Bad : \A k \in Bad : m <= k
  <2>1. Bad \in SUBSET Nat
    OBVIOUS
  <2>. HIDE DEF Bad
  <2>. QED
    BY <1>2, <2>1, LeastNumber
<1>4. CASE m = 0
  <2>1. IsRun([i \in 0 .. 0 |-> e], e, step, 0)
    BY DEF IsRun
  <2>. QED
    BY <1>3, <1>4, <2>1
<1>5. CASE m # 0
  <2>1. m \in Nat /\ m <= n /\ m - 1 \in Nat /\ m - 1 \notin Bad
    <3>1. m \in Nat /\ m <= n
      BY <1>3
    <3>. HIDE DEF Bad
    <3>. QED
      BY <1>3, <1>5, <3>1
  <2>2. PICK g \in [0 .. m - 1 -> S] : IsRun(g, e, step, m - 1)
    BY <2>1
  <2>. DEFINE h == [i \in 0 .. m |-> IF i < m THEN g[i] ELSE step[m][g[m - 1]]]
  <2>3. m \in 1 .. n /\ m - 1 \in 0 .. m - 1 /\ m \in 0 .. m /\ 0 \in 0 .. m - 1 /\ 0 \in 0 .. m
    BY <1>5, <2>1
  <2>4. h \in [0 .. m -> S]
    <3>1. step[m][g[m - 1]] \in S
      BY <2>2, <2>3
    <3>2. \A i \in 0 .. m : i < m => g[i] \in S
      BY <2>1, <2>2
    <3>. QED
      BY <3>1, <3>2
  <2>5. h[0] = e
    BY <1>5, <2>1, <2>2, <2>3 DEF IsRun
  <2>6. \A i \in 1 .. m : h[i] = step[i][h[i - 1]]
    <3>. TAKE i \in 1 .. m
    <3>1. i \in 0 .. m /\ i - 1 \in 0 .. m /\ i - 1 < m
      BY <2>1
    <3>2. h[i - 1] = g[i - 1]
      BY <3>1
    <3>3. CASE i = m
      BY <2>1, <3>1, <3>2, <3>3
    <3>4. CASE i < m
      <4>1. i \in 1 .. m - 1
        BY <2>1, <3>4
      <4>. QED
        BY <2>2, <3>1, <3>2, <3>4, <4>1 DEF IsRun
    <3>. QED
      BY <2>1, <3>3, <3>4
  <2>7. IsRun(h, e, step, m)
    <3>. HIDE DEF h
    <3>. QED
      BY <2>5, <2>6 DEF IsRun
  <2>. QED
    BY <1>3, <2>4, <2>7
<1>. QED
  BY <1>4, <1>5

\* Two runs of the same steps from the same start are the same.
LEMMA RunIsOne ==
  ASSUME NEW n \in Nat, NEW f, NEW g, NEW e, NEW step, IsRun(f, e, step, n), IsRun(g, e, step, n)
  PROVE  \A i \in 0 .. n : f[i] = g[i]
<1>. DEFINE Bad == {i \in 0 .. n : f[i] # g[i]}
<1>1. SUFFICES ASSUME Bad # {} PROVE FALSE
  OBVIOUS
<1>2. PICK m \in Bad : \A k \in Bad : m <= k
  <2>1. Bad \in SUBSET Nat
    OBVIOUS
  <2>. HIDE DEF Bad
  <2>. QED
    BY <1>1, <2>1, LeastNumber
<1>3. m # 0
  BY <1>2 DEF IsRun
<1>4. m \in 1 .. n /\ m - 1 \in 0 .. n
  BY <1>2, <1>3
<1>5. m - 1 \notin Bad
  <2>. HIDE DEF Bad
  <2>. QED
    BY <1>2, <1>4
<1>6. f[m - 1] = g[m - 1]
  BY <1>4, <1>5
<1>. QED
  BY <1>2, <1>4, <1>6 DEF IsRun

----------------------------------------------------------------------------
(* The width of a path. *)

WidthSteps(p) == [i \in 1 .. Len(p) |-> [v \in Nat |-> v + 1 + Widths[p[i]]]]

\* Width is the end of a run that adds a slash and a name at a time.
LEMMA WidthIs ==
  ASSUME NEW p \in Seq(Names)
  PROVE  \E g \in [0 .. Len(p) -> Nat] : IsRun(g, 0, WidthSteps(p), Len(p)) /\ Width(p) = g[Len(p)]
<1>. DEFINE n == Len(p)
            Is(g) == g = [i \in 0 .. n |-> IF i = 0 THEN 0 ELSE g[i - 1] + 1 + Widths[p[i]]]
<1>1. n \in Nat /\ \A i \in 1 .. n : p[i] \in Names /\ Widths[p[i]] \in Nat
  BY NamesAssumption
<1>2. WidthSteps(p) \in [1 .. n -> [Nat -> Nat]]
  BY <1>1 DEF WidthSteps
<1>3. \E g : Is(g)
  <2>1. PICK g \in [0 .. n -> Nat] : IsRun(g, 0, WidthSteps(p), n)
    <3>. HIDE DEF n
    <3>. QED
      BY <1>1, <1>2, RunExists
  <2>2. \A i \in 0 .. n : g[i] = IF i = 0 THEN 0 ELSE g[i - 1] + 1 + Widths[p[i]]
    <3>. TAKE i \in 0 .. n
    <3>1. i # 0 => i \in 1 .. n /\ i - 1 \in 0 .. n
      BY <1>1
    <3>. QED
      BY <2>1, <3>1 DEF IsRun, WidthSteps
  <2>. QED
    BY <2>1, <2>2
<1>4. Width(p) = (CHOOSE g : Is(g))[n]
  BY DEF Width
<1>5. PICK g : Is(g) /\ Width(p) = g[n]
  <2>. HIDE DEF Is
  <2>. QED
    BY <1>3, <1>4
<1>6. DOMAIN g = 0 .. n /\ g = [i \in 0 .. n |-> g[i]]
  BY <1>5
<1>7. \A i \in 0 .. n : g[i] = IF i = 0 THEN 0 ELSE g[i - 1] + 1 + Widths[p[i]]
  BY <1>5
<1>8. \A i \in 0 .. n : g[i] \in Nat
  <2>. DEFINE Bad == {i \in 0 .. n : g[i] \notin Nat}
  <2>1. SUFFICES ASSUME Bad # {} PROVE FALSE
    OBVIOUS
  <2>2. PICK m \in Bad : \A k \in Bad : m <= k
    <3>1. Bad \in SUBSET Nat
      BY <1>1
    <3>. HIDE DEF Bad
    <3>. QED
      BY <2>1, <3>1, LeastNumber
  <2>3. m # 0
    BY <1>1, <1>7, <2>2
  <2>4. m \in 1 .. n /\ m - 1 \in 0 .. n /\ m \in 0 .. n
    BY <1>1, <2>2, <2>3
  <2>5. m - 1 \notin Bad
    <3>. HIDE DEF Bad
    <3>. QED
      BY <2>2, <2>4
  <2>6. g[m - 1] \in Nat /\ g[m] = g[m - 1] + 1 + Widths[p[m]]
    BY <1>7, <2>3, <2>4, <2>5
  <2>. QED
    BY <1>1, <2>2, <2>4, <2>6
<1>9. g \in [0 .. n -> Nat]
  BY <1>6, <1>8
<1>10. IsRun(g, 0, WidthSteps(p), n)
  <2>1. g[0] = 0
    BY <1>1, <1>7
  <2>2. \A i \in 1 .. n : g[i] = WidthSteps(p)[i][g[i - 1]]
    <3>. TAKE i \in 1 .. n
    <3>1. i \in 0 .. n /\ i - 1 \in 0 .. n /\ i # 0
      BY <1>1
    <3>. QED
      BY <1>7, <1>8, <3>1 DEF WidthSteps
  <2>. QED
    BY <2>1, <2>2 DEF IsRun
<1>. QED
  BY <1>5, <1>9, <1>10

\* The root has no width, and a name adds its own and a slash's.
LEMMA WidthRules ==
  ASSUME NEW p \in Seq(Names), NEW c \in Names
  PROVE  /\ Width(<<>>) = 0 /\ Width(p) \in Nat
         /\ Width(Append(p, c)) = Width(p) + 1 + Widths[c]
<1>1. Width(<<>>) = 0
  <2>1. <<>> \in Seq(Names) /\ Len(<<>>) = 0
    OBVIOUS
  <2>. QED
    BY <2>1, WidthIs DEF IsRun
<1>. DEFINE q == Append(p, c)
            n == Len(p)
<1>2. q \in Seq(Names) /\ Len(q) = n + 1 /\ n \in Nat /\ q[n + 1] = c /\ \A i \in 1 .. n : q[i] = p[i]
  OBVIOUS
<1>3. PICK g \in [0 .. n -> Nat] : IsRun(g, 0, WidthSteps(p), n) /\ Width(p) = g[n]
  BY WidthIs
<1>4. PICK h \in [0 .. n + 1 -> Nat] : IsRun(h, 0, WidthSteps(q), n + 1) /\ Width(q) = h[n + 1]
  <2>. HIDE DEF q, n
  <2>. QED
    BY <1>2, WidthIs
<1>5. IsRun(h, 0, WidthSteps(p), n)
  <2>. HIDE DEF q
  <2>1. h[0] = 0
    BY <1>4 DEF IsRun
  <2>2. \A i \in 1 .. n : h[i] = WidthSteps(p)[i][h[i - 1]]
    <3>. TAKE i \in 1 .. n
    <3>1. i \in 1 .. n + 1
      BY <1>2
    <3>2. h[i] = WidthSteps(q)[i][h[i - 1]]
      BY <1>4, <3>1 DEF IsRun
    <3>3. WidthSteps(q)[i] = WidthSteps(p)[i]
      BY <1>2, <3>1 DEF WidthSteps
    <3>. QED
      BY <3>2, <3>3
  <2>. QED
    BY <2>1, <2>2 DEF IsRun
<1>6. h[n] = g[n]
  <2>. HIDE DEF n
  <2>. QED
    BY <1>2, <1>3, <1>5, RunIsOne
<1>7. h[n + 1] = h[n] + 1 + Widths[c]
  <2>. HIDE DEF q, n
  <2>1. n + 1 \in 1 .. n + 1 /\ (n + 1) - 1 = n
    BY <1>2
  <2>2. h[n + 1] = WidthSteps(q)[n + 1][h[n]]
    BY <1>4, <2>1 DEF IsRun
  <2>3. h[n] \in Nat
    BY <1>2, <1>4
  <2>. QED
    BY <1>2, <2>1, <2>2, <2>3 DEF WidthSteps
<1>. QED
  BY <1>1, <1>2, <1>3, <1>4, <1>6, <1>7

----------------------------------------------------------------------------
(* What resolving a path keeps. *)

Resolved == Path \cup {TooLong}
Typed == Names \cup Special

\* A path that is not the root is its directory and a name, both paths' parts.
LEMMA PathSplits ==
  ASSUME NEW p \in Path, p # <<>>
  PROVE  /\ Front(p) \in Path /\ Last(p) \in Names
         /\ p = Append(Front(p), Last(p)) /\ Len(Front(p)) = Len(p) - 1
<1>1. p \in Seq(Names) /\ Width(p) < PathMax
  BY DEF Path
<1>2. Len(p) \in Nat \ {0} /\ Last(p) \in Names
  BY <1>1 DEF Last
<1>3. Front(p) \in Seq(Names) /\ Len(Front(p)) = Len(p) - 1
      /\ \A i \in 1 .. Len(p) - 1 : Front(p)[i] = p[i]
  <2>1. Len(p) - 1 \in Nat /\ \A i \in 1 .. Len(p) - 1 : i \in 1 .. Len(p) /\ p[i] \in Names
    BY <1>1, <1>2
  <2>2. Front(p) = [i \in 1 .. Len(p) - 1 |-> p[i]]
    BY <1>1, <1>2 DEF Front
  <2>3. [i \in 1 .. Len(p) - 1 |-> p[i]] \in Seq(Names)
    BY <2>1, IsASeq
  <2>. QED
    BY <2>1, <2>2, <2>3
<1>4. p = Append(Front(p), Last(p))
  <2>1. Append(Front(p), Last(p)) \in Seq(Names) /\ Len(Append(Front(p), Last(p))) = Len(p)
    BY <1>2, <1>3
  <2>2. \A i \in 1 .. Len(p) : Append(Front(p), Last(p))[i] = p[i]
    BY <1>2, <1>3 DEF Last
  <2>. QED
    BY <1>1, <2>1, <2>2, SeqEqual
<1>5. Width(Front(p)) < PathMax
  <2>1. Width(Append(Front(p), Last(p))) = Width(Front(p)) + 1 + Widths[Last(p)]
    BY <1>2, <1>3, WidthRules
  <2>2. Width(Front(p)) \in Nat /\ Widths[Last(p)] \in Nat
    BY <1>2, <1>3, WidthRules, NamesAssumption
  <2>3. Width(p) = Width(Front(p)) + 1 + Widths[Last(p)]
    BY <1>4, <2>1
  <2>. QED
    BY <1>1, <2>2, <2>3, NamesAssumption
<1>. QED
  BY <1>2, <1>3, <1>4, <1>5 DEF Path

\* A path is not TooLong, and not one of the special texts is a name.
LEMMA PathIsNotTooLong ==
  /\ TooLong \notin Path /\ NoFile \notin Path
  /\ \A c \in Names : c \notin Special
BY NamesAssumption DEF Path

\* One component takes a path to a path, or finds it too long; a name is
\* appended when the result is short enough.
LEMMA ComponentKeeps ==
  ASSUME NEW p \in Resolved, NEW c \in Typed
  PROVE  /\ Component(p, c) \in Resolved
         /\ c \in Names /\ p \in Path => Component(p, c) = PushComponent(p, c)
         /\ c \in Names /\ p \in Path /\ Append(p, c) \in Path => Component(p, c) = Append(p, c)
<1>1. CASE p = TooLong \/ c \in {"/", "."}
  BY <1>1, PathIsNotTooLong DEF Component, Resolved, Special
<1>2. CASE c = ".." /\ p # TooLong
  <2>1. Component(p, c) = PopComponent(p)
    BY <1>2 DEF Component
  <2>2. p \in Path
    BY <1>2 DEF Resolved
  <2>3. PopComponent(p) \in Path
    BY <2>2, PathSplits DEF PopComponent
  <2>. QED
    BY <1>2, <2>1, <2>3, PathIsNotTooLong DEF Resolved, Special
<1>3. CASE c \notin Special /\ p # TooLong
  <2>1. c \in Names /\ p \in Path /\ p \in Seq(Names) /\ Widths[c] \in Nat
    BY <1>3, NamesAssumption DEF Typed, Resolved, Path
  <2>2. Component(p, c) = PushComponent(p, c)
    BY <1>3 DEF Component, Special
  <2>3. /\ Width(p) \in Nat /\ (p = <<>> => Width(p) = 0)
        /\ Width(Append(p, c)) = Width(p) + 1 + Widths[c]
    BY <2>1, WidthRules
  <2>4. Append(p, c) \in Path <=> Width(p) + 1 + Widths[c] < PathMax
    BY <2>1, <2>3 DEF Path
  <2>5. (IF p = <<>> THEN 1 ELSE Width(p) + 1) = Width(p) + 1
    BY <2>3
  <2>6. PushComponent(p, c) = IF Append(p, c) \in Path THEN Append(p, c) ELSE TooLong
    <3>1. PushComponent(p, c) = IF Width(p) + 1 + Widths[c] < PathMax THEN Append(p, c) ELSE TooLong
      BY <2>5 DEF PushComponent
    <3>. QED
      BY <2>4, <3>1
  <2>. QED
    BY <2>2, <2>6 DEF Resolved
<1>. QED
  BY <1>1, <1>2, <1>3 DEF Special

ParseSteps(t) == [i \in 1 .. Len(t) |-> [q \in Resolved |-> Component(q, t[i])]]

\* ParseInto is the end of a run that takes a component at a time.
LEMMA ParseIs ==
  ASSUME NEW t \in Seq(Typed), NEW out \in Resolved
  PROVE  \E g \in [0 .. Len(t) -> Resolved] :
            IsRun(g, out, ParseSteps(t), Len(t)) /\ ParseInto(t, out) = g[Len(t)]
<1>. DEFINE n == Len(t)
            Is(g) == g = [i \in 0 .. n |-> IF i = 0 THEN out ELSE Component(g[i - 1], t[i])]
<1>1. n \in Nat /\ \A i \in 1 .. n : t[i] \in Typed
  OBVIOUS
<1>2. ParseSteps(t) \in [1 .. n -> [Resolved -> Resolved]]
  <2>1. \A i \in 1 .. n, q \in Resolved : Component(q, t[i]) \in Resolved
    BY <1>1, ComponentKeeps
  <2>. QED
    BY <2>1 DEF ParseSteps
<1>3. \E g : Is(g)
  <2>1. PICK g \in [0 .. n -> Resolved] : IsRun(g, out, ParseSteps(t), n)
    <3>. HIDE DEF n
    <3>. QED
      BY <1>1, <1>2, RunExists
  <2>2. \A i \in 0 .. n : g[i] = IF i = 0 THEN out ELSE Component(g[i - 1], t[i])
    <3>. TAKE i \in 0 .. n
    <3>1. i # 0 => i \in 1 .. n /\ i - 1 \in 0 .. n
      BY <1>1
    <3>. QED
      BY <2>1, <3>1 DEF IsRun, ParseSteps
  <2>. QED
    BY <2>1, <2>2
<1>4. ParseInto(t, out) = (CHOOSE g : Is(g))[n]
  BY DEF ParseInto
<1>5. PICK g : Is(g) /\ ParseInto(t, out) = g[n]
  <2>. HIDE DEF Is
  <2>. QED
    BY <1>3, <1>4
<1>6. DOMAIN g = 0 .. n /\ g = [i \in 0 .. n |-> g[i]]
  BY <1>5
<1>7. \A i \in 0 .. n : g[i] = IF i = 0 THEN out ELSE Component(g[i - 1], t[i])
  BY <1>5
<1>8. \A i \in 0 .. n : g[i] \in Resolved
  <2>. DEFINE Bad == {i \in 0 .. n : g[i] \notin Resolved}
  <2>1. SUFFICES ASSUME Bad # {} PROVE FALSE
    OBVIOUS
  <2>2. PICK m \in Bad : \A k \in Bad : m <= k
    <3>1. Bad \in SUBSET Nat
      BY <1>1
    <3>. HIDE DEF Bad
    <3>. QED
      BY <2>1, <3>1, LeastNumber
  <2>3. m # 0
    BY <1>1, <1>7, <2>2
  <2>4. m \in 1 .. n /\ m - 1 \in 0 .. n /\ m \in 0 .. n
    BY <1>1, <2>2, <2>3
  <2>5. m - 1 \notin Bad
    <3>. HIDE DEF Bad
    <3>. QED
      BY <2>2, <2>4
  <2>6. g[m - 1] \in Resolved /\ g[m] = Component(g[m - 1], t[m])
    BY <1>7, <2>3, <2>4, <2>5
  <2>. QED
    BY <1>1, <2>2, <2>4, <2>6, ComponentKeeps
<1>9. g \in [0 .. n -> Resolved]
  BY <1>6, <1>8
<1>10. IsRun(g, out, ParseSteps(t), n)
  <2>1. g[0] = out
    BY <1>1, <1>7
  <2>2. \A i \in 1 .. n : g[i] = ParseSteps(t)[i][g[i - 1]]
    <3>. TAKE i \in 1 .. n
    <3>1. i \in 0 .. n /\ i - 1 \in 0 .. n /\ i # 0
      BY <1>1
    <3>. QED
      BY <1>7, <1>8, <3>1 DEF ParseSteps
  <2>. QED
    BY <2>1, <2>2 DEF IsRun
<1>. QED
  BY <1>5, <1>9, <1>10

\* The empty text leaves a path as it is, another component is taken last.
LEMMA ParseRules ==
  ASSUME NEW t \in Seq(Typed), NEW c \in Typed, NEW out \in Resolved
  PROVE  /\ ParseInto(<<>>, out) = out /\ ParseInto(t, out) \in Resolved
         /\ ParseInto(Append(t, c), out) = Component(ParseInto(t, out), c)
<1>1. ParseInto(<<>>, out) = out
  <2>1. <<>> \in Seq(Typed) /\ Len(<<>>) = 0
    OBVIOUS
  <2>. QED
    BY <2>1, ParseIs DEF IsRun
<1>. DEFINE q == Append(t, c)
            n == Len(t)
<1>2. q \in Seq(Typed) /\ Len(q) = n + 1 /\ n \in Nat /\ q[n + 1] = c /\ \A i \in 1 .. n : q[i] = t[i]
  OBVIOUS
<1>3. PICK g \in [0 .. n -> Resolved] : IsRun(g, out, ParseSteps(t), n) /\ ParseInto(t, out) = g[n]
  BY ParseIs
<1>4. PICK h \in [0 .. n + 1 -> Resolved] : IsRun(h, out, ParseSteps(q), n + 1) /\ ParseInto(q, out) = h[n + 1]
  <2>. HIDE DEF q, n
  <2>. QED
    BY <1>2, ParseIs
<1>5. IsRun(h, out, ParseSteps(t), n)
  <2>. HIDE DEF q
  <2>1. h[0] = out
    BY <1>4 DEF IsRun
  <2>2. \A i \in 1 .. n : h[i] = ParseSteps(t)[i][h[i - 1]]
    <3>. TAKE i \in 1 .. n
    <3>1. i \in 1 .. n + 1
      BY <1>2
    <3>2. h[i] = ParseSteps(q)[i][h[i - 1]]
      BY <1>4, <3>1 DEF IsRun
    <3>3. ParseSteps(q)[i] = ParseSteps(t)[i]
      BY <1>2, <3>1 DEF ParseSteps
    <3>. QED
      BY <3>2, <3>3
  <2>. QED
    BY <2>1, <2>2 DEF IsRun
<1>6. h[n] = g[n] /\ g[n] \in Resolved
  <2>. HIDE DEF n
  <2>1. n \in 0 .. n
    BY <1>2
  <2>2. \A i \in 0 .. n : h[i] = g[i]
    BY <1>2, <1>3, <1>5, RunIsOne
  <2>. QED
    BY <1>3, <2>1, <2>2
<1>7. h[n + 1] = Component(h[n], c)
  <2>. HIDE DEF q, n
  <2>1. n + 1 \in 1 .. n + 1 /\ (n + 1) - 1 = n
    BY <1>2
  <2>2. h[n + 1] = ParseSteps(q)[n + 1][h[n]]
    BY <1>4, <2>1 DEF IsRun
  <2>. QED
    BY <1>2, <1>6, <2>1, <2>2 DEF ParseSteps
<1>. QED
  BY <1>1, <1>3, <1>4, <1>6, <1>7

\* A text that is not empty is a shorter one and a component.
LEMMA TextSplits ==
  ASSUME NEW S, NEW s \in Seq(S), s # <<>>
  PROVE  \E r \in Seq(S), c \in S : s = Append(r, c) /\ Len(r) = Len(s) - 1
<1>1. \E r \in Seq(S) : \E c \in S : s = Append(r, c)
  BY SequenceEmptyOrAppend
<1>. QED
  BY <1>1

\* Parsing one text and then another is parsing both together.
LEMMA ParseBoth ==
  ASSUME NEW t \in Seq(Typed), NEW out \in Resolved
  PROVE  \A s \in Seq(Typed) : ParseInto(t \o s, out) = ParseInto(s, ParseInto(t, out))
<1>. DEFINE Good(s) == ParseInto(t \o s, out) = ParseInto(s, ParseInto(t, out))
            Bad == {n \in Nat : \E s \in Seq(Typed) : Len(s) = n /\ ~Good(s)}
<1>1. SUFFICES ASSUME Bad # {} PROVE FALSE
  <2>1. \A s \in Seq(Typed) : ~Good(s) => Len(s) \in Bad
    <3>1. \A s \in Seq(Typed) : Len(s) \in Nat
      OBVIOUS
    <3>. HIDE DEF Good
    <3>. QED
      BY <3>1
  <2>. QED
    BY <2>1
<1>2. PICK m \in Bad : \A k \in Bad : m <= k
  <2>1. Bad \in SUBSET Nat
    OBVIOUS
  <2>. HIDE DEF Bad
  <2>. QED
    BY <1>1, <2>1, LeastNumber
<1>3. PICK s \in Seq(Typed) : Len(s) = m /\ ~Good(s)
  BY <1>2
<1>4. ParseInto(t, out) \in Resolved
  <2>1. \E c : c \in Typed
    BY NamesAssumption DEF Typed
  <2>. QED
    BY <2>1, ParseRules
<1>5. s # <<>>
  <2>1. t \o <<>> = t /\ ParseInto(<<>>, ParseInto(t, out)) = ParseInto(t, out)
    <3>1. \E c : c \in Typed
      BY NamesAssumption DEF Typed
    <3>2. <<>> \in Seq(Typed)
      OBVIOUS
    <3>. QED
      BY <1>4, <3>1, <3>2, ParseRules
  <2>. QED
    BY <1>3, <2>1
<1>6. PICK r \in Seq(Typed), c \in Typed : s = Append(r, c) /\ Len(r) = Len(s) - 1
  BY <1>5, TextSplits
<1>7. Good(r)
  <2>1. m \in Nat /\ Len(r) = m - 1 /\ Len(r) \in Nat
    BY <1>2, <1>3, <1>6
  <2>2. Len(r) \notin Bad
    <3>. HIDE DEF Bad
    <3>. QED
      BY <1>2, <2>1
  <2>. HIDE DEF Good
  <2>. QED
    BY <2>1, <2>2
<1>8. t \o s = Append(t \o r, c) /\ t \o r \in Seq(Typed)
  BY <1>6
<1>9. ParseInto(t \o s, out) = Component(ParseInto(t \o r, out), c)
  <2>. DEFINE w == t \o r
  <2>1. w \in Seq(Typed) /\ t \o s = Append(w, c)
    BY <1>8
  <2>. HIDE DEF w
  <2>2. ParseInto(t \o s, out) = Component(ParseInto(w, out), c)
    BY <2>1, ParseRules
  <2>. QED
    BY <2>2 DEF w
<1>10. ParseInto(s, ParseInto(t, out)) = Component(ParseInto(r, ParseInto(t, out)), c)
  BY <1>4, <1>6, ParseRules
<1>. QED
  BY <1>3, <1>7, <1>9, <1>10

\* A path is what its own names resolve to.
LEMMA PathIsItself ==
  \A p \in Path : p \in Seq(Typed) /\ ParseInto(p, <<>>) = p
<1>. DEFINE Good(p) == ParseInto(p, <<>>) = p
            Bad == {n \in Nat : \E p \in Path : Len(p) = n /\ ~Good(p)}
<1>1. \A p \in Path : p \in Seq(Names) /\ p \in Seq(Typed) /\ Len(p) \in Nat
  <2>1. Seq(Names) \subseteq Seq(Typed)
    BY SeqMonotonic DEF Typed
  <2>. QED
    BY <2>1 DEF Path
<1>2. SUFFICES ASSUME Bad # {} PROVE FALSE
  <2>1. \A p \in Path : ~Good(p) => Len(p) \in Bad
    <3>. HIDE DEF Good
    <3>. QED
      BY <1>1
  <2>. QED
    BY <1>1, <2>1
<1>3. PICK m \in Bad : \A k \in Bad : m <= k
  <2>1. Bad \in SUBSET Nat
    OBVIOUS
  <2>. HIDE DEF Bad
  <2>. QED
    BY <1>2, <2>1, LeastNumber
<1>4. PICK p \in Path : Len(p) = m /\ ~Good(p)
  BY <1>3
<1>5. <<>> \in Path
  <2>1. Width(<<>>) = 0 /\ Width(p) \in Nat
    BY <1>1, <1>4, WidthRules, NamesAssumption
  <2>. QED
    BY <1>4, <2>1, NamesAssumption DEF Path
<1>6. p # <<>>
  <2>1. ParseInto(<<>>, <<>>) = <<>>
    BY <1>1, <1>5, ParseRules, NamesAssumption DEF Typed, Resolved
  <2>. QED
    BY <1>4, <2>1
<1>. DEFINE q == Front(p)
            c == Last(p)
<1>7. q \in Path /\ c \in Names /\ p = Append(q, c) /\ Len(q) = Len(p) - 1
  BY <1>6, PathSplits
<1>. HIDE DEF q, c
<1>8. Good(q)
  <2>1. m \in Nat /\ Len(q) = m - 1 /\ Len(q) \in Nat
    BY <1>1, <1>3, <1>4, <1>7
  <2>2. Len(q) \notin Bad
    <3>. HIDE DEF Bad
    <3>. QED
      BY <1>3, <2>1
  <2>. HIDE DEF Good
  <2>. QED
    BY <1>7, <2>1, <2>2
<1>9. ParseInto(p, <<>>) = Component(ParseInto(q, <<>>), c)
  <2>1. q \in Seq(Typed) /\ c \in Typed /\ <<>> \in Resolved
    BY <1>1, <1>5, <1>7 DEF Typed, Resolved
  <2>. QED
    BY <1>7, <2>1, ParseRules
<1>10. Component(q, c) = Append(q, c)
  <2>1. q \in Resolved /\ c \in Typed /\ Append(q, c) \in Path
    BY <1>4, <1>7 DEF Typed, Resolved
  <2>. QED
    BY <1>7, <2>1, ComponentKeeps
<1>. QED
  BY <1>4, <1>7, <1>8, <1>9, <1>10

----------------------------------------------------------------------------
(* Resolving a typed path from where the user is. *)

\* Both resolvers give the same path, or find it too long.
LEMMA ResolveIs ==
  ASSUME NEW from \in Path, NEW t \in Seq(Typed)
  PROVE  /\ ResolvePath(from, t) = ParseInto(t, IF IsAbsolute(t) THEN <<>> ELSE from)
         /\ TerminalResolvePath(from, t) = ResolvePath(from, t)
         /\ <<>> \in Path /\ ResolvePath(from, t) \in Resolved
<1>1. <<>> \in Path
  <2>1. Width(<<>>) = 0 /\ Width(from) \in Nat /\ Width(from) < PathMax
    BY WidthRules, NamesAssumption DEF Path
  <2>. QED
    BY <2>1, NamesAssumption DEF Path
<1>2. ParseInto(from, <<>>) = from
  BY PathIsItself
<1>3. ResolvePath(from, t) = ParseInto(t, IF IsAbsolute(t) THEN <<>> ELSE from)
  BY <1>2 DEF ResolvePath
<1>4. TerminalResolvePath(from, t) = ResolvePath(from, t)
  BY <1>2 DEF ResolvePath, TerminalResolvePath
<1>5. (IF IsAbsolute(t) THEN <<>> ELSE from) \in Resolved
  BY <1>1 DEF Resolved
<1>6. "/" \in Typed
  BY DEF Typed, Special
<1>. QED
  BY <1>1, <1>3, <1>4, <1>5, <1>6, ParseRules

\* The root and every user's home are paths.
LEMMA HomeIsPath ==
  ASSUME NEW u \in Users
  PROVE  <<>> \in Path /\ HomeOf(u) \in Path /\ HomeOf(u) \in Seq(Names)
<1>1. u \in Names /\ "home" \in Names /\ 2 + Widths["home"] + Widths[u] < PathMax
  BY NamesAssumption, UsersAssumption
<1>2. Widths["home"] \in Nat /\ Widths[u] \in Nat /\ PathMax \in Nat
  BY <1>1, NamesAssumption
<1>3. <<>> \in Seq(Names) /\ <<"home">> \in Seq(Names) /\ HomeOf(u) \in Seq(Names)
  BY <1>1 DEF HomeOf
<1>4. Width(<<>>) = 0 /\ Width(<<"home">>) = 1 + Widths["home"]
  <2>1. <<"home">> = Append(<<>>, "home")
    OBVIOUS
  <2>2. Width(<<>>) = 0 /\ Width(Append(<<>>, "home")) = Width(<<>>) + 1 + Widths["home"]
    BY <1>1, <1>3, WidthRules
  <2>. QED
    BY <1>2, <2>1, <2>2
<1>5. Width(HomeOf(u)) = 2 + Widths["home"] + Widths[u]
  <2>1. HomeOf(u) = Append(<<"home">>, u)
    BY DEF HomeOf
  <2>2. Width(Append(<<"home">>, u)) = Width(<<"home">>) + 1 + Widths[u]
    BY <1>1, <1>3, WidthRules
  <2>. QED
    BY <1>2, <1>4, <2>1, <2>2
<1>. QED
  BY <1>1, <1>2, <1>3, <1>4, <1>5 DEF Path

\* A path under a prefix begins with its names.
LEMMA UnderIsPrefix ==
  ASSUME NEW p \in Seq(Names), NEW prefix \in Seq(Names), IsUnder(p, prefix)
  PROVE  IsPrefix(prefix, p)
<1>. DEFINE n == Len(prefix)
<1>1. n \in Nat \ {0} /\ Len(p) \in Nat /\ n <= Len(p)
  BY DEF IsUnder, StartsWith
<1>2. Front(prefix) = SubSeq(p, 1, n - 1) /\ p[n] = prefix[n]
  BY DEF IsUnder, StartsWith, Last
<1>3. \A i \in 1 .. n : prefix[i] = p[i]
  <2>. TAKE i \in 1 .. n
  <2>1. CASE i = n
    BY <1>2, <2>1
  <2>2. CASE i # n
    <3>1. i \in 1 .. n - 1
      BY <1>1, <2>2
    <3>2. Front(prefix)[i] = prefix[i]
      BY <1>1, <3>1 DEF Front
    <3>3. SubSeq(p, 1, n - 1)[i] = p[i]
      BY <1>1, <3>1
    <3>. QED
      BY <1>2, <3>2, <3>3
  <2>. QED
    BY <2>1, <2>2
<1>4. SubSeq(prefix, 1, n) = SubSeq(p, 1, n)
  <2>1. SubSeq(prefix, 1, n) = [i \in 1 .. n |-> prefix[i]]
    BY <1>1
  <2>2. SubSeq(p, 1, n) = [i \in 1 .. n |-> p[i]]
    BY <1>1
  <2>. QED
    BY <1>3, <2>1, <2>2
<1>. QED
  BY <1>1, <1>4 DEF IsPrefix

\* What a user other than root may change is his own.
LEMMA ModifiableIsOwned ==
  ASSUME NEW p \in Seq(Names), user \in Users, user # Root, CanModify(p)
  PROVE  Owned(p)
<1>1. <<"temp">> \in Seq(Names) /\ HomeOf(user) \in Seq(Names)
  BY NamesAssumption, HomeIsPath
<1>2. IsUnder(p, <<"temp">>) \/ IsUnder(p, HomeOf(user))
  BY DEF CanModify, IsUnderCurrentHome
<1>. QED
  BY <1>1, <1>2, UnderIsPrefix DEF Owned

----------------------------------------------------------------------------
(* What the calls of the file system leave of the tree. *)

\* A node can be put where none is a directory but its parent.
LEMMA PutKeepsTree ==
  ASSUME NEW f, Tree(f), NEW p \in Places, p # <<>>, f[p] # Dir,
         Front(p) \in Places, f[Front(p)] = Dir, NEW n
  PROVE  Tree([f EXCEPT ![p] = n])
<1>. DEFINE g == [f EXCEPT ![p] = n]
<1>1. DOMAIN g = Places /\ g[p] = n /\ \A q \in Places : q # p => g[q] = f[q]
  BY DEF Tree
<1>2. g \in [Places -> {g[q] : q \in Places}]
  <2>1. g = [q \in Places |-> g[q]]
    BY <1>1
  <2>. HIDE DEF g
  <2>. QED
    BY <2>1
<1>. HIDE DEF g
<1>3. \A q \in Places : g[q] # Absent /\ q # <<>> => Front(q) \in Places /\ g[Front(q)] = Dir
  <2>. SUFFICES ASSUME NEW q \in Places, g[q] # Absent, q # <<>>
                PROVE  Front(q) \in Places /\ g[Front(q)] = Dir
    OBVIOUS
  <2>1. Front(q) \in Places /\ f[Front(q)] = Dir
    BY <1>1 DEF Tree
  <2>. QED
    BY <1>1, <2>1
<1>4. <<>> \in Places /\ g[<<>>] = Dir
  BY <1>1 DEF Tree
<1>. QED
  BY <1>2, <1>3, <1>4 DEF Tree, g

\* A node without nodes below it can be removed.
LEMMA RemoveKeepsTree ==
  ASSUME NEW f, Tree(f), NEW p \in Places, p # <<>>,
         \A q \in Places : IsStrictPrefix(p, q) => f[q] = Absent
  PROVE  Tree([f EXCEPT ![p] = Absent])
<1>. DEFINE g == [f EXCEPT ![p] = Absent]
<1>1. DOMAIN g = Places /\ g[p] = Absent /\ \A q \in Places : q # p => g[q] = f[q]
  BY DEF Tree
<1>2. g \in [Places -> {g[q] : q \in Places}]
  <2>1. g = [q \in Places |-> g[q]]
    BY <1>1
  <2>. HIDE DEF g
  <2>. QED
    BY <2>1
<1>. HIDE DEF g
<1>3. \A q \in Places : g[q] # Absent /\ q # <<>> => Front(q) \in Places /\ g[Front(q)] = Dir
  <2>. SUFFICES ASSUME NEW q \in Places, g[q] # Absent, q # <<>>
                PROVE  Front(q) \in Places /\ g[Front(q)] = Dir
    OBVIOUS
  <2>1. q # p /\ f[q] # Absent
    BY <1>1
  <2>2. Front(q) \in Places /\ f[Front(q)] = Dir
    BY <2>1 DEF Tree
  <2>3. q \in Seq(Names) /\ Len(q) \in Nat \ {0}
    BY TreesAssumption
  <2>4. IsStrictPrefix(Front(q), q)
    <3>1. Len(Front(q)) = Len(q) - 1 /\ Front(q) # q
      <4>1. Front(q) = [i \in 1 .. Len(q) - 1 |-> q[i]] /\ Len(q) - 1 \in Nat
        BY <2>3 DEF Front
      <4>2. Len(Front(q)) = Len(q) - 1
        BY <4>1
      <4>. QED
        BY <2>3, <4>2
    <3>2. SubSeq(Front(q), 1, Len(q) - 1) = SubSeq(q, 1, Len(q) - 1)
      BY <2>3 DEF Front
    <3>. QED
      BY <2>3, <3>1, <3>2 DEF IsStrictPrefix, IsPrefix
  <2>5. Front(q) # p
    BY <2>1, <2>4
  <2>. QED
    BY <1>1, <2>2, <2>5
<1>4. <<>> \in Places /\ g[<<>>] = Dir
  BY <1>1 DEF Tree
<1>. QED
  BY <1>2, <1>3, <1>4 DEF Tree, g

\* A call about p leaves a tree, with what it was everywhere else.
OnlyAt(p) == Tree(tree)' /\ \A q \in Places : q # p => tree'[q] = tree[q]

LEMMA SameIsOnlyAt ==
  ASSUME Tree(tree), UNCHANGED tree, NEW p
  PROVE  OnlyAt(p)
BY DEF OnlyAt, Tree

LEMMA PutIsOnlyAt ==
  ASSUME Tree(tree), NEW p, NEW n, Writable(p), Put(p, n)
  PROVE  OnlyAt(p) /\ tree'[p] = n
<1>1. p \in Places /\ p # <<>> /\ tree[p] # Dir /\ Front(p) \in Places /\ tree[Front(p)] = Dir
  BY TreesAssumption DEF Writable, At
<1>2. Tree([tree EXCEPT ![p] = n])
  BY <1>1, PutKeepsTree
<1>3. Tree(tree)'
  BY <1>2 DEF Put, Tree
<1>. QED
  BY <1>1, <1>3 DEF Put, OnlyAt, Tree

LEMMA CallsAreOnlyAt ==
  ASSUME Tree(tree), NEW p, NEW s
  PROVE  /\ MakeDir(p) => OnlyAt(p)
         /\ WriteFails(p, s) => OnlyAt(p)
         /\ Overwrite(p, s) => OnlyAt(p)
         /\ AppendTo(p, s) => OnlyAt(p)
         /\ Unlink(p) => OnlyAt(p)
<1>1. WriteFails(p, s) => OnlyAt(p)
  BY SameIsOnlyAt, PutIsOnlyAt DEF WriteFails
<1>2. MakeDir(p) => OnlyAt(p)
  BY SameIsOnlyAt, PutIsOnlyAt, TreesAssumption DEF MakeDir, Writable
<1>3. Unlink(p) => OnlyAt(p)
  <2>1. ASSUME Removable(p), Put(p, Absent) PROVE OnlyAt(p)
    <3>1. Tree([tree EXCEPT ![p] = Absent])
      BY <2>1, RemoveKeepsTree DEF Removable
    <3>2. Tree(tree)'
      BY <2>1, <3>1 DEF Put, Tree
    <3>. QED
      BY <2>1, <3>2 DEF Put, OnlyAt, Tree
  <2>. QED
    BY <2>1, SameIsOnlyAt DEF Unlink
<1>4. Overwrite(p, s) => OnlyAt(p)
  BY <1>1, PutIsOnlyAt DEF Overwrite
<1>5. AppendTo(p, s) => OnlyAt(p)
  BY SameIsOnlyAt, PutIsOnlyAt DEF AppendTo
<1>. QED
  BY <1>1, <1>2, <1>3, <1>4, <1>5

----------------------------------------------------------------------------
(* The invariant. *)

\* At is about the places of the tree; what is a file is at one of them.
LEMMA FileIsAtPlace ==
  ASSUME NEW p, IsFile(At(p))
  PROVE  p \in Places /\ At(p) = tree[p]
BY DEF At, IsFile

\* While nothing runs and nothing was asked for, the rest holds.
LEMMA RestIsSound ==
  ASSUME StateInv', job' = NoJob, asked' = NoJob
  PROVE  FilesInv'
BY DEF FilesInv, JobInv, SourceKept

LEMMA InitIsSound == Init => FilesInv
<1>. SUFFICES ASSUME Init PROVE FilesInv
  OBVIOUS
<1>1. Tree(tree) /\ user \in Users /\ cwd \in Path
  BY HomeIsPath, TreesAssumption DEF Init
<1>. QED
  BY <1>1 DEF Init, FilesInv, StateInv, JobInv, SourceKept

\* What a user types resolves from where he is.
LEMMA NamedIsResolved ==
  ASSUME StateInv, NEW t \in Texts
  PROVE  ResolvePath(cwd, t) \in Resolved
<1>1. t \in Seq(Typed) /\ cwd \in Path
  BY TextsAssumption DEF Typed, StateInv
<1>. QED
  BY <1>1, ResolveIs

\* A step that changes the tree at a path the user may modify is his own.
LEMMA ChangeIsOwned ==
  ASSUME user \in Users, NEW p, p \in Places => CanModify(p), OnlyAt(p)
  PROVE  OwnedChange
<1>. SUFFICES ASSUME user # Root, NEW q \in Places PROVE Owned(q) \/ tree'[q] = tree[q]
  BY DEF OwnedChange
<1>1. CASE q = p
  BY <1>1, ModifiableIsOwned, TreesAssumption
<1>2. CASE q # p
  BY <1>2 DEF OnlyAt
<1>. QED
  BY <1>1, <1>2

LEMMA CdIsSound ==
  ASSUME FilesInv, Cd
  PROVE  FilesInv' /\ OwnedChange
<1>1. PICK t \in Texts \cup {<<>>} :
        LET target == IF t = <<>> THEN HomeOf(user) ELSE ResolvePath(cwd, t)
        IN /\ Asked(NoJob)
           /\ IF target # TooLong /\ At(target) = Dir
              THEN cwd' = target /\ UNCHANGED <<tree, user, job>> ELSE Refused
  BY DEF Cd
<1>2. StateInv /\ job' = NoJob /\ asked' = NoJob /\ tree' = tree /\ user' = user
  BY <1>1 DEF FilesInv, Asked, Refused
<1>3. cwd' \in Path
  <2>1. CASE cwd' = cwd
    BY <1>2, <2>1 DEF StateInv
  <2>2. CASE cwd' # cwd /\ t = <<>>
    BY <1>1, <1>2, <2>2, HomeIsPath DEF Refused, StateInv
  <2>3. CASE cwd' # cwd /\ t # <<>>
    <3>1. cwd' = ResolvePath(cwd, t) /\ cwd' # TooLong /\ t \in Texts
      BY <1>1, <2>3 DEF Refused
    <3>. QED
      BY <1>2, <3>1, NamedIsResolved DEF Resolved
  <2>. QED
    BY <2>1, <2>2, <2>3
<1>4. StateInv'
  BY <1>2, <1>3 DEF StateInv, Tree
<1>. QED
  BY <1>2, <1>4, RestIsSound DEF OwnedChange

\* A command that makes one call about a path the user may modify.
LEMMA CallIsSound ==
  ASSUME FilesInv, NEW p, OnPath(p), OnlyAt(p)
  PROVE  FilesInv' /\ OwnedChange
<1>1. job' = NoJob /\ asked' = NoJob /\ user' = user /\ cwd' = cwd /\ CanModify(p)
  BY DEF OnPath, Asked
<1>2. StateInv'
  BY <1>1 DEF FilesInv, StateInv, OnlyAt
<1>3. user \in Users
  BY DEF FilesInv, StateInv
<1>. QED
  BY <1>1, <1>2, <1>3, RestIsSound, ChangeIsOwned

LEMMA CommandsAreSound ==
  ASSUME FilesInv, TurnAway \/ Mkdir \/ Touch \/ Write \/ AppendText \/ Rm
  PROVE  FilesInv' /\ OwnedChange
<1>1. Tree(tree)
  BY DEF FilesInv, StateInv
<1>2. CASE TurnAway
  <2>1. job' = NoJob /\ asked' = NoJob /\ UNCHANGED <<tree, user, cwd>>
    BY <1>2 DEF TurnAway, Asked, Refused
  <2>2. StateInv'
    BY <2>1 DEF FilesInv, StateInv, Tree
  <2>. QED
    BY <2>1, <2>2, RestIsSound DEF OwnedChange
<1>3. CASE Mkdir
  BY <1>1, <1>3, CallsAreOnlyAt, CallIsSound DEF Mkdir
<1>4. CASE Touch
  BY <1>1, <1>4, CallsAreOnlyAt, CallIsSound DEF Touch
<1>5. CASE Write
  BY <1>1, <1>5, CallsAreOnlyAt, CallIsSound DEF Write
<1>6. CASE AppendText
  BY <1>1, <1>6, CallsAreOnlyAt, CallIsSound DEF AppendText
<1>7. CASE Rm
  BY <1>1, <1>7, CallsAreOnlyAt, CallIsSound DEF Rm
<1>. QED
  BY <1>2, <1>3, <1>4, <1>5, <1>6, <1>7

\* Only a user's rights decide, and they do not change while a job runs.
LEMMA RightsStay ==
  ASSUME UNCHANGED user, NEW op, NEW src, NEW dst
  PROVE  MayCopy(op, src, dst)' <=> MayCopy(op, src, dst)
BY DEF MayCopy, CanModify, IsUnderCurrentHome

LEMMA CopyIsSound ==
  ASSUME FilesInv, NEW op \in {"cp", "mv"}, Copy(op)
  PROVE  FilesInv' /\ OwnedChange
<1>. DEFINE Seen(src) == IF src = TooLong THEN Absent ELSE At(src)
<1>1. PICK t \in Texts, u \in Texts :
        LET src == ResolvePath(cwd, t)  dst == ResolvePath(cwd, u)
        IN /\ Asked([src |-> src, dst |-> dst, was |-> Seen(src)])
           /\ IF TooLong \in {src, dst} THEN Refused
              ELSE IF ~IsFile(At(src)) \/ ~MayCopy(op, src, dst) THEN Refused
              ELSE /\ job' = [op |-> op, src |-> src, dst |-> dst, step |-> "write",
                              read |-> Buffered(tree[src])]
                   /\ UNCHANGED <<tree, user, cwd>>
  BY DEF Copy
<1>2. PICK src, dst : src = ResolvePath(cwd, t) /\ dst = ResolvePath(cwd, u)
  OBVIOUS
<1>3. UNCHANGED <<tree, user, cwd>> /\ asked' = [src |-> src, dst |-> dst, was |-> Seen(src)] /\ job = NoJob
  BY <1>1, <1>2 DEF Asked, Refused
<1>4. StateInv'
  BY <1>3 DEF FilesInv, StateInv, Tree
<1>5. SourceKept'
  <2>1. asked'.src = src /\ asked'.dst = dst /\ asked'.was = Seen(src)
    BY <1>3
  <2>2. src # TooLong => Seen(src) = At(src)'
    BY <1>3 DEF At
  <2>3. src = TooLong => ~IsFile(Seen(src))
    BY DEF IsFile
  <2>. HIDE DEF Seen
  <2>. QED
    BY <2>1, <2>2, <2>3 DEF SourceKept, IsFile
<1>6. CASE job' = NoJob
  BY <1>3, <1>4, <1>5, <1>6 DEF FilesInv, JobInv, OwnedChange
<1>7. CASE job' # NoJob
  <2>1. /\ TooLong \notin {src, dst} /\ IsFile(At(src)) /\ MayCopy(op, src, dst)
        /\ job' = [op |-> op, src |-> src, dst |-> dst, step |-> "write", read |-> Buffered(tree[src])]
    BY <1>1, <1>2, <1>3, <1>7 DEF Refused
  <2>2. src \in Path /\ dst \in Path
    BY <1>2, <2>1, NamedIsResolved DEF FilesInv, Resolved
  <2>3. Seen(src) = At(src) /\ At(src) = tree[src]
    BY <2>1, FileIsAtPlace
  <2>4. MayCopy(op, src, dst)'
    BY <1>3, <2>1, RightsStay
  <2>5. /\ job'.op = op /\ job'.src = src /\ job'.dst = dst /\ job'.step = "write"
        /\ job'.read = Buffered(tree[src])
    BY <2>1
  <2>6. asked' = [src |-> src, dst |-> dst, was |-> asked'.was] /\ asked'.was = tree[src]
    BY <1>3, <2>3
  <2>7. job' \in [op : {"cp", "mv"}, src : Path, dst : Path, step : {"write", "remove"}, read : {job'.read}]
    BY <2>1, <2>2, <2>5
  <2>8. IsFile(asked'.was) /\ asked'.was = At(src)'
    BY <1>3, <2>1, <2>3, <2>6 DEF At, IsFile
  <2>9. JobInv'
    BY <2>4, <2>5, <2>6, <2>7, <2>8 DEF JobInv, IsFile
  <2>. QED
    BY <1>3, <1>4, <1>5, <2>9 DEF FilesInv, OwnedChange
<1>. QED
  BY <1>6, <1>7

\* What JobInv says of a job that runs.
LEMMA JobRuns ==
  ASSUME FilesInv, job # NoJob
  PROVE  /\ job.src \in Path /\ job.dst \in Path /\ job.op \in {"cp", "mv"}
         /\ CanModify(job.dst) /\ (job.step = "remove" => CanModify(job.src))
         /\ asked.src = job.src /\ asked.dst = job.dst /\ job.dst # TooLong
         /\ job.read = Buffered(asked.was)
         /\ job.src # job.dst /\ job.step = "write" => asked.was = At(job.src)
         /\ job.src # job.dst /\ job.step = "remove" => At(job.dst) = job.read
<1>1. job \in [op : {"cp", "mv"}, src : Path, dst : Path, step : {"write", "remove"}, read : {job.read}]
  BY DEF FilesInv, JobInv
<1>2. MayCopy(job.op, job.src, job.dst) /\ (job.step = "remove" => job.op = "mv")
  BY DEF FilesInv, JobInv
<1>3. asked.src = job.src /\ asked.dst = job.dst
  <2>1. asked = [src |-> job.src, dst |-> job.dst, was |-> asked.was]
    BY DEF FilesInv, JobInv
  <2>. QED
    BY <2>1
<1>4. /\ job.read = Buffered(asked.was)
      /\ job.src # job.dst /\ job.step = "write" => asked.was = At(job.src)
      /\ job.src # job.dst /\ job.step = "remove" => At(job.dst) = job.read
  BY DEF FilesInv, JobInv
<1>. QED
  BY <1>1, <1>2, <1>3, <1>4, PathIsNotTooLong DEF MayCopy

\* A file that fits the buffer is read whole.
LEMMA BufferedIsWhole ==
  ASSUME NEW f, Len(f) <= CopyMax
  PROVE  Buffered(f) = f
BY DEF Buffered

\* Nothing changes at a path but the one the call is about.
LEMMA AtStays ==
  ASSUME NEW p, NEW q, p # q, OnlyAt(p)
  PROVE  At(q)' = At(q)
BY DEF At, OnlyAt

LEMMA CopyWriteIsSound ==
  ASSUME FilesInv, CopyWrite
  PROVE  FilesInv' /\ OwnedChange
<1>1. /\ job # NoJob /\ job.step = "write" /\ UNCHANGED <<user, cwd, asked>>
      /\ Tree(tree) /\ user \in Users /\ cwd \in Path
  BY DEF CopyWrite, FilesInv, StateInv
<1>2. OnlyAt(job.dst)
  BY <1>1, CallsAreOnlyAt, PutIsOnlyAt DEF CopyWrite
<1>3. StateInv' /\ OwnedChange
  BY <1>1, <1>2, JobRuns, ChangeIsOwned DEF StateInv, OnlyAt
<1>4. SourceKept'
  <2>1. PICK src, dst : src = job.src /\ dst = job.dst
    OBVIOUS
  <2>2. asked.src = src /\ asked.dst = dst /\ dst # TooLong
    BY <1>1, <2>1, JobRuns
  <2>3. SUFFICES ASSUME src # dst, IsFile(asked.was), Len(asked.was) <= CopyMax
                 PROVE  asked.was = At(src)'
    BY <1>1, <2>2 DEF SourceKept, IsFile
  <2>4. At(src) = asked.was
    BY <1>1, <2>1, <2>3, JobRuns
  <2>. QED
    BY <1>2, <2>1, <2>3, <2>4, AtStays
<1>5. JobInv'
  <2>1. SUFFICES ASSUME job' # NoJob PROVE JobInv'
    BY DEF JobInv
  <2>2. /\ Writable(job.dst) /\ Put(job.dst, job.read)
        /\ job.op = "mv" /\ job' = [job EXCEPT !.step = "remove"]
    BY <2>1 DEF CopyWrite
  <2>3. tree'[job.dst] = job.read /\ job.dst \in Places
    BY <1>1, <2>2, PutIsOnlyAt DEF Writable
  <2>4. job \in [op : {"cp", "mv"}, src : Path, dst : Path, step : {"write", "remove"}, read : {job.read}]
    BY <1>1 DEF FilesInv, JobInv
  <2>5. /\ job'.op = job.op /\ job'.src = job.src /\ job'.dst = job.dst /\ job'.step = "remove"
        /\ job'.read = job.read
        /\ job' \in [op : {"cp", "mv"}, src : Path, dst : Path, step : {"write", "remove"}, read : {job'.read}]
    BY <2>2, <2>4
  <2>6. MayCopy(job.op, job.src, job.dst)'
    <3>1. PICK op, src, dst : op = job.op /\ src = job.src /\ dst = job.dst
      OBVIOUS
    <3>2. MayCopy(op, src, dst)'
      BY <1>1, <3>1, RightsStay DEF FilesInv, JobInv
    <3>. QED
      BY <2>5, <3>1, <3>2
  <2>7. At(job.dst)' = job'.read
    BY <2>3, <2>5 DEF At
  <2>8. /\ asked' = [src |-> job.src, dst |-> job.dst, was |-> asked'.was]
        /\ IsFile(asked'.was) /\ job.read = Buffered(asked'.was)
    BY <1>1 DEF FilesInv, JobInv
  <2>. QED
    BY <2>2, <2>5, <2>6, <2>7, <2>8 DEF JobInv, IsFile
<1>. QED
  BY <1>3, <1>4, <1>5 DEF FilesInv

LEMMA MvRemoveIsSound ==
  ASSUME FilesInv, MvRemove
  PROVE  FilesInv' /\ OwnedChange
<1>1. /\ job # NoJob /\ job.step = "remove" /\ UNCHANGED <<user, cwd, asked>> /\ job' = NoJob
      /\ Tree(tree) /\ user \in Users /\ cwd \in Path
  BY DEF MvRemove, FilesInv, StateInv
<1>2. OnlyAt(job.src)
  BY <1>1, CallsAreOnlyAt DEF MvRemove
<1>3. StateInv' /\ OwnedChange
  BY <1>1, <1>2, JobRuns, ChangeIsOwned DEF StateInv, OnlyAt
<1>4. SourceKept'
  <2>1. PICK src, dst : src = job.src /\ dst = job.dst
    OBVIOUS
  <2>2. asked.src = src /\ asked.dst = dst /\ dst # TooLong
    BY <1>1, <2>1, JobRuns
  <2>3. SUFFICES ASSUME src # dst, IsFile(asked.was), Len(asked.was) <= CopyMax
                 PROVE  asked.was = At(dst)'
    BY <1>1, <2>2 DEF SourceKept, IsFile
  <2>4. At(dst) = asked.was
    BY <1>1, <2>1, <2>3, JobRuns, BufferedIsWhole
  <2>. QED
    BY <1>2, <2>1, <2>3, <2>4, AtStays
<1>. QED
  BY <1>1, <1>3, <1>4 DEF FilesInv, JobInv

LEMMA KilledIsSound ==
  ASSUME FilesInv, Killed
  PROVE  FilesInv' /\ OwnedChange
<1>1. StateInv' /\ SourceKept'
  BY DEF Killed, FilesInv, StateInv, SourceKept, Tree, At, IsFile
<1>. QED
  BY <1>1 DEF Killed, FilesInv, JobInv, OwnedChange

LEMMA StepIsSound ==
  ASSUME FilesInv, [Next]_vars
  PROVE  FilesInv' /\ (OwnedChange \/ UNCHANGED vars)
<1>1. CASE UNCHANGED vars
  BY <1>1 DEF vars, FilesInv, StateInv, JobInv, SourceKept, Tree, At, IsFile, MayCopy, CanModify,
     IsUnderCurrentHome
<1>2. CASE Cd
  BY <1>2, CdIsSound
<1>3. CASE TurnAway \/ Mkdir \/ Touch \/ Write \/ AppendText \/ Rm
  BY <1>3, CommandsAreSound
<1>4. CASE Cp \/ Mv
  BY <1>4, CopyIsSound DEF Cp, Mv
<1>5. CASE CopyWrite
  BY <1>5, CopyWriteIsSound
<1>6. CASE MvRemove
  BY <1>6, MvRemoveIsSound
<1>7. CASE Killed
  BY <1>7, KilledIsSound
<1>. QED
  BY <1>1, <1>2, <1>3, <1>4, <1>5, <1>6, <1>7 DEF Next

----------------------------------------------------------------------------
(* What the paths agree on, wherever the user is. *)

\* Absolute is decided by the first component, in a longer text as well.
LEMMA LongerText ==
  ASSUME NEW t \in Seq(Typed) \ {<<>>}, NEW u \in Seq(Typed)
  PROVE  /\ t \o <<"/">> \in Seq(Typed) /\ t \o <<"/">> \o u \in Seq(Typed)
         /\ IsAbsolute(t \o <<"/">> \o u) <=> IsAbsolute(t)
<1>1. "/" \in Typed /\ <<"/">> \in Seq(Typed)
  BY DEF Typed, Special
<1>2. Len(t) \in Nat \ {0} /\ Len(u) \in Nat
  OBVIOUS
<1>3. t \o <<"/">> \in Seq(Typed) /\ t \o <<"/">> \o u \in Seq(Typed)
  BY <1>1
<1>4. Len(t \o <<"/">> \o u) = Len(t) + 1 + Len(u)
  BY <1>1, <1>2
<1>5. (t \o <<"/">> \o u)[1] = t[1] /\ t \o <<"/">> \o u # <<>> /\ t # <<>>
  <2>1. (t \o <<"/">>)[1] = t[1] /\ Len(t \o <<"/">>) = Len(t) + 1
    BY <1>1, <1>2
  <2>2. ((t \o <<"/">>) \o u)[1] = (t \o <<"/">>)[1]
    BY <1>1, <1>2, <1>3, <2>1
  <2>3. t \o <<"/">> \o u # <<>>
    BY <1>2, <1>3, <1>4
  <2>. QED
    BY <2>1, <2>2, <2>3
<1>. QED
  BY <1>3, <1>5 DEF IsAbsolute

\* Going there and naming a file is naming both together.
LEMMA ThereAndHere ==
  ASSUME NEW from \in Path, NEW t \in Seq(Typed) \ {<<>>}, NEW u \in Seq(Typed),
         ResolvePath(from, t) # TooLong, ~IsAbsolute(u)
  PROVE  ResolvePath(from, t \o <<"/">> \o u) = ResolvePath(ResolvePath(from, t), u)
<1>. DEFINE there == ResolvePath(from, t)
<1>1. there \in Path
  BY ResolveIs DEF Resolved
<1>2. PICK out : out = IF IsAbsolute(t) THEN <<>> ELSE from
  OBVIOUS
<1>3. out \in Resolved /\ there = ParseInto(t, out)
  <2>1. <<>> \in Path /\ ResolvePath(from, t) = ParseInto(t, IF IsAbsolute(t) THEN <<>> ELSE from)
    BY ResolveIs
  <2>. QED
    BY <1>2, <2>1 DEF Resolved
<1>4. ResolvePath(there, u) = ParseInto(u, there)
  <2>. HIDE DEF there
  <2>. QED
    BY <1>1, ResolveIs
<1>5. PICK s : s = t \o <<"/">>
  OBVIOUS
<1>6. s \in Seq(Typed) /\ s \o u \in Seq(Typed) /\ (IsAbsolute(s \o u) <=> IsAbsolute(t))
      /\ s = Append(t, "/") /\ "/" \in Typed
  <2>1. "/" \in Typed
    BY DEF Typed, Special
  <2>2. t \o <<"/">> = Append(t, "/")
    BY <2>1
  <2>. QED
    BY <1>5, <2>1, <2>2, LongerText
<1>7. ResolvePath(from, s \o u) = ParseInto(s \o u, out)
  BY <1>2, <1>6, ResolveIs
<1>8. ParseInto(s, out) = there
  <2>1. ParseInto(s, out) = Component(ParseInto(t, out), "/")
    BY <1>3, <1>6, ParseRules
  <2>. QED
    BY <1>3, <2>1 DEF Component
<1>9. ParseInto(s \o u, out) = ParseInto(u, ParseInto(s, out))
  BY <1>3, <1>6, ParseBoth
<1>. QED
  BY <1>4, <1>5, <1>7, <1>8, <1>9

\* A path of one name, and another name.
LEMMA OneAnd ==
  ASSUME NEW S, NEW a \in S, NEW n \in S
  PROVE  Append(<<a>>, n) = <<a, n>>
<1>1. PICK p \in Seq(S) : p = <<a>> /\ Len(p) = 1 /\ p[1] = a
  <2>1. <<a>> \in Seq(S) /\ Len(<<a>>) = 1 /\ <<a>>[1] = a
    OBVIOUS
  <2>. QED
    BY <2>1
<1>2. PICK q \in Seq(S) : q = <<a, n>> /\ Len(q) = 2 /\ q[1] = a /\ q[2] = n
  <2>1. <<a, n>> \in Seq(S) /\ Len(<<a, n>>) = 2 /\ <<a, n>>[1] = a /\ <<a, n>>[2] = n
    OBVIOUS
  <2>. QED
    BY <2>1
<1>3. PICK r \in Seq(S) : r = Append(p, n)
  BY AppendProperties
<1>4. Len(r) = 2 /\ r[1] = a /\ r[2] = n
  BY <1>1, <1>3
<1>5. \A i \in 1 .. 2 : r[i] = q[i]
  BY <1>2, <1>4
<1>6. r = q
  BY <1>2, <1>4, <1>5, SeqEqual
<1>. QED
  BY <1>1, <1>2, <1>3, <1>6

LEMMA ShellAnd ==
  ASSUME NEW n
  PROVE  Append(<<"shell">>, n) = <<"shell", n>>
<1>1. \A a, b : Append(<<a>>, b) = <<a, b>>
  <2>. TAKE a, b
  <2>1. a \in {a, b} /\ b \in {a, b}
    OBVIOUS
  <2>2. PICK S : a \in S /\ b \in S
    BY <2>1
  <2>. QED
    BY <2>2, OneAnd
<1>. QED
  BY ONLY <1>1

\* The first directory of PATH that has a file of the name.
LEMMA ShellIsFirst ==
  ASSUME NEW n, IsFile(At(<<"shell", n>>))
  PROVE  LET found == {i \in DOMAIN Search : IsFile(At(Append(Search[i], n)))}
         IN found # {} /\ Search[CHOOSE i \in found : \A j \in found : i <= j] = <<"shell">>
<1>. DEFINE found == {i \in DOMAIN Search : IsFile(At(Append(Search[i], n)))}
<1>1. 1 \in DOMAIN Search /\ Search[1] = <<"shell">>
  <2>1. Search \in Seq(Seq(Names)) /\ Search # <<>> /\ Len(Search) \in Nat \ {0}
    BY SearchAssumption
  <2>. QED
    BY <2>1, SearchAssumption
<1>2. DOMAIN Search \subseteq Nat \ {0}
  <2>1. Search \in Seq(Seq(Names))
    BY SearchAssumption
  <2>2. DOMAIN Search = 1 .. Len(Search) /\ Len(Search) \in Nat
    BY <2>1
  <2>. QED
    BY <2>2
<1>3. Append(<<"shell">>, n) = <<"shell", n>>
  BY ShellAnd
<1>4. 1 \in found
  BY <1>1, <1>3
<1>5. found \subseteq Nat \ {0}
  BY <1>2
<1>. HIDE DEF found
<1>6. \E i \in found : \A j \in found : i <= j
  BY <1>4, <1>5
<1>7. (CHOOSE i \in found : \A j \in found : i <= j) = 1
  <2>. DEFINE i == CHOOSE i \in found : \A j \in found : i <= j
  <2>1. i \in found /\ \A j \in found : i <= j
    BY <1>6
  <2>. HIDE DEF i
  <2>2. i = 1
    BY <1>4, <1>5, <2>1
  <2>. QED
    BY <2>2 DEF i
<1>. QED
  BY <1>1, <1>4, <1>7 DEF found

\* The terminal's program is xsh's, or none for a bare name.
LEMMA ProgramsAgree ==
  ASSUME Tree(tree), cwd \in Path, NEW t \in Seq(Typed) \ {<<>>}
  PROVE  \/ HasSlash(t) /\ IsCompleted(t)
         \/ ResolveCommandPath(t) = RunExternal(t)
         \/ ~HasSlash(t) /\ ResolveCommandPath(t) = NoFile
<1>1. CASE ~HasSlash(t)
  <2>. DEFINE n == ElfOf(t[1])
  <2>1. CASE IsFile(At(<<"shell", n>>))
    <3>1. RunExternal(t) = Append(<<"shell">>, n)
      BY <1>1, <2>1, ShellIsFirst DEF RunExternal
    <3>2. ResolveCommandPath(t) \in {NoFile, <<"shell", n>>}
      BY <1>1 DEF ResolveCommandPath, FileAt
    <3>3. Append(<<"shell">>, n) = <<"shell", n>>
      BY ShellAnd
    <3>. QED
      BY <1>1, <3>1, <3>2, <3>3
  <2>2. CASE ~IsFile(At(<<"shell", n>>))
    BY <1>1, <2>2 DEF ResolveCommandPath, FileAt
  <2>. QED
    BY <2>1, <2>2
<1>2. CASE HasSlash(t)
  <2>1. PICK p : p = ResolvePath(cwd, t)
    OBVIOUS
  <2>2. ResolveCommandPath(t) = FileAt(p) /\ p \in Resolved
    BY <1>2, <2>1, ResolveIs DEF ResolveCommandPath
  <2>3. CASE p = TooLong
    <3>1. ResolveExecPath(t) = TooLong
      BY <2>1, <2>3 DEF ResolveExecPath
    <3>. QED
      BY <1>2, <2>2, <2>3, <3>1 DEF RunExternal
  <2>4. CASE p = <<>>
    <3>1. ~IsFile(At(p))
      BY <2>4 DEF Tree, At, IsFile
    <3>2. ResolveExecPath(t) = TooLong
      BY <2>1, <2>4 DEF ResolveExecPath
    <3>. QED
      BY <1>2, <2>2, <3>1, <3>2 DEF FileAt, RunExternal
  <2>5. CASE p \notin {TooLong, <<>>} /\ ~IsCompleted(t)
    <3>1. ~(IsAbsolute(t) /\ Last(t) \in Special) /\ Last(p) \notin DOMAIN WithElf
      BY <2>1, <2>5 DEF IsCompleted
    <3>2. ResolveExecPath(t) = Append(Front(p), ElfOf(Last(p)))
      BY <2>1, <2>5, <3>1 DEF ResolveExecPath
    <3>3. p \in Path
      BY <2>2, <2>5 DEF Resolved
    <3>4. ResolveExecPath(t) = p
      BY <2>5, <3>1, <3>2, <3>3, PathSplits DEF ElfOf
    <3>. QED
      BY <1>2, <2>2, <3>4 DEF RunExternal
  <2>. QED
    BY <1>2, <2>3, <2>4, <2>5
<1>. QED
  BY <1>1, <1>2

LEMMA InvMeansAgreement == FilesInv => PathsAgree
<1>. SUFFICES ASSUME FilesInv PROVE PathsAgree
  OBVIOUS
<1>1. Tree(tree) /\ cwd \in Path
  BY DEF FilesInv, StateInv
<1>2. TypeOK
  <2>1. cwd \in Seq(Names) /\ Width(cwd) < PathMax
    BY <1>1 DEF Path
  <2>2. ToSet(cwd) \subseteq Names
    BY <2>1 DEF ToSet
  <2>. QED
    BY <1>1, <2>1, <2>2, NamesAssumption DEF TypeOK
<1>3. Texts \subseteq Seq(Typed) \ {<<>>} /\ Commands \subseteq Seq(Typed) \ {<<>>}
  BY TextsAssumption DEF Typed
<1>4. \A t, u \in Texts :
        LET there == ResolvePath(cwd, t)
        IN there = TooLong \/ IsAbsolute(u)
           \/ ResolvePath(cwd, t \o <<"/">> \o u) = ResolvePath(there, u)
  BY <1>1, <1>3, ThereAndHere
<1>5. \A t \in Commands :
        \/ HasSlash(t) /\ IsCompleted(t)
        \/ ResolveCommandPath(t) = RunExternal(t)
        \/ ~HasSlash(t) /\ ResolveCommandPath(t) = NoFile
  BY <1>1, <1>3, ProgramsAgree
<1>. QED
  BY <1>2, <1>4, <1>5 DEF PathsAgree

----------------------------------------------------------------------------
(* The theorems. *)

\* Whatever is typed and whichever calls fail or stop half way, every node
\* stays in a directory, the user's directory is a path, and a cp or mv that
\* runs still has what it read, from a file that is still there
\* (apps/cmd_runtime.c, apps/cp_main.c, apps/mv_main.c).
THEOREM FilesAreSound == Spec => []FilesInv
<1>1. FilesInv /\ [Next]_vars => FilesInv'
  BY StepIsSound
<1>. QED
  BY <1>1, InitIsSound, PTL DEF Spec

\* What cp and mv take is at the old place or whole at the new one, for files
\* that fit one buffer and places that differ.
THEOREM SourcesAreKept == Spec => []SourceKept
<1>1. FilesInv => SourceKept
  BY DEF FilesInv
<1>. QED
  BY <1>1, FilesAreSound, PTL

\* A user other than root changes nothing outside /temp and the own home
\* (ush_can_modify_path).
THEOREM OnlyTheOwnChanges == Spec => ChangesOwned
<1>1. FilesInv /\ [Next]_vars => [OwnedChange]_vars
  BY StepIsSound
<1>. QED
  BY <1>1, FilesAreSound, PTL DEF Spec, ChangesOwned

\* Going to a place and naming a file there is naming both together, and the
\* terminal runs the program xsh runs (ush_resolve_path, xde_terminal_resolve_path).
THEOREM PathsAlwaysAgree == Spec => []PathsAgree
BY FilesAreSound, InvMeansAgreement, PTL
----------------------------------------------------------------------------
(* Numbers: what strtoul reads is what the text means by its places. *)

\* g reads digits one after the other.
Reads(g, digits, base) ==
    g = [k \in 0 .. Len(digits) |-> IF k = 0 THEN 0 ELSE NextValue(g[k - 1], digits[k], base)]
\* p is the places in a base; m the values of the last digits.
PlacesIn(p, n, base) == p = [k \in 0 .. n |-> IF k = 0 THEN 1 ELSE base * p[k - 1]]
Sums(m, p, digits) ==
    m = [k \in 0 .. Len(digits) |->
            IF k = 0 THEN 0 ELSE m[k - 1] + digits[Len(digits) - k + 1] * p[k - 1]]

LEMMA NextValueIs ==
  ASSUME NEW v \in Nat, NEW d \in Nat, NEW base \in Nat
  PROVE  NextValue(v, d, base) \in Nat
<1>1. v * base \in Nat
  OBVIOUS
<1>. QED
  BY <1>1, WordsAssumption DEF NextValue

\* Reading is a run.
LEMMA ReadsIs ==
  ASSUME NEW digits \in Seq(Nat), NEW base \in Nat
  PROVE  \E g \in [0 .. Len(digits) -> Nat] : Reads(g, digits, base) /\ Value(digits, base) = g[Len(digits)]
<1>. DEFINE n == Len(digits)
            step == [i \in 1 .. n |-> [v \in Nat |-> NextValue(v, digits[i], base)]]
<1>1. n \in Nat /\ \A i \in 1 .. n : digits[i] \in Nat
  OBVIOUS
<1>2. step \in [1 .. n -> [Nat -> Nat]]
  <2>1. \A i \in 1 .. n, v \in Nat : NextValue(v, digits[i], base) \in Nat
    BY <1>1, NextValueIs
  <2>. QED
    BY <2>1
<1>3. PICK f \in [0 .. n -> Nat] : IsRun(f, 0, step, n)
  <2>. HIDE DEF n, step
  <2>. QED
    BY <1>1, <1>2, RunExists
<1>4. Reads(f, digits, base)
  <2>1. \A i \in 0 .. n : f[i] = IF i = 0 THEN 0 ELSE NextValue(f[i - 1], digits[i], base)
    <3>. TAKE i \in 0 .. n
    <3>1. i # 0 => i \in 1 .. n /\ i - 1 \in 0 .. n
      BY <1>1
    <3>. QED
      BY <1>3, <3>1 DEF IsRun
  <2>. QED
    BY <1>3, <2>1 DEF Reads
<1>5. Value(digits, base) = (CHOOSE g : Reads(g, digits, base))[n]
  BY DEF Value, Reads
<1>6. PICK g : Reads(g, digits, base) /\ Value(digits, base) = g[n]
  <2>. HIDE DEF n
  <2>. QED
    BY <1>4, <1>5
<1>7. \A i \in 0 .. n : f[i] = g[i]
  <2>. DEFINE Bad == {i \in 0 .. n : f[i] # g[i]}
  <2>1. SUFFICES ASSUME Bad # {} PROVE FALSE
    OBVIOUS
  <2>2. PICK m \in Bad : \A k \in Bad : m <= k
    <3>1. Bad \in SUBSET Nat
      BY <1>1
    <3>. HIDE DEF Bad
    <3>. QED
      BY <2>1, <3>1, LeastNumber
  <2>3. \A i \in 0 .. n : /\ f[i] = IF i = 0 THEN 0 ELSE NextValue(f[i - 1], digits[i], base)
                          /\ g[i] = IF i = 0 THEN 0 ELSE NextValue(g[i - 1], digits[i], base)
    BY <1>4, <1>6 DEF Reads
  <2>4. m # 0
    BY <1>1, <2>2, <2>3
  <2>5. m \in 0 .. n /\ m - 1 \in 0 .. n
    BY <1>1, <2>2, <2>4
  <2>6. m - 1 \notin Bad
    <3>. HIDE DEF Bad
    <3>. QED
      BY <1>1, <2>2, <2>5
  <2>7. f[m - 1] = g[m - 1]
    BY <2>5, <2>6
  <2>. QED
    BY <2>2, <2>3, <2>4, <2>5, <2>7
<1>8. Value(digits, base) = f[n]
  <2>. HIDE DEF n
  <2>. QED
    BY <1>1, <1>6, <1>7
<1>. QED
  BY <1>3, <1>4, <1>8

\* Places are a run, and so are the values of the last digits.
LEMMA PlacesAre ==
  ASSUME NEW n \in Nat, NEW base \in Nat
  PROVE  /\ \E p : PlacesIn(p, n, base)
         /\ \A p : PlacesIn(p, n, base) =>
              /\ p \in [0 .. n -> Nat] /\ p[0] = 1
              /\ \A i \in 1 .. n : p[i] = base * p[i - 1]
<1>. DEFINE step == [i \in 1 .. n |-> [v \in Nat |-> base * v]]
<1>1. step \in [1 .. n -> [Nat -> Nat]]
  OBVIOUS
<1>2. PICK f \in [0 .. n -> Nat] : IsRun(f, 1, step, n)
  <2>. HIDE DEF step
  <2>. QED
    BY <1>1, RunExists
<1>3. PlacesIn(f, n, base)
  <2>1. \A i \in 0 .. n : f[i] = IF i = 0 THEN 1 ELSE base * f[i - 1]
    <3>. TAKE i \in 0 .. n
    <3>1. i # 0 => i \in 1 .. n /\ i - 1 \in 0 .. n
      OBVIOUS
    <3>. QED
      BY <1>2, <3>1 DEF IsRun
  <2>. QED
    BY <1>2, <2>1 DEF PlacesIn
<1>4. ASSUME NEW p, PlacesIn(p, n, base)
      PROVE  /\ p \in [0 .. n -> Nat] /\ p[0] = 1
             /\ \A i \in 1 .. n : p[i] = base * p[i - 1]
  <2>1. p = [i \in 0 .. n |-> p[i]]
    BY <1>4 DEF PlacesIn
  <2>0. ASSUME NEW i \in 0 .. n PROVE p[i] = IF i = 0 THEN 1 ELSE base * p[i - 1]
    BY <1>4 DEF PlacesIn
  <2>2. p[0] = 1
    BY <2>0
  <2>3. ASSUME NEW i \in 1 .. n PROVE p[i] = base * p[i - 1]
    <3>1. i \in 0 .. n /\ i # 0
      OBVIOUS
    <3>. QED
      BY <2>0, <3>1
  <2>. DEFINE Bad == {i \in 0 .. n : p[i] \notin Nat}
  <2>4. Bad = {}
    <3>1. SUFFICES ASSUME Bad # {} PROVE FALSE
      OBVIOUS
    <3>2. PICK m \in Bad : \A k \in Bad : m <= k
      <4>1. Bad \in SUBSET Nat
        OBVIOUS
      <4>. HIDE DEF Bad
      <4>. QED
        BY <3>1, <4>1, LeastNumber
    <3>3. m \in 1 .. n /\ m - 1 \in 0 .. n
      BY <2>2, <3>2
    <3>4. m - 1 \notin Bad
      <4>. HIDE DEF Bad
      <4>. QED
        BY <3>2, <3>3
    <3>5. p[m - 1] \in Nat
      BY <3>3, <3>4
    <3>. QED
      BY <2>3, <3>2, <3>3, <3>5
  <2>. QED
    BY <2>1, <2>2, <2>3, <2>4
<1>. QED
  BY <1>3, <1>4

LEMMA SumsAre ==
  ASSUME NEW digits \in Seq(Nat), NEW p \in [0 .. Len(digits) -> Nat]
  PROVE  /\ \E m : Sums(m, p, digits)
         /\ \A m : Sums(m, p, digits) =>
              /\ m \in [0 .. Len(digits) -> Nat] /\ m[0] = 0
              /\ \A i \in 1 .. Len(digits) : m[i] = m[i - 1] + digits[Len(digits) - i + 1] * p[i - 1]
<1>. DEFINE n == Len(digits)
            term == [i \in 1 .. n |-> digits[n - i + 1] * p[i - 1]]
            step == [i \in 1 .. n |-> [v \in Nat |-> v + term[i]]]
<1>1. n \in Nat /\ term \in [1 .. n -> Nat]
  <2>1. n \in Nat
    OBVIOUS
  <2>2. ASSUME NEW i \in 1 .. n PROVE digits[n - i + 1] * p[i - 1] \in Nat
    <3>1. n - i + 1 \in 1 .. n /\ i - 1 \in 0 .. n
      BY <2>1
    <3>2. digits[n - i + 1] \in Nat
      BY <3>1
    <3>3. p[i - 1] \in Nat
      BY <3>1
    <3>. HIDE DEF n
    <3>. QED
      BY <3>2, <3>3
  <2>. QED
    BY <2>1, <2>2
<1>2. \A i \in 1 .. n : digits[n - i + 1] * p[i - 1] = term[i]
  OBVIOUS
<1>. HIDE DEF term
<1>3. step \in [1 .. n -> [Nat -> Nat]]
  BY <1>1
<1>4. PICK f \in [0 .. n -> Nat] : IsRun(f, 0, step, n)
  <2>. HIDE DEF step, n
  <2>. QED
    BY <1>1, <1>3, RunExists
<1>5. Sums(f, p, digits)
  <2>1. \A i \in 0 .. n : f[i] = IF i = 0 THEN 0 ELSE f[i - 1] + digits[n - i + 1] * p[i - 1]
    <3>. TAKE i \in 0 .. n
    <3>1. i # 0 => i \in 1 .. n /\ i - 1 \in 0 .. n
      BY <1>1
    <3>. QED
      BY <1>2, <1>4, <3>1 DEF IsRun
  <2>. QED
    BY <1>4, <2>1 DEF Sums
<1>6. ASSUME NEW m, Sums(m, p, digits)
      PROVE  /\ m \in [0 .. n -> Nat] /\ m[0] = 0
             /\ \A i \in 1 .. n : m[i] = m[i - 1] + digits[n - i + 1] * p[i - 1]
  <2>1. m = [i \in 0 .. n |-> m[i]]
    BY <1>6 DEF Sums
  <2>0. ASSUME NEW i \in 0 .. n PROVE m[i] = IF i = 0 THEN 0 ELSE m[i - 1] + digits[n - i + 1] * p[i - 1]
    BY <1>6 DEF Sums
  <2>2. m[0] = 0
    BY <1>1, <2>0
  <2>3. ASSUME NEW i \in 1 .. n PROVE m[i] = m[i - 1] + digits[n - i + 1] * p[i - 1]
    <3>1. i \in 0 .. n /\ i # 0
      BY <1>1
    <3>. QED
      BY <2>0, <3>1
  <2>. HIDE DEF n
  <2>. DEFINE Bad == {i \in 0 .. n : m[i] \notin Nat}
  <2>4. Bad = {}
    <3>1. SUFFICES ASSUME Bad # {} PROVE FALSE
      OBVIOUS
    <3>2. PICK k \in Bad : \A j \in Bad : k <= j
      <4>1. Bad \in SUBSET Nat
        BY <1>1
      <4>. HIDE DEF Bad
      <4>. QED
        BY <3>1, <4>1, LeastNumber
    <3>3. k \in 1 .. n /\ k - 1 \in 0 .. n
      BY <1>1, <2>2, <3>2
    <3>4. k - 1 \notin Bad
      <4>. HIDE DEF Bad
      <4>. QED
        BY <1>1, <3>2, <3>3
    <3>5. m[k - 1] \in Nat /\ term[k] \in Nat /\ m[k] = m[k - 1] + term[k]
      BY <1>1, <1>2, <2>3, <3>3, <3>4
    <3>. QED
      BY <3>2, <3>5
  <2>. QED
    BY <2>1, <2>2, <2>3, <2>4
<1>. QED
  BY <1>5, <1>6

\* The rule of distribution that takes a digit from what was read to its place.
LEMMA DigitMoves ==
  ASSUME NEW a \in Nat, NEW b \in Nat, NEW d \in Nat, NEW q \in Nat, NEW s \in Nat
  PROVE  (a * b + d) * q + s = a * (b * q) + (s + d * q)
OBVIOUS

\* A value that has stuck at the largest word stays there.
LEMMA StuckStays ==
  ASSUME NEW d \in Nat, NEW base \in Nat, base >= 2
  PROVE  NextValue(Word - 1, d, base) = Word - 1
<1>1. Word - 1 > (Word - 1 - d) \div base
  <2>1. PICK a \in Int, q \in Int : a = Word - 1 - d /\ q = a \div base
    BY WordsAssumption
  <2>2. base * q <= a
    BY <2>1
  <2>3. SUFFICES ASSUME q >= Word - 1 PROVE FALSE
    BY <2>1, WordsAssumption
  <2>4. base * q >= 2 * q
    BY <2>3, WordsAssumption
  <2>5. 2 * q > Word - 1 /\ a <= Word - 1
    BY <2>1, <2>3, WordsAssumption
  <2>. QED
    BY <2>1, <2>2, <2>4, <2>5, WordsAssumption
<1>. QED
  BY <1>1 DEF NextValue

\* A number short of the largest word has not stuck: it is its digits by their places.
LEMMA ReadIsMeant ==
  ASSUME NEW digits \in Seq(Nat), NEW base \in Nat, base >= 2,
         NEW g \in [0 .. Len(digits) -> Nat], Reads(g, digits, base), g[Len(digits)] < Word - 1,
         NEW p, PlacesIn(p, Len(digits), base), NEW m, Sums(m, p, digits)
  PROVE  m[Len(digits)] = g[Len(digits)]
<1>. DEFINE n == Len(digits)
<1>1. n \in Nat /\ \A i \in 1 .. n : digits[i] \in Nat
  OBVIOUS
<1>2. g[0] = 0 /\ \A i \in 1 .. n : g[i] = NextValue(g[i - 1], digits[i], base)
  <2>1. \A i \in 0 .. n : g[i] = IF i = 0 THEN 0 ELSE NextValue(g[i - 1], digits[i], base)
    BY DEF Reads
  <2>. QED
    BY <1>1, <2>1
<1>3. p \in [0 .. n -> Nat] /\ p[0] = 1 /\ \A i \in 1 .. n : p[i] = base * p[i - 1]
  <2>. HIDE DEF n
  <2>. QED
    BY <1>1, PlacesAre DEF n
<1>4. m \in [0 .. n -> Nat] /\ m[0] = 0 /\ \A i \in 1 .. n : m[i] = m[i - 1] + digits[n - i + 1] * p[i - 1]
  BY <1>3, SumsAre
<1>5. g[n] < Word - 1 /\ g \in [0 .. n -> Nat]
  OBVIOUS
<1>. HIDE DEF n
<1>6. \A k \in 0 .. n : g[k] # Word - 1
  <2>1. SUFFICES ASSUME NEW k \in 0 .. n, g[k] = Word - 1 PROVE FALSE
    OBVIOUS
  <2>. DEFINE Off == {j \in 0 .. n : j >= k /\ g[j] # Word - 1}
  <2>2. PICK j \in Off : \A i \in Off : j <= i
    <3>1. n \in Off /\ Off \in SUBSET Nat
      BY <1>1, <1>5, WordsAssumption
    <3>. HIDE DEF Off
    <3>. QED
      BY <3>1, LeastNumber
  <2>3. j \in 1 .. n /\ j - 1 \in 0 .. n /\ j - 1 >= k
    BY <1>1, <2>1, <2>2
  <2>4. j - 1 \notin Off
    <3>. HIDE DEF Off
    <3>. QED
      BY <1>1, <2>2, <2>3
  <2>5. g[j - 1] = Word - 1
    BY <2>3, <2>4
  <2>6. g[j] = NextValue(Word - 1, digits[j], base) /\ digits[j] \in Nat
    BY <1>1, <1>2, <2>3, <2>5
  <2>. QED
    BY <2>2, <2>6, StuckStays
<1>7. \A k \in 1 .. n : g[k] = g[k - 1] * base + digits[k]
  <2>. TAKE k \in 1 .. n
  <2>1. k \in 0 .. n /\ g[k] = NextValue(g[k - 1], digits[k], base) /\ g[k] # Word - 1
    BY <1>1, <1>2, <1>6
  <2>. QED
    BY <2>1 DEF NextValue
<1>. DEFINE Bad == {j \in 0 .. n : g[n - j] * p[j] + m[j] # g[n]}
<1>8. Bad = {}
  <2>1. SUFFICES ASSUME Bad # {} PROVE FALSE
    OBVIOUS
  <2>2. PICK j \in Bad : \A i \in Bad : j <= i
    <3>1. Bad \in SUBSET Nat
      BY <1>1
    <3>. HIDE DEF Bad
    <3>. QED
      BY <2>1, <3>1, LeastNumber
  <2>3. j # 0
    <3>1. SUFFICES ASSUME j = 0 PROVE FALSE
      OBVIOUS
    <3>2. g[n] \in Nat /\ n - 0 = n
      BY <1>1, <1>5
    <3>3. g[n] * 1 + 0 = g[n]
      BY <3>2
    <3>. QED
      BY <1>1, <1>3, <1>4, <2>2, <3>1, <3>2, <3>3
  <2>4. j \in 1 .. n /\ j - 1 \in 0 .. n /\ n - j \in 0 .. n /\ n - j + 1 \in 1 .. n
    BY <1>1, <2>2, <2>3
  <2>5. j - 1 \notin Bad
    <3>. HIDE DEF Bad
    <3>. QED
      BY <1>1, <2>2, <2>4
  <2>6. n - (j - 1) = n - j + 1 /\ (n - j + 1) - 1 = n - j
    BY <1>1, <2>4
  <2>7. g[n - j + 1] * p[j - 1] + m[j - 1] = g[n]
    BY <2>4, <2>5, <2>6
  <2>8. g[n - j + 1] = g[n - j] * base + digits[n - j + 1]
    BY <1>7, <2>4, <2>6
  <2>9. p[j] = base * p[j - 1] /\ m[j] = m[j - 1] + digits[n - j + 1] * p[j - 1]
    BY <1>3, <1>4, <2>4
  <2>10. PICK a \in Nat, d \in Nat, q \in Nat, s \in Nat :
             a = g[n - j] /\ d = digits[n - j + 1] /\ q = p[j - 1] /\ s = m[j - 1]
    BY <1>1, <1>3, <1>4, <1>5, <2>4
  <2>11. (a * base + d) * q + s = g[n] /\ g[n - j] * p[j] + m[j] = a * (base * q) + (s + d * q)
    BY <2>7, <2>8, <2>9, <2>10
  <2>12. (a * base + d) * q + s = a * (base * q) + (s + d * q)
    BY DigitMoves
  <2>13. g[n - j] * p[j] + m[j] = g[n]
    BY <2>11, <2>12
  <2>. QED
    BY <2>2, <2>13
<1>9. n \in 0 .. n /\ n - n = 0
  BY <1>1
<1>10. g[0] * p[n] + m[n] = g[n]
  BY <1>8, <1>9
<1>11. p[n] \in Nat /\ m[n] \in Nat
  BY <1>3, <1>4, <1>9
<1>12. m[n] = g[n]
  BY <1>2, <1>10, <1>11
<1>. QED
  BY <1>12 DEF n


LEMMA BaseIs ==
  ASSUME NEW text
  PROVE  Base(text) \in {8, 10, 16} /\ Sign(text) \in {0, 1} /\ FirstDigit(text) \in 1 .. 4
<1>1. Base(text) \in {8, 10, 16}
  BY DEF Base
<1>2. Sign(text) \in {0, 1}
  BY DEF Sign
<1>. QED
  BY <1>1, <1>2 DEF FirstDigit

\* strtoul stops behind the text only if all of it is digits.
LEMMA AllDigits ==
  ASSUME NEW n \in Nat, NEW first \in Nat, NEW Stops \in SUBSET (first .. n),
         Min({n + 1} \cup Stops) > n
  PROVE  Min({n + 1} \cup Stops) = n + 1 /\ Stops = {}
<1>. DEFINE T == {n + 1} \cup Stops
<1>1. PICK least \in T : \A m \in T : least <= m
  <2>1. T \in SUBSET Nat /\ T # {}
    OBVIOUS
  <2>. HIDE DEF T
  <2>. QED
    BY <2>1, LeastNumber
<1>2. Min(T) \in T /\ \A m \in T : Min(T) <= m
  <2>1. Min(T) = CHOOSE x \in T : \A y \in T : x =< y
    BY DEF Min
  <2>. HIDE DEF T
  <2>. QED
    BY <1>1, <2>1
<1>3. Min(T) > n
  OBVIOUS
<1>. HIDE DEF T
<1>4. n + 1 \in T /\ \A m \in T : m = n + 1 \/ m \in Stops
  BY DEF T
<1>5. Min(T) = n + 1
  <2>1. PICK e : e = Min(T)
    OBVIOUS
  <2>2. e = n + 1 \/ e \in first .. n
    BY <1>2, <1>4, <2>1
  <2>3. e > n
    BY <1>3, <2>1
  <2>4. e = n + 1
    BY <2>2, <2>3
  <2>. QED
    BY <2>1, <2>4
<1>6. ASSUME NEW m \in Stops PROVE FALSE
  <2>1. m \in T /\ m <= n /\ m \in Nat
    BY DEF T
  <2>. QED
    BY <1>2, <1>5, <2>1
<1>. QED
  BY <1>5, <1>6 DEF T

\* A number that is read to its end is its digits, and the largest word only if it is too large.
LEMMA NumberIsMeant ==
  ASSUME NEW text \in Seq(Characters), ParseU64(text) # None
  PROVE  /\ ParseU64(text) \in Nat
         /\ Unsigned(text) /\ ParseU64(text) < Word - 1 => ParseU64(text) = NumberMeant(text)
<1>. DEFINE base == Base(text)
            first == FirstDigit(text)
            n == Len(text)
            Stops == {i \in first .. n : text[i] \notin 0 .. base - 1}
            end == Min({n + 1} \cup Stops)
            digits == SubSeq(text, first, n)
<1>1. n \in Nat /\ base \in {8, 10, 16} /\ first \in 1 .. 4
  BY BaseIs
<1>2. /\ end > first /\ end > n
      /\ ParseU64(text) = StrToUl(text).value
  BY DEF ParseU64, StrToUl
<1>3. end = n + 1 /\ Stops = {}
  <2>1. Stops \in SUBSET (first .. n)
    OBVIOUS
  <2>2. Min({n + 1} \cup Stops) > n
    BY <1>2
  <2>. HIDE DEF n, first, Stops
  <2>. QED
    BY <1>1, <2>1, <2>2, AllDigits
<1>4. end - 1 = n /\ first <= n
  BY <1>1, <1>2, <1>3
<1>5. ParseU64(text) = IF text # <<>> /\ text[1] = Minus
                         THEN (Word - Value(digits, base)) % Word ELSE Value(digits, base)
  <2>1. StrToUl(text).value = IF text # <<>> /\ text[1] = Minus
                         THEN (Word - Value(SubSeq(text, first, end - 1), base)) % Word
                         ELSE Value(SubSeq(text, first, end - 1), base)
    BY DEF StrToUl
  <2>. QED
    BY <1>2, <1>4, <2>1
<1>6. digits \in Seq(Nat)
  <2>1. \A i \in first .. n : text[i] \in Nat
    BY <1>1, <1>3
  <2>. HIDE DEF n, first
  <2>. QED
    BY <1>1, <2>1, SubSeqProperties
<1>. HIDE DEF digits, base, end, n, first, Stops
<1>7. PICK g \in [0 .. Len(digits) -> Nat] : Reads(g, digits, base) /\ Value(digits, base) = g[Len(digits)]
  BY <1>1, <1>6, ReadsIs
<1>8. Value(digits, base) \in Nat /\ Len(digits) \in Nat
  BY <1>6, <1>7
<1>9. ParseU64(text) \in Nat
  <2>1. (Word - Value(digits, base)) % Word \in Nat
    BY <1>8, WordsAssumption
  <2>. QED
    BY <1>5, <1>8, <2>1
<1>10. ASSUME Unsigned(text), ParseU64(text) < Word - 1
       PROVE  ParseU64(text) = NumberMeant(text)
  <2>1. ParseU64(text) = g[Len(digits)]
    BY <1>5, <1>7, <1>10 DEF Unsigned
  <2>. DEFINE place == CHOOSE p : PlacesIn(p, Len(digits), base)
              sums == CHOOSE m : Sums(m, place, digits)
  <2>2. NumberMeant(text) = sums[Len(digits)]
    BY DEF NumberMeant, InBase, DigitsOf, PlacesIn, Sums, digits, base, first, n
  <2>3. PlacesIn(place, Len(digits), base)
    BY <1>1, <1>8, PlacesAre
  <2>. HIDE DEF place
  <2>4. place \in [0 .. Len(digits) -> Nat]
    <3>1. base \in Nat
      BY <1>1
    <3>. QED
      BY <1>8, <2>3, <3>1, PlacesAre
  <2>5. Sums(sums, place, digits)
    BY <1>6, <2>4, SumsAre
  <2>. HIDE DEF sums
  <2>6. base >= 2 /\ base \in Nat
    BY <1>1
  <2>7. g[Len(digits)] < Word - 1
    BY <1>10, <2>1
  <2>8. sums[Len(digits)] = g[Len(digits)]
    BY <1>6, <1>7, <2>3, <2>5, <2>6, <2>7, ReadIsMeant
  <2>. QED
    BY <2>1, <2>2, <2>8
<1>. QED
  BY <1>9, <1>10

\* One digit means itself in every base.
LEMMA OneDigitIs ==
  ASSUME NEW digits \in Seq(Nat), Len(digits) = 1, NEW base \in Nat
  PROVE  InBase(digits, base) = digits[1]
<1>. DEFINE place == CHOOSE p : PlacesIn(p, Len(digits), base)
            sums == CHOOSE m : Sums(m, place, digits)
<1>1. InBase(digits, base) = sums[Len(digits)]
  BY DEF InBase, PlacesIn, Sums
<1>2. PlacesIn(place, Len(digits), base)
  BY PlacesAre
<1>. HIDE DEF place
<1>3. place \in [0 .. Len(digits) -> Nat] /\ place[0] = 1
  <2>1. Len(digits) \in Nat
    OBVIOUS
  <2>. QED
    BY <1>2, <2>1, PlacesAre
<1>4. Sums(sums, place, digits)
  BY <1>3, SumsAre
<1>. HIDE DEF sums
<1>5. /\ sums \in [0 .. Len(digits) -> Nat] /\ sums[0] = 0
      /\ \A i \in 1 .. Len(digits) : sums[i] = sums[i - 1] + digits[Len(digits) - i + 1] * place[i - 1]
  BY <1>3, <1>4, SumsAre
<1>6. sums[1] = sums[1 - 1] + digits[1 - 1 + 1] * place[1 - 1]
  BY <1>5
<1>. QED
  BY <1>1, <1>3, <1>5, <1>6

\* A type that is typed with 0x or as one digit is the number the usage text asks for.
LEMMA TypeIsMeant ==
  ASSUME NEW text \in Seq(Characters), Unsigned(text), ReadAsHex(text)
  PROVE  TypeMeant(text) = NumberMeant(text)
<1>1. CASE Base(text) = 16
  BY <1>1 DEF TypeMeant, NumberMeant
<1>2. CASE Base(text) # 16
  <2>1. Len(text) = 1 /\ text[1] \in Characters
    BY <1>2 DEF ReadAsHex
  <2>2. text[1] \in Nat
    <3>1. text[1] # Plus /\ text[1] # Minus
      BY DEF Unsigned
    <3>2. PICK c : c = text[1]
      OBVIOUS
    <3>3. c \in Digit
      BY <2>1, <3>1, <3>2, Zenon DEF Characters
    <3>4. c \in Nat
      BY <3>3 DEF Digit
    <3>. QED
      BY <3>2, <3>4, Zenon
  <2>3. Sign(text) = 0
    BY DEF Sign, Unsigned
  <2>4. FirstDigit(text) = 1
    BY <1>2, <2>3 DEF FirstDigit
  <2>5. DigitsOf(text) = text
    BY <2>1, <2>4 DEF DigitsOf
  <2>6. text \in Seq(Nat)
    <3>. DEFINE n == Len(text)
    <3>1. text = [i \in 1 .. n |-> text[i]] /\ n \in Nat
      OBVIOUS
    <3>2. n = 1
      BY <2>1
    <3>. HIDE DEF n
    <3>3. \A i \in 1 .. n : text[i] \in Nat
      BY <2>2, <3>2
    <3>. QED
      BY <3>1, <3>3
  <2>7. Base(text) \in Nat
    BY BaseIs
  <2>8. InBase(text, 16) = text[1] /\ InBase(text, Base(text)) = text[1]
    BY <2>1, <2>6, <2>7, OneDigitIs
  <2>. QED
    BY <2>5, <2>8 DEF TypeMeant, NumberMeant
<1>. QED
  BY <1>1, <1>2

----------------------------------------------------------------------------
(* The boot record. *)

\* Only the marks change: every entry is where it was.
LEMMA MarksChange ==
  ASSUME NEW entries, NEW ghost, EntriesHold(entries, ghost),
         NEW after \in [Index -> Entry], OneActive(after),
         \A j \in Index : /\ after[j].start = entries[j].start /\ after[j].size = entries[j].size
                          /\ after[j].type = entries[j].type
  PROVE  EntriesHold(after, ghost)
<1>. SUFFICES ASSUME NEW i \in Index, ghost[i] # None
              PROVE  AsTyped(after[i], ghost[i]) /\ \A j \in Index \ {i} : Apart(after[i], after[j])
  BY DEF EntriesHold
<1>1. AsTyped(entries[i], ghost[i]) /\ \A j \in Index \ {i} : Apart(entries[i], entries[j])
  BY DEF EntriesHold
<1>2. AsTyped(after[i], ghost[i])
  BY <1>1 DEF AsTyped
<1>3. \A j \in Index \ {i} : Apart(after[i], after[j])
  BY <1>1 DEF Apart
<1>. QED
  BY <1>2, <1>3

LEMMA ApartBothWays ==
  ASSUME NEW p, NEW q, Apart(p, q)
  PROVE  Apart(q, p)
BY DEF Apart

\* One entry is written, apart from the others.
LEMMA EntryIsPut ==
  ASSUME NEW entries, NEW ghost, EntriesHold(entries, ghost), ghost = [j \in Index |-> ghost[j]],
         NEW i \in Index, NEW e \in Entry, NEW meant,
         OneActive([entries EXCEPT ![i] = e]),
         \A j \in Index \ {i} : Apart(e, entries[j]),
         meant # None => AsTyped(e, meant)
  PROVE  EntriesHold([entries EXCEPT ![i] = e], [ghost EXCEPT ![i] = meant])
<1>. DEFINE after == [entries EXCEPT ![i] = e]
            words == [ghost EXCEPT ![i] = meant]
<1>1. /\ after \in [Index -> Entry] /\ after[i] = e /\ words[i] = meant
      /\ \A j \in Index \ {i} : after[j] = entries[j] /\ words[j] = ghost[j]
  BY DEF EntriesHold
<1>2. OneActive(after)
  OBVIOUS
<1>. HIDE DEF after, words
<1>3. ASSUME NEW k \in Index, words[k] # None
      PROVE  AsTyped(after[k], words[k]) /\ \A j \in Index \ {k} : Apart(after[k], after[j])
  <2>1. CASE k = i
    BY <1>1, <1>3, <2>1
  <2>2. CASE k # i
    <3>1. AsTyped(entries[k], ghost[k]) /\ \A j \in Index \ {k} : Apart(entries[k], entries[j])
      BY <1>1, <1>3, <2>2 DEF EntriesHold
    <3>2. Apart(entries[k], e)
      BY <2>2, ApartBothWays
    <3>. QED
      BY <1>1, <2>2, <3>1, <3>2
  <2>. QED
    BY <2>1, <2>2
<1>4. EntriesHold(after, words)
  BY <1>1, <1>2, <1>3 DEF EntriesHold
<1>. QED
  BY <1>4 DEF after, words

LEMMA OthersOffIs ==
  ASSUME NEW entries \in [Index -> Entry], NEW i \in Index
  PROVE  /\ OthersOff(entries, i) \in [Index -> Entry]
         /\ OthersOff(entries, i)[i] = entries[i]
         /\ \A j \in Index : /\ OthersOff(entries, i)[j].start = entries[j].start
                             /\ OthersOff(entries, i)[j].size = entries[j].size
                             /\ OthersOff(entries, i)[j].type = entries[j].type
                             /\ j # i => OthersOff(entries, i)[j].boot = FALSE
<1>1. \A j \in Index : [entries[j] EXCEPT !.boot = FALSE] \in Entry
  BY DEF Entry
<1>. QED
  BY <1>1 DEF OthersOff, Entry

\* Once the others are off, whatever is written keeps at most one active.
LEMMA OthersOffHold ==
  ASSUME NEW entries, NEW ghost, EntriesHold(entries, ghost), NEW i \in Index
  PROVE  EntriesHold(OthersOff(entries, i), ghost)
<1>1. entries \in [Index -> Entry]
  BY DEF EntriesHold
<1>2. OneActive(OthersOff(entries, i))
  BY <1>1, OthersOffIs DEF OneActive
<1>. QED
  BY <1>1, <1>2, OthersOffIs, MarksChange

----------------------------------------------------------------------------
(* The commands. *)

Words == [start : Seq(Characters), size : Seq(Characters), type : Seq(Characters)]

\* A write that fails leaves the record, one that succeeds puts good entries.
LEMMA WrittenKeeps ==
  ASSUME PartitionInv, NEW entries, NEW ghost, Written(entries, ghost),
         EntriesHold(entries, ghost), ghost \in [Index -> {None} \cup Words]
  PROVE  PartitionInv'
<1>1. CASE mbr' = [signed |-> TRUE, entries |-> entries] /\ made' = ghost
  <2>1. mbr'.signed \in BOOLEAN /\ mbr'.entries = entries /\ made' = ghost
    BY <1>1
  <2>2. EntriesHold(mbr'.entries, made')
    BY ONLY <2>1, EntriesHold(entries, ghost)
  <2>3. PartitionsHold'
    BY <2>1, <2>2 DEF PartitionsHold
  <2>. QED
    BY <2>1, <2>3 DEF PartitionInv, Words
<1>2. CASE UNCHANGED <<mbr, made>>
  BY <1>2 DEF PartitionInv, PartitionsHold
<1>. QED
  BY <1>1, <1>2 DEF Written

LEMMA InitialRecord == PartitionInit => PartitionInv
<1>. SUFFICES ASSUME PartitionInit PROVE PartitionInv
  OBVIOUS
<1>1. mbr.signed \in BOOLEAN /\ mbr.entries \in [Index -> Entry] /\ OneActive(mbr.entries)
  BY RecordsAssumption DEF PartitionInit
<1>2. made \in [Index -> {None} \cup Words] /\ \A i \in Index : made[i] = None
  BY DEF PartitionInit
<1>3. EntriesHold(mbr.entries, made)
  BY <1>1, <1>2 DEF EntriesHold
<1>. QED
  BY <1>1, <1>2, <1>3 DEF PartitionInv, PartitionsHold, Words

LEMMA InitMbrKeeps == PartitionInv /\ InitMbr => PartitionInv'
<1>. SUFFICES ASSUME PartitionInv, InitMbr PROVE PartitionInv'
  OBVIOUS
<1>. DEFINE entries == [i \in Index |-> Empty]
            ghost == [i \in Index |-> None]
<1>1. Empty \in Entry /\ Empty.boot = FALSE
  BY WordsAssumption DEF Empty, Entry
<1>2. entries \in [Index -> Entry] /\ ghost \in [Index -> {None} \cup Words]
  BY <1>1
<1>3. OneActive(entries)
  BY <1>1 DEF OneActive
<1>4. EntriesHold(entries, ghost)
  BY <1>2, <1>3 DEF EntriesHold
<1>5. Written(entries, ghost)
  BY DEF InitMbr
<1>. HIDE DEF entries, ghost
<1>. QED
  BY <1>2, <1>4, <1>5, WrittenKeeps

LEMMA DeleteKeeps == PartitionInv /\ Delete => PartitionInv'
<1>. SUFFICES ASSUME PartitionInv, Delete PROVE PartitionInv'
  OBVIOUS
<1>1. PICK r \in Requested("delete", {2}) :
         IF ~IsIndex(r[2]) THEN UNCHANGED <<mbr, made>>
         ELSE Written([mbr.entries EXCEPT ![ParseU64(r[2])] = Empty], [made EXCEPT ![ParseU64(r[2])] = None])
  BY DEF Delete
<1>2. CASE ~IsIndex(r[2])
  BY <1>1, <1>2 DEF PartitionInv, PartitionsHold
<1>3. CASE IsIndex(r[2])
  <2>1. PICK i \in Index : i = ParseU64(r[2])
    BY <1>3 DEF IsIndex
  <2>2. Written([mbr.entries EXCEPT ![i] = Empty], [made EXCEPT ![i] = None])
    BY <1>1, <1>3, <2>1
  <2>3. EntriesHold(mbr.entries, made) /\ made \in [Index -> {None} \cup Words]
    BY DEF PartitionInv, PartitionsHold, Words
  <2>4. Empty \in Entry /\ Empty.boot = FALSE /\ Empty.start = 0 /\ Empty.size = 0
    BY WordsAssumption DEF Empty, Entry
  <2>5. \A j \in Index \ {i} : Apart(Empty, mbr.entries[j])
    BY <2>4 DEF Apart
  <2>6. OneActive([mbr.entries EXCEPT ![i] = Empty])
    BY <2>3, <2>4 DEF EntriesHold, OneActive
  <2>7. EntriesHold([mbr.entries EXCEPT ![i] = Empty], [made EXCEPT ![i] = None])
    BY <2>3, <2>4, <2>5, <2>6, EntryIsPut
  <2>8. [made EXCEPT ![i] = None] \in [Index -> {None} \cup Words]
    BY <2>3
  <2>. QED
    BY <2>2, <2>7, <2>8, WrittenKeeps
<1>. QED
  BY <1>2, <1>3

LEMMA SetBootKeeps == PartitionInv /\ SetBoot => PartitionInv'
<1>. SUFFICES ASSUME PartitionInv, SetBoot PROVE PartitionInv'
  OBVIOUS
<1>. DEFINE Others(on, i) == IF on THEN OthersOff(mbr.entries, i) ELSE mbr.entries
<1>1. PICK r \in Requested("set-boot", {3}) :
         IF ~IsIndex(r[2]) \/ ~IsFlag(r[3]) THEN UNCHANGED <<mbr, made>>
         ELSE Written([Others(ParseU64(r[3]) = 1, ParseU64(r[2])) EXCEPT
                          ![ParseU64(r[2])].boot = (ParseU64(r[3]) = 1)], made)
  BY DEF SetBoot
<1>2. CASE ~IsIndex(r[2]) \/ ~IsFlag(r[3])
  BY <1>1, <1>2 DEF PartitionInv, PartitionsHold
<1>3. CASE IsIndex(r[2]) /\ IsFlag(r[3])
  <2>1. PICK i \in Index, on \in BOOLEAN : i = ParseU64(r[2]) /\ on = (ParseU64(r[3]) = 1)
    BY <1>3 DEF IsIndex
  <2>. DEFINE others == Others(on, i)
              after == [others EXCEPT ![i].boot = on]
  <2>2. Written(after, made)
    BY <1>1, <1>3, <2>1
  <2>3. EntriesHold(mbr.entries, made) /\ made \in [Index -> {None} \cup Words]
    BY DEF PartitionInv, PartitionsHold, Words
  <2>4. mbr.entries \in [Index -> Entry] /\ OneActive(mbr.entries)
    BY <2>3 DEF EntriesHold
  <2>5. /\ others \in [Index -> Entry]
        /\ \A j \in Index : /\ others[j].start = mbr.entries[j].start
                            /\ others[j].size = mbr.entries[j].size
                            /\ others[j].type = mbr.entries[j].type
        /\ on => \A j \in Index \ {i} : others[j].boot = FALSE
        /\ ~on => others = mbr.entries
    BY <2>4, OthersOffIs
  <2>. HIDE DEF others
  <2>6. /\ after \in [Index -> Entry] /\ after[i].boot = on
        /\ \A j \in Index : /\ after[j].start = others[j].start /\ after[j].size = others[j].size
                            /\ after[j].type = others[j].type
        /\ \A j \in Index \ {i} : after[j].boot = others[j].boot
    BY <2>5 DEF Entry
  <2>. HIDE DEF after
  <2>7. OneActive(after)
    BY <2>4, <2>5, <2>6 DEF OneActive
  <2>8. EntriesHold(after, made)
    BY <2>3, <2>5, <2>6, <2>7, MarksChange
  <2>. QED
    BY <2>2, <2>3, <2>8, WrittenKeeps
<1>. QED
  BY <1>2, <1>3

\* A range that is not refused lies apart from the other entries.
LEMMA NoOverlapApart ==
  ASSUME NEW entries \in [Index -> Entry], NEW i \in Index, NEW e \in Entry,
         NoOverlap(entries, i, e.start, e.size), NEW j \in Index \ {i}
  PROVE  Apart(e, entries[j])
<1>1. PICK a \in Nat, b \in Nat, c \in Nat, d \in Nat :
         a = e.start /\ b = e.size /\ c = entries[j].start /\ d = entries[j].size
  BY WordsAssumption DEF Entry
<1>2. d = 0 \/ a + b <= c \/ a >= c + d
  BY <1>1 DEF NoOverlap
<1>3. (a .. a + b - 1) \cap (c .. c + d - 1) = {}
  BY <1>2
<1>. QED
  BY <1>1, <1>3 DEF Apart

LEMMA CreateKeeps == PartitionInv /\ Create => PartitionInv'
<1>. SUFFICES ASSUME PartitionInv, Create PROVE PartitionInv'
  OBVIOUS
<1>. DEFINE Flag(r) == IF Len(r) = 6 THEN r[6] ELSE <<0>>
            Others(boot, i) == IF boot THEN OthersOff(mbr.entries, i) ELSE mbr.entries
            Changed(r, boot, i) ==
                [Others(boot, i) EXCEPT ![i] =
                    [boot |-> boot, type |-> ParseU64(r[5]), start |-> ParseU64(r[3]), size |-> ParseU64(r[4])]]
            Ghost(r, i) == [made EXCEPT ![i] = [start |-> r[3], size |-> r[4], type |-> r[5]]]
<1>1. PICK r \in Requested("create", {5, 6}) :
         IF ~IsIndex(r[2]) \/ None \in {ParseU64(r[3]), ParseU64(r[4]), ParseU64(r[5])} \/ ~IsFlag(Flag(r))
           THEN UNCHANGED <<mbr, made>>
         ELSE IF ~InRange(ParseU64(r[3]), ParseU64(r[4]), ParseU64(r[5])) THEN UNCHANGED <<mbr, made>>
         ELSE IF ~NoOverlap(mbr.entries, ParseU64(r[2]), ParseU64(r[3]), ParseU64(r[4])) THEN UNCHANGED <<mbr, made>>
         ELSE Written(Changed(r, ParseU64(Flag(r)) = 1, ParseU64(r[2])), Ghost(r, ParseU64(r[2])))
  BY DEF Create
<1>2. CASE UNCHANGED <<mbr, made>>
  BY <1>2 DEF PartitionInv, PartitionsHold
<1>3. CASE /\ IsIndex(r[2]) /\ None \notin {ParseU64(r[3]), ParseU64(r[4]), ParseU64(r[5])}
           /\ InRange(ParseU64(r[3]), ParseU64(r[4]), ParseU64(r[5]))
           /\ NoOverlap(mbr.entries, ParseU64(r[2]), ParseU64(r[3]), ParseU64(r[4]))
           /\ Written(Changed(r, ParseU64(Flag(r)) = 1, ParseU64(r[2])), Ghost(r, ParseU64(r[2])))
  <2>1. PICK i \in Index, boot \in BOOLEAN : i = ParseU64(r[2]) /\ boot = (ParseU64(Flag(r)) = 1)
    BY <1>3 DEF IsIndex
  <2>2. r[3] \in Seq(Characters) /\ r[4] \in Seq(Characters) /\ r[5] \in Seq(Characters)
    <3>1. r \in Requests /\ Len(r) \in {5, 6}
      BY DEF Requested
    <3>2. 3 \in 2 .. Len(r) /\ 4 \in 2 .. Len(r) /\ 5 \in 2 .. Len(r)
      <4>1. PICK n \in {5, 6} : n = Len(r)
        BY <3>1
      <4>2. 3 \in 2 .. n /\ 4 \in 2 .. n /\ 5 \in 2 .. n
        BY <4>1
      <4>. QED
        BY <4>1, <4>2
    <3>. QED
      BY <3>1, <3>2, RequestsAssumption
  <2>3. PICK start, size, type : start = ParseU64(r[3]) /\ size = ParseU64(r[4]) /\ type = ParseU64(r[5])
    OBVIOUS
  <2>4. start \in Nat /\ size \in Nat /\ type \in Nat
    BY <1>3, <2>2, <2>3, NumberIsMeant
  <2>5. InRange(start, size, type)
    BY <1>3, <2>3
  <2>6. /\ start >= 1 /\ size >= 1 /\ start + size <= DiskSectors
        /\ start < Field /\ size < Field /\ type < Types
    BY <2>4, <2>5 DEF InRange
  <2>7. /\ start < Word - 1 /\ size < Word - 1 /\ type < Word - 1
    BY <2>4, <2>6, WordsAssumption
  <2>. DEFINE e == [boot |-> boot, type |-> type, start |-> start, size |-> size]
              meant == [start |-> r[3], size |-> r[4], type |-> r[5]]
              others == Others(boot, i)
  <2>8. e \in Entry /\ e.boot = boot /\ e.type = type /\ e.start = start /\ e.size = size
    BY <2>4, <2>6, WordsAssumption DEF Entry
  <2>9. meant \in Words /\ meant.start = r[3] /\ meant.size = r[4] /\ meant.type = r[5]
    BY <2>2 DEF Words
  <2>10. Written([others EXCEPT ![i] = e], [made EXCEPT ![i] = meant])
    BY <1>3, <2>1, <2>3
  <2>11. EntriesHold(mbr.entries, made) /\ made \in [Index -> {None} \cup Words]
    BY DEF PartitionInv, PartitionsHold, Words
  <2>12. mbr.entries \in [Index -> Entry] /\ OneActive(mbr.entries)
    BY <2>11 DEF EntriesHold
  <2>13. /\ others \in [Index -> Entry] /\ EntriesHold(others, made)
         /\ \A j \in Index : others[j].start = mbr.entries[j].start /\ others[j].size = mbr.entries[j].size
         /\ boot => \A j \in Index \ {i} : others[j].boot = FALSE
         /\ OneActive(others)
    <3>1. CASE boot
      <4>1. others = OthersOff(mbr.entries, i)
        BY <3>1
      <4>. HIDE DEF others
      <4>2. EntriesHold(others, made)
        BY <2>11, <4>1, OthersOffHold
      <4>3. OneActive(others)
        BY <4>2 DEF EntriesHold
      <4>. QED
        BY <2>12, <4>1, <4>2, <4>3, OthersOffIs
    <3>2. CASE ~boot
      BY <2>11, <2>12, <3>2
    <3>. QED
      BY <3>1, <3>2
  <2>. HIDE DEF e, meant, others
  <2>14. AsTyped(e, meant)
    <3>1. /\ Unsigned(r[3]) => start = NumberMeant(r[3])
          /\ Unsigned(r[4]) => size = NumberMeant(r[4])
          /\ Unsigned(r[5]) => type = NumberMeant(r[5])
      BY <1>3, <2>2, <2>3, <2>7, NumberIsMeant
    <3>2. Unsigned(r[5]) /\ ReadAsHex(r[5]) => type = TypeMeant(r[5])
      BY <2>2, <3>1, TypeIsMeant
    <3>. QED
      BY <2>6, <2>8, <2>9, <3>1, <3>2 DEF AsTyped
  <2>15. NoOverlap(others, i, e.start, e.size)
    <3>1. NoOverlap(mbr.entries, i, start, size)
      BY <1>3, <2>1, <2>3
    <3>. QED
      BY <2>8, <2>13, <3>1 DEF NoOverlap
  <2>16. \A j \in Index \ {i} : Apart(e, others[j])
    BY <2>8, <2>13, <2>15, NoOverlapApart
  <2>17. OneActive([others EXCEPT ![i] = e])
    BY <2>8, <2>13 DEF OneActive
  <2>18. EntriesHold([others EXCEPT ![i] = e], [made EXCEPT ![i] = meant])
    <3>1. made = [j \in Index |-> made[j]]
      BY <2>11
    <3>. QED
      BY <2>8, <2>13, <2>14, <2>16, <2>17, <3>1, EntryIsPut
  <2>19. [made EXCEPT ![i] = meant] \in [Index -> {None} \cup Words]
    BY <2>9, <2>11
  <2>. QED
    BY <2>10, <2>18, <2>19, WrittenKeeps
<1>. QED
  BY <1>1, <1>2, <1>3

\* Every command, from every record and whichever of its calls fail, leaves
\* partitions that are on the disk, apart and where the typed numbers say.
THEOREM PartitionsAreWhole == PartitionSpec => []PartitionsHold
<1>1. PartitionInv /\ [PartitionNext]_partitionVars => PartitionInv'
  <2>1. PartitionInv /\ UNCHANGED partitionVars => PartitionInv'
    BY DEF partitionVars, PartitionInv, PartitionsHold
  <2>. QED
    BY <2>1, InitMbrKeeps, DeleteKeeps, SetBootKeeps, CreateKeeps DEF PartitionNext
<1>2. PartitionInv => PartitionsHold
  BY DEF PartitionInv
<1>. QED
  BY <1>1, <1>2, InitialRecord, PTL DEF PartitionSpec

----------------------------------------------------------------------------
(* Accounts: the lines of a file. *)

\* A set that holds 0 and every number behind one it holds has all of them.
LEMMA Climbs ==
  ASSUME NEW n \in Nat, NEW Good, 0 \in Good, \A k \in 1 .. n : k - 1 \in Good => k \in Good
  PROVE  \A k \in 0 .. n : k \in Good
<1>. DEFINE Wrong == {k \in 0 .. n : k \notin Good}
<1>1. SUFFICES ASSUME Wrong # {} PROVE FALSE
  OBVIOUS
<1>2. PICK m \in Wrong : \A k \in Wrong : m <= k
  <2>1. Wrong \in SUBSET Nat
    OBVIOUS
  <2>. HIDE DEF Wrong
  <2>. QED
    BY <1>1, <2>1, LeastNumber
<1>3. m \in 1 .. n /\ m - 1 \in 0 .. n
  BY <1>2
<1>4. m - 1 \notin Wrong
  <2>. HIDE DEF Wrong
  <2>. QED
    BY <1>2, <1>3
<1>. QED
  BY <1>2, <1>3, <1>4

\* Min and Max are what they are called, where there is one.
LEMMA MinIs ==
  ASSUME NEW T \in SUBSET Nat, T # {}
  PROVE  Min(T) \in T /\ \A t \in T : Min(T) <= t
BY LeastNumber DEF Min

LEMMA MaxIs ==
  ASSUME NEW b \in Nat, NEW T \in SUBSET (0 .. b), T # {}
  PROVE  Max(T) \in T /\ \A t \in T : t <= Max(T)
<1>. DEFINE Below == {b - t : t \in T}
<1>1. Below \in SUBSET Nat /\ Below # {}
  <2>1. \A t \in T : b - t \in Nat
    OBVIOUS
  <2>. QED
    BY <2>1
<1>2. PICK low \in Below : \A k \in Below : low <= k
  <2>. HIDE DEF Below
  <2>. QED
    BY <1>1, LeastNumber
<1>3. PICK top \in T : low = b - top
  BY <1>2
<1>4. \A t \in T : top >= t
  <2>. TAKE t \in T
  <2>1. b - t \in Below /\ t \in 0 .. b /\ top \in 0 .. b
    BY <1>3
  <2>2. low <= b - t
    <3>. HIDE DEF Below
    <3>. QED
      BY <1>2, <2>1
  <2>. QED
    BY <1>3, <2>1, <2>2
<1>5. \E m \in T : \A t \in T : m >= t
  BY <1>3, <1>4
<1>6. Max(T) \in T /\ \A t \in T : Max(T) >= t
  BY <1>5 DEF Max
<1>. QED
  BY <1>6

\* First is the line with the least number, or Unset without one.
LEMMA FirstIs ==
  ASSUME NEW E, NEW s \in Seq(E), NEW n
  PROVE  /\ Of(s, n) \in SUBSET (1 .. Len(s))
         /\ Of(s, n) = {} => First(s, n) = Unset
         /\ Of(s, n) # {} => \E k \in Of(s, n) : First(s, n) = s[k] /\ \A j \in Of(s, n) : k <= j
<1>1. Of(s, n) \in SUBSET (1 .. Len(s)) /\ Of(s, n) \in SUBSET Nat
  BY DEF Of
<1>2. ASSUME Of(s, n) # {}
      PROVE  \E k \in Of(s, n) : First(s, n) = s[k] /\ \A j \in Of(s, n) : k <= j
  BY <1>1, <1>2, MinIs DEF First
<1>. QED
  BY <1>1, <1>2 DEF First

\* A line is found as it stands in the file, under its name.
LEMMA FirstIsThere ==
  ASSUME NEW E, Unset \notin E, NEW s \in Seq(E), NEW n
  PROVE  /\ First(s, n) = Unset <=> Of(s, n) = {}
         /\ First(s, n) # Unset => /\ First(s, n) \in E /\ First(s, n) # Junk
                                   /\ First(s, n).name = n
                                   /\ \E k \in Of(s, n) : First(s, n) = s[k]
<1>1. CASE Of(s, n) = {}
  BY <1>1, FirstIs
<1>2. CASE Of(s, n) # {}
  <2>1. PICK k \in Of(s, n) : First(s, n) = s[k]
    BY <1>2, FirstIs
  <2>2. k \in 1 .. Len(s) /\ s[k] # Junk /\ s[k].name = n /\ s[k] \in E
    BY <2>1 DEF Of
  <2>. QED
    BY <1>2, <2>1, <2>2
<1>. QED
  BY <1>1, <1>2

\* A line behind the others is found where no other was.
LEMMA FirstOfAppended ==
  ASSUME NEW E, Unset \notin E, NEW s \in Seq(E), NEW l \in E, NEW n
  PROVE  First(Append(s, l), n) = IF First(s, n) # Unset THEN First(s, n)
                                  ELSE IF l # Junk /\ l.name = n THEN l ELSE Unset
<1>. DEFINE r == Append(s, l)
            N == Len(s)
<1>1. /\ N \in Nat /\ r \in Seq(E) /\ Len(r) = N + 1 /\ r[N + 1] = l
      /\ \A i \in 1 .. N : r[i] = s[i]
  OBVIOUS
<1>2. /\ DOMAIN r = 1 .. N + 1 /\ DOMAIN s = 1 .. N
  OBVIOUS
<1>. HIDE DEF r, N
<1>3. Of(r, n) \cap (1 .. N) = Of(s, n)
  BY <1>1, <1>2 DEF Of
<1>4. N + 1 \in Of(r, n) <=> l # Junk /\ l.name = n
  BY <1>1, <1>2 DEF Of
<1>5. Of(r, n) \in SUBSET (1 .. N + 1)
  BY <1>2 DEF Of
<1>6. CASE First(s, n) # Unset
  <2>1. Of(s, n) # {}
    BY <1>6, FirstIs
  <2>2. PICK k \in Of(s, n) : First(s, n) = s[k] /\ \A j \in Of(s, n) : k <= j
    BY <2>1, FirstIs
  <2>3. PICK m \in Of(r, n) : First(r, n) = r[m] /\ \A j \in Of(r, n) : m <= j
    BY <1>1, <1>3, <2>1, FirstIs
  <2>4. k \in Of(r, n) /\ k \in 1 .. N /\ m \in 1 .. N + 1
    BY <1>3, <1>5, <2>2, <2>3
  <2>5. m <= k
    BY <2>3, <2>4
  <2>6. m \in 1 .. N
    BY <1>1, <2>4, <2>5
  <2>7. k <= m
    BY <1>3, <2>2, <2>3, <2>6
  <2>8. k = m
    BY <2>4, <2>5, <2>7
  <2>. QED
    BY <1>1, <1>6, <2>2, <2>3, <2>4, <2>8 DEF r
<1>7. CASE First(s, n) = Unset
  <2>1. Of(s, n) = {}
    BY <1>7, FirstIsThere
  <2>2. CASE l # Junk /\ l.name = n
    <3>1. Of(r, n) = {N + 1}
      BY <1>1, <1>3, <1>4, <1>5, <2>1, <2>2
    <3>2. First(r, n) = r[N + 1]
      BY <1>1, <3>1, FirstIs
    <3>. QED
      BY <1>1, <1>7, <2>2, <3>2 DEF r
  <2>3. CASE ~(l # Junk /\ l.name = n)
    <3>1. Of(r, n) = {}
      BY <1>1, <1>3, <1>4, <1>5, <2>1, <2>3
    <3>2. First(r, n) = Unset
      BY <3>1 DEF First
    <3>. QED
      BY <1>7, <2>3, <3>2 DEF r
  <2>. QED
    BY <2>2, <2>3
<1>. QED
  BY <1>6, <1>7

\* Every line of the name n is l, the others are as they were.
Replaced(s, n, l) == [i \in DOMAIN s |-> IF i \in Of(s, n) THEN l ELSE s[i]]

\* l is a line of n.
LineOf(E, l, n) == l \in E /\ l # Junk /\ l.name = n

LEMMA FirstOfReplaced ==
  ASSUME NEW E, Unset \notin E, NEW s \in Seq(E), NEW n, NEW l, LineOf(E, l, n)
  PROVE  /\ Replaced(s, n, l) \in Seq(E) /\ Len(Replaced(s, n, l)) = Len(s)
         /\ \A m : m # n => First(Replaced(s, n, l), m) = First(s, m)
         /\ Of(s, n) # {} => First(Replaced(s, n, l), n) = l
<1>. DEFINE r == Replaced(s, n, l)
<1>0. l \in E /\ l # Junk /\ l.name = n
  BY DEF LineOf
<1>1. /\ r \in Seq(E) /\ Len(r) = Len(s) /\ DOMAIN r = DOMAIN s
      /\ \A i \in DOMAIN s : r[i] = IF i \in Of(s, n) THEN l ELSE s[i]
  BY <1>0 DEF Replaced
<1>2. Of(s, n) = {i \in DOMAIN s : s[i] # Junk /\ s[i].name = n}
  BY DEF Of
<1>. HIDE DEF r
<1>3. Of(r, n) = Of(s, n)
  BY <1>0, <1>1, <1>2 DEF Of
<1>4. ASSUME NEW m, m # n PROVE First(r, m) = First(s, m)
  <2>1. Of(r, m) = Of(s, m)
    BY <1>0, <1>1, <1>2, <1>4 DEF Of
  <2>2. Of(s, m) \cap Of(s, n) = {}
    BY <1>4 DEF Of
  <2>3. CASE Of(s, m) = {}
    BY <2>1, <2>3 DEF First
  <2>4. CASE Of(s, m) # {}
    <3>1. Of(s, m) \in SUBSET Nat /\ Of(s, m) \in SUBSET DOMAIN s
      BY DEF Of
    <3>2. Min(Of(s, m)) \in Of(s, m)
      BY <2>4, <3>1, MinIs
    <3>3. r[Min(Of(s, m))] = s[Min(Of(s, m))]
      BY <1>1, <2>2, <3>1, <3>2
    <3>. QED
      BY <2>1, <2>4, <3>3 DEF First
  <2>. QED
    BY <2>3, <2>4
<1>5. ASSUME Of(s, n) # {} PROVE First(r, n) = l
  <2>1. Of(s, n) \in SUBSET Nat /\ Of(s, n) \in SUBSET DOMAIN s
    BY DEF Of
  <2>2. Min(Of(s, n)) \in Of(s, n)
    BY <1>5, <2>1, MinIs
  <2>. QED
    BY <1>1, <1>3, <1>5, <2>1, <2>2 DEF First
<1>. QED
  BY <1>1, <1>4, <1>5 DEF r

\* What Without keeps of the first i lines, step by step.
WithoutSteps(E, s, n) ==
    [i \in 1 .. Len(s) |-> [v \in Seq(E) |-> IF i \in Of(s, n) THEN v ELSE Append(v, s[i])]]

LEMMA WithoutIs ==
  ASSUME NEW E, NEW s \in Seq(E), NEW n
  PROVE  \E g \in [0 .. Len(s) -> Seq(E)] :
            /\ Without(s, n) = g[Len(s)] /\ g[0] = <<>>
            /\ \A i \in 1 .. Len(s) : g[i] = IF i \in Of(s, n) THEN g[i - 1] ELSE Append(g[i - 1], s[i])
<1>. DEFINE N == Len(s)
            Is(g) == g = [i \in 0 .. N |-> IF i = 0 THEN <<>>
                                           ELSE IF i \in Of(s, n) THEN g[i - 1] ELSE Append(g[i - 1], s[i])]
<1>1. N \in Nat /\ <<>> \in Seq(E) /\ \A i \in 1 .. N : s[i] \in E
  OBVIOUS
<1>2. \E g : Is(g)
  <2>1. WithoutSteps(E, s, n) \in [1 .. N -> [Seq(E) -> Seq(E)]]
    BY <1>1 DEF WithoutSteps
  <2>2. PICK g \in [0 .. N -> Seq(E)] : IsRun(g, <<>>, WithoutSteps(E, s, n), N)
    <3>. HIDE DEF N
    <3>. QED
      BY <1>1, <2>1, RunExists
  <2>3. \A i \in 0 .. N : g[i] = IF i = 0 THEN <<>>
                                ELSE IF i \in Of(s, n) THEN g[i - 1] ELSE Append(g[i - 1], s[i])
    <3>. TAKE i \in 0 .. N
    <3>1. i # 0 => i \in 1 .. N /\ i - 1 \in 0 .. N
      BY <1>1
    <3>2. i # 0 => g[i - 1] \in Seq(E)
      BY <2>2, <3>1
    <3>. QED
      BY <2>2, <3>1, <3>2 DEF IsRun, WithoutSteps
  <2>. QED
    BY <2>2, <2>3
<1>3. Without(s, n) = (CHOOSE g : Is(g))[N]
  BY DEF Without
<1>4. PICK g : Is(g) /\ Without(s, n) = g[N]
  <2>. HIDE DEF Is
  <2>. QED
    BY <1>2, <1>3
<1>5. DOMAIN g = 0 .. N /\ g = [i \in 0 .. N |-> g[i]]
  BY <1>4
<1>6. \A i \in 0 .. N : g[i] = IF i = 0 THEN <<>>
                              ELSE IF i \in Of(s, n) THEN g[i - 1] ELSE Append(g[i - 1], s[i])
  BY <1>4
<1>7. g[0] = <<>> /\ \A i \in 1 .. N : g[i] = IF i \in Of(s, n) THEN g[i - 1] ELSE Append(g[i - 1], s[i])
  <2>1. 0 \in 0 .. N /\ \A i \in 1 .. N : i \in 0 .. N /\ i # 0
    BY <1>1
  <2>. QED
    BY <1>6, <2>1
<1>. DEFINE Good == {i \in 0 .. N : g[i] \in Seq(E)}
<1>8. 0 \in Good
  <2>1. 0 \in 0 .. N /\ g[0] \in Seq(E)
    BY <1>1, <1>7
  <2>. QED
    BY <2>1
<1>9. \A i \in 1 .. N : i - 1 \in Good => i \in Good
  <2>. TAKE i \in 1 .. N
  <2>. SUFFICES ASSUME i - 1 \in Good PROVE i \in Good
    OBVIOUS
  <2>1. s[i] \in E /\ i \in 0 .. N /\ g[i - 1] \in Seq(E)
    BY <1>1
  <2>2. Append(g[i - 1], s[i]) \in Seq(E)
    BY <2>1
  <2>3. g[i] \in Seq(E)
    BY <1>7, <2>1, <2>2
  <2>. QED
    BY <2>1, <2>3
<1>10. \A i \in 0 .. N : i \in Good
  <2>. HIDE DEF Good, N
  <2>. QED
    BY <1>1, <1>8, <1>9, Climbs
<1>. QED
  BY <1>4, <1>5, <1>7, <1>10

\* Without loses all lines of the name and keeps what is found for the others.
LEMMA FirstOfWithout ==
  ASSUME NEW E, Unset \notin E, NEW s \in Seq(E), NEW n
  PROVE  /\ Without(s, n) \in Seq(E) /\ Len(Without(s, n)) <= Len(s)
         /\ \A m : m # n => First(Without(s, n), m) = First(s, m)
         /\ First(Without(s, n), n) = Unset
<1>. DEFINE N == Len(s)
<1>1. PICK g \in [0 .. N -> Seq(E)] :
            /\ Without(s, n) = g[N] /\ g[0] = <<>>
            /\ \A i \in 1 .. N : g[i] = IF i \in Of(s, n) THEN g[i - 1] ELSE Append(g[i - 1], s[i])
  BY WithoutIs
<1>2. N \in Nat /\ DOMAIN s = 1 .. N /\ \A i \in 1 .. N : s[i] \in E
  OBVIOUS
<1>. DEFINE Known(i) == /\ Len(g[i]) <= i
                        /\ \A m : m # n => First(g[i], m) = First(SubSeq(s, 1, i), m)
                        /\ First(g[i], n) = Unset
            Good == {i \in 0 .. N : Known(i)}
<1>3. 0 \in Good
  <2>1. SubSeq(s, 1, 0) = <<>> /\ Len(<<>>) = 0
    OBVIOUS
  <2>2. First(<<>>, n) = Unset
    BY DEF First, Of
  <2>3. 0 \in 0 .. N /\ g[0] = <<>>
    BY <1>1, <1>2
  <2>4. Known(0)
    BY <2>1, <2>2, <2>3
  <2>. HIDE DEF Known
  <2>. QED
    BY <2>3, <2>4
<1>4. \A i \in 1 .. N : i - 1 \in Good => i \in Good
  <2>. SUFFICES ASSUME NEW i \in 1 .. N, i - 1 \in Good PROVE i \in Good
    OBVIOUS
  <2>. DEFINE t == SubSeq(s, 1, i - 1)
              v == g[i - 1]
  <2>1. i - 1 \in 0 .. N /\ i \in 0 .. N /\ i - 1 \in Nat /\ i \in Nat
    BY <1>2
  <2>2. v \in Seq(E)
    BY <1>1, <2>1
  <2>3. /\ Len(v) <= i - 1 /\ First(v, n) = Unset
        /\ \A m : m # n => First(v, m) = First(t, m)
    OBVIOUS
  <2>4. t \in Seq(E) /\ s[i] \in E /\ SubSeq(s, 1, i) = Append(t, s[i])
    BY <1>2, <2>1
  <2>5. i \in Of(s, n) <=> s[i] # Junk /\ s[i].name = n
    BY <1>2 DEF Of
  <2>6. g[i] = IF i \in Of(s, n) THEN v ELSE Append(v, s[i])
    BY <1>1
  <2>. HIDE DEF t, v
  <2>7. CASE i \in Of(s, n)
    <3>1. \A m : m # n => First(Append(t, s[i]), m) = First(t, m)
      <4>. SUFFICES ASSUME NEW m, m # n PROVE First(Append(t, s[i]), m) = First(t, m)
        OBVIOUS
      <4>. QED
        BY <2>4, <2>5, <2>7, FirstOfAppended
    <3>2. Len(v) <= i
      BY <2>1, <2>2, <2>3
    <3>. QED
      BY <2>1, <2>3, <2>4, <2>6, <2>7, <3>1, <3>2
  <2>8. CASE i \notin Of(s, n)
    <3>1. ASSUME NEW m, m # n PROVE First(Append(v, s[i]), m) = First(Append(t, s[i]), m)
      <4>1. First(v, m) = First(t, m)
        BY <2>3, <3>1
      <4>2. First(Append(v, s[i]), m) = IF First(v, m) # Unset THEN First(v, m)
                                        ELSE IF s[i] # Junk /\ s[i].name = m THEN s[i] ELSE Unset
        BY <2>2, <2>4, FirstOfAppended
      <4>3. First(Append(t, s[i]), m) = IF First(t, m) # Unset THEN First(t, m)
                                        ELSE IF s[i] # Junk /\ s[i].name = m THEN s[i] ELSE Unset
        BY <2>4, FirstOfAppended
      <4>. QED
        BY <4>1, <4>2, <4>3
    <3>2. First(Append(v, s[i]), n) = Unset
      BY <2>2, <2>3, <2>4, <2>5, <2>8, FirstOfAppended
    <3>3. Len(Append(v, s[i])) <= i
      BY <2>1, <2>2, <2>3, <2>4
    <3>. QED
      BY <2>1, <2>4, <2>6, <2>8, <3>1, <3>2, <3>3
  <2>. QED
    BY <2>7, <2>8
<1>5. \A i \in 0 .. N : i \in Good
  <2>. HIDE DEF Good, N
  <2>. QED
    BY <1>2, <1>3, <1>4, Climbs
<1>6. N \in 0 .. N /\ SubSeq(s, 1, N) = s
  BY <1>2
<1>7. Known(N)
  BY <1>5, <1>6
<1>. QED
  BY <1>1, <1>6, <1>7

----------------------------------------------------------------------------
(* Typed lines. *)

\* A key adds a character, takes the last one back, or changes nothing.
LEMMA PressedIs ==
  ASSUME NEW K, NEW text \in Seq(K), NEW key \in K, NEW max, NEW rubs
  PROVE  /\ Pressed(text, key, max, rubs) \in Seq(K)
         /\ key \in rubs => Len(Pressed(text, key, max, rubs)) <= Len(text)
         /\ Len(Pressed(text, key, max, rubs)) <= Len(text) + 1
<1>1. Len(text) \in Nat /\ Len(text) - 1 \in Int /\ \A i \in 1 .. Len(text) - 1 : text[i] \in K
  OBVIOUS
<1>2. /\ SubSeq(text, 1, Len(text) - 1) \in Seq(K)
      /\ Len(SubSeq(text, 1, Len(text) - 1)) = IF 1 <= Len(text) - 1 THEN Len(text) - 1 - 1 + 1 ELSE 0
  BY <1>1, SubSeqProperties
<1>3. Len(SubSeq(text, 1, Len(text) - 1)) <= Len(text)
  BY <1>1, <1>2
<1>4. Append(text, key) \in Seq(K) /\ Len(Append(text, key)) = Len(text) + 1
  OBVIOUS
<1>. QED
  BY <1>1, <1>2, <1>3, <1>4 DEF Pressed

LineSteps(K, keys, max, rubs) ==
    [i \in 1 .. Len(keys) |-> [v \in Seq(K) |-> Pressed(v, keys[i], max, rubs)]]

\* g holds what the first i keys leave, and the line of all of them.
LineRun(K, keys, max, rubs, g) ==
    /\ g \in [0 .. Len(keys) -> Seq(K)]
    /\ Line(keys, max, rubs) = g[Len(keys)] /\ g[0] = <<>>
    /\ \A i \in 1 .. Len(keys) : g[i] = Pressed(g[i - 1], keys[i], max, rubs)

\* A line is what its keys make of it, one after the other.
LEMMA LineIs ==
  ASSUME NEW K, NEW keys \in Seq(K), NEW max, NEW rubs
  PROVE  \E g : LineRun(K, keys, max, rubs, g)
<1>. DEFINE N == Len(keys)
            Is(g) == g = [i \in 0 .. N |-> IF i = 0 THEN <<>> ELSE Pressed(g[i - 1], keys[i], max, rubs)]
<1>1. N \in Nat /\ <<>> \in Seq(K) /\ \A i \in 1 .. N : keys[i] \in K
  OBVIOUS
<1>2. \E g : Is(g)
  <2>1. LineSteps(K, keys, max, rubs) \in [1 .. N -> [Seq(K) -> Seq(K)]]
    <3>1. \A i \in 1 .. N : \A v \in Seq(K) : Pressed(v, keys[i], max, rubs) \in Seq(K)
      BY <1>1, PressedIs
    <3>. QED
      BY <3>1 DEF LineSteps
  <2>2. PICK g \in [0 .. N -> Seq(K)] : IsRun(g, <<>>, LineSteps(K, keys, max, rubs), N)
    <3>. HIDE DEF N
    <3>. QED
      BY <1>1, <2>1, RunExists
  <2>3. \A i \in 0 .. N : g[i] = IF i = 0 THEN <<>> ELSE Pressed(g[i - 1], keys[i], max, rubs)
    <3>. TAKE i \in 0 .. N
    <3>1. i # 0 => i \in 1 .. N /\ i - 1 \in 0 .. N
      BY <1>1
    <3>2. i # 0 => g[i - 1] \in Seq(K)
      BY <2>2, <3>1
    <3>. QED
      BY <2>2, <3>1, <3>2 DEF IsRun, LineSteps
  <2>. QED
    BY <2>2, <2>3
<1>3. Line(keys, max, rubs) = (CHOOSE g : Is(g))[N]
  BY DEF Line
<1>4. PICK g : Is(g) /\ Line(keys, max, rubs) = g[N]
  <2>. HIDE DEF Is
  <2>. QED
    BY <1>2, <1>3
<1>5. DOMAIN g = 0 .. N /\ g = [i \in 0 .. N |-> g[i]]
  BY <1>4
<1>6. \A i \in 0 .. N : g[i] = IF i = 0 THEN <<>> ELSE Pressed(g[i - 1], keys[i], max, rubs)
  BY <1>4
<1>7. g[0] = <<>> /\ \A i \in 1 .. N : g[i] = Pressed(g[i - 1], keys[i], max, rubs)
  <2>1. 0 \in 0 .. N /\ \A i \in 1 .. N : i \in 0 .. N /\ i # 0
    BY <1>1
  <2>. QED
    BY <1>6, <2>1
<1>. DEFINE Good == {i \in 0 .. N : g[i] \in Seq(K)}
<1>8. 0 \in Good
  <2>1. 0 \in 0 .. N /\ g[0] \in Seq(K)
    BY <1>1, <1>7
  <2>. QED
    BY <2>1
<1>9. \A i \in 1 .. N : i - 1 \in Good => i \in Good
  <2>. TAKE i \in 1 .. N
  <2>. SUFFICES ASSUME i - 1 \in Good PROVE i \in Good
    OBVIOUS
  <2>1. keys[i] \in K /\ i \in 0 .. N /\ g[i - 1] \in Seq(K)
    BY <1>1
  <2>2. g[i] \in Seq(K)
    BY <1>7, <2>1, PressedIs
  <2>. QED
    BY <2>1, <2>2
<1>10. \A i \in 0 .. N : i \in Good
  <2>. HIDE DEF Good, N
  <2>. QED
    BY <1>1, <1>8, <1>9, Climbs
<1>11. LineRun(K, keys, max, rubs, g)
  BY <1>4, <1>5, <1>7, <1>10 DEF LineRun
<1>. QED
  BY <1>11

\* The keys up to the i-th that write a character.
Writing(keys, i) == {j \in 1 .. i : keys[j] # Rub}

LEMMA WritingGrows ==
  ASSUME NEW keys, NEW i \in Nat \ {0}
  PROVE  /\ Cardinality(Writing(keys, i - 1)) \in Nat
         /\ Cardinality(Writing(keys, i)) = IF keys[i] = Rub THEN Cardinality(Writing(keys, i - 1))
                                            ELSE Cardinality(Writing(keys, i - 1)) + 1
<1>1. IsFiniteSet(1 .. i - 1) /\ Writing(keys, i - 1) \in SUBSET (1 .. i - 1)
  BY FS_Interval DEF Writing
<1>2. IsFiniteSet(Writing(keys, i - 1))
  BY <1>1, FS_Subset
<1>3. i \notin Writing(keys, i - 1)
  BY DEF Writing
<1>4. CASE keys[i] = Rub
  <2>1. Writing(keys, i) = Writing(keys, i - 1)
    BY <1>4 DEF Writing
  <2>. QED
    BY <1>2, <1>4, <2>1, FS_CardinalityType
<1>5. CASE keys[i] # Rub
  <2>1. Writing(keys, i) = Writing(keys, i - 1) \cup {i}
    BY <1>5 DEF Writing
  <2>. QED
    BY <1>2, <1>3, <1>5, <2>1, FS_CardinalityType, FS_AddElement
<1>. QED
  BY <1>4, <1>5

\* The loop of the login keeps what the loops that set passwords keep, of keys
\* that its buffer has room for and that do not tell delete from backspace.
LEMMA LoginReadsTheSame ==
  ASSUME NEW K, NEW keys \in Seq(K), Del \notin ToSet(keys),
         Cardinality(Writing(keys, Len(keys))) <= LoginMax
  PROVE  LoginLine(keys) = PasswdLine(keys)
<1>. DEFINE N == Len(keys)
<1>1. PICK a : LineRun(K, keys, LineMax, {Rub}, a)
  BY LineIs
<1>2. PICK b : LineRun(K, keys, LoginMax, {Rub, Del}, b)
  BY LineIs
<1>11. /\ a \in [0 .. N -> Seq(K)] /\ a[0] = <<>> /\ Line(keys, LineMax, {Rub}) = a[N]
       /\ \A i \in 1 .. N : a[i] = Pressed(a[i - 1], keys[i], LineMax, {Rub})
  BY <1>1 DEF LineRun
<1>12. /\ b \in [0 .. N -> Seq(K)] /\ b[0] = <<>> /\ Line(keys, LoginMax, {Rub, Del}) = b[N]
       /\ \A i \in 1 .. N : b[i] = Pressed(b[i - 1], keys[i], LoginMax, {Rub, Del})
  BY <1>2 DEF LineRun
<1>3. N \in Nat /\ \A i \in 1 .. N : keys[i] \in K /\ keys[i] # Del
  BY DEF ToSet
<1>4. LineMax \in Nat /\ LoginMax \in Nat /\ LoginMax <= LineMax
  BY NumbersAssumption
<1>5. \A i \in 0 .. N : Cardinality(Writing(keys, i)) \in Nat /\ Cardinality(Writing(keys, i)) <= LoginMax
  <2>. TAKE i \in 0 .. N
  <2>1. IsFiniteSet(Writing(keys, N))
    <3>1. IsFiniteSet(1 .. N) /\ Writing(keys, N) \in SUBSET (1 .. N)
      BY <1>3, FS_Interval DEF Writing
    <3>. QED
      BY <3>1, FS_Subset
  <2>2. Writing(keys, i) \in SUBSET Writing(keys, N)
    BY <1>3 DEF Writing
  <2>3. /\ Cardinality(Writing(keys, i)) <= Cardinality(Writing(keys, N))
        /\ IsFiniteSet(Writing(keys, i))
    BY <2>1, <2>2, FS_Subset
  <2>4. Cardinality(Writing(keys, i)) \in Nat /\ Cardinality(Writing(keys, N)) \in Nat
    BY <2>1, <2>3, FS_CardinalityType
  <2>5. Cardinality(Writing(keys, N)) <= LoginMax
    OBVIOUS
  <2>. QED
    BY <1>4, <2>3, <2>4, <2>5
<1>. DEFINE Good == {i \in 0 .. N : a[i] = b[i] /\ Len(a[i]) <= Cardinality(Writing(keys, i))}
<1>6. 0 \in Good
  <2>1. a[0] = b[0] /\ Len(a[0]) = 0 /\ 0 \in 0 .. N
    BY <1>3, <1>11, <1>12
  <2>2. Cardinality(Writing(keys, 0)) \in Nat
    BY <1>5, <2>1
  <2>. QED
    BY <2>1, <2>2
<1>7. \A i \in 1 .. N : i - 1 \in Good => i \in Good
  <2>. TAKE i \in 1 .. N
  <2>. SUFFICES ASSUME i - 1 \in Good PROVE i \in Good
    OBVIOUS
  <2>. DEFINE was == Cardinality(Writing(keys, i - 1))
              now == Cardinality(Writing(keys, i))
  <2>1. i \in Nat \ {0} /\ i \in 0 .. N /\ i - 1 \in 0 .. N /\ keys[i] \in K /\ keys[i] # Del
    BY <1>3
  <2>2. a[i - 1] = b[i - 1] /\ Len(a[i - 1]) <= was /\ a[i - 1] \in Seq(K)
    BY <1>11, <2>1
  <2>3. was \in Nat /\ now = IF keys[i] = Rub THEN was ELSE was + 1
    BY <2>1, WritingGrows
  <2>4. now <= LoginMax
    BY <1>5, <2>1
  <2>5. a[i] = Pressed(a[i - 1], keys[i], LineMax, {Rub}) /\ b[i] = Pressed(b[i - 1], keys[i], LoginMax, {Rub, Del})
    BY <1>11, <1>12
  <2>. HIDE DEF was, now
  <2>6. Len(a[i - 1]) \in Nat
    BY <2>2
  <2>7. CASE keys[i] = Rub
    <3>1. Pressed(a[i - 1], keys[i], LineMax, {Rub}) = Pressed(b[i - 1], keys[i], LoginMax, {Rub, Del})
      BY <2>2, <2>7 DEF Pressed
    <3>2. Len(a[i]) <= Len(a[i - 1]) /\ a[i] \in Seq(K)
      BY <2>1, <2>2, <2>5, <2>7, PressedIs
    <3>3. Len(a[i]) \in Nat
      BY <3>2
    <3>4. Len(a[i]) <= now
      BY ONLY <2>2, <2>3, <2>6, <2>7, <3>2, <3>3
    <3>. QED
      BY <2>1, <2>5, <3>1, <3>4 DEF now
  <2>8. CASE keys[i] # Rub
    <3>1. Len(a[i - 1]) < LoginMax /\ Len(a[i - 1]) < LineMax
      BY ONLY <1>4, <2>2, <2>3, <2>4, <2>6, <2>8
    <3>2. Len(a[i - 1]) # LoginMax /\ Len(a[i - 1]) # LineMax
      BY <1>4, <2>6, <3>1
    <3>3. /\ Pressed(a[i - 1], keys[i], LineMax, {Rub}) = Append(a[i - 1], keys[i])
          /\ Pressed(b[i - 1], keys[i], LoginMax, {Rub, Del}) = Append(a[i - 1], keys[i])
      BY <2>1, <2>2, <2>8, <3>2 DEF Pressed
    <3>4. Len(a[i]) = Len(a[i - 1]) + 1
      BY <2>1, <2>2, <2>5, <3>3
    <3>5. Len(a[i]) <= now
      BY ONLY <2>2, <2>3, <2>6, <2>8, <3>4
    <3>. QED
      BY <2>1, <2>5, <3>3, <3>5 DEF now
  <2>. QED
    BY <2>7, <2>8
<1>8. \A i \in 0 .. N : i \in Good
  <2>. HIDE DEF Good, N
  <2>. QED
    BY <1>3, <1>6, <1>7, Climbs
<1>9. N \in 0 .. N
  BY <1>3
<1>10. a[N] = b[N]
  BY <1>8, <1>9
<1>. QED
  BY <1>10, <1>11, <1>12 DEF LoginLine, PasswdLine

\* Where every password is the line typed for it, the login takes it.
LEMMA KeptIsTaken == TypeOfAccounts /\ TypedIsKept => LoginTakesTyped
<1>. SUFFICES ASSUME TypeOfAccounts, TypedIsKept, NEW n \in People,
                     typed[n] # Unset, Del \notin ToSet(typed[n]),
                     Cardinality({i \in DOMAIN typed[n] : typed[n][i] # Rub}) <= LoginMax
              PROVE  kernel[n].password = LoginLine(typed[n])
  BY DEF LoginTakesTyped
<1>1. typed[n] \in TypedKeys
  BY DEF TypeOfAccounts
<1>2. typed[n] \in Seq(ToSet(typed[n]))
  BY <1>1, KeysAssumption
<1>3. Writing(typed[n], Len(typed[n])) = {i \in DOMAIN typed[n] : typed[n][i] # Rub}
  BY <1>2 DEF Writing
<1>4. LoginLine(typed[n]) = PasswdLine(typed[n])
  BY <1>2, <1>3, LoginReadsTheSame
<1>. QED
  BY <1>4 DEF TypedIsKept

----------------------------------------------------------------------------
(* Files of lines. *)

AllLines == UserLines \cup IdLines \cup SecretLines

LEMMA SeqWidens ==
  ASSUME NEW A, NEW B, A \subseteq B, NEW s \in Seq(A)
  PROVE  s \in Seq(B)
<1>1. s \in [1 .. Len(s) -> A] /\ Len(s) \in Nat
  OBVIOUS
<1>2. s \in [1 .. Len(s) -> B]
  BY <1>1
<1>. QED
  BY <1>1, <1>2

\* A file that is there is no Missing one, and has its lines.
LEMMA LinesOfFile ==
  ASSUME NEW E, E \subseteq AllLines, NEW s \in Seq(E \cup {Junk}), NEW b \in BOOLEAN
  PROVE  /\ [lines |-> s, ended |-> b] # Missing
         /\ Lines([lines |-> s, ended |-> b]) = s
         /\ (s = <<>> => b = TRUE) => [lines |-> s, ended |-> b] \in FileOf(E)
<1>1. s \in Seq(UserLines \cup IdLines \cup SecretLines \cup {Junk})
  BY SeqWidens DEF AllLines
<1>2. [lines |-> s, ended |-> b] # Missing
  BY <1>1, MarksAssumption
<1>3. Lines([lines |-> s, ended |-> b]) = s
  BY <1>2 DEF Lines
<1>4. ASSUME s = <<>> => b = TRUE PROVE [lines |-> s, ended |-> b] \in FileOf(E)
  BY <1>4 DEF FileOf
<1>. QED
  BY <1>2, <1>3, <1>4

LEMMA FileHolds ==
  ASSUME NEW E, NEW f \in FileOf(E)
  PROVE  /\ Lines(f) \in Seq(E \cup {Junk})
         /\ f # Missing => /\ Lines(f) = f.lines /\ f.lines \in Seq(E \cup {Junk}) /\ f.ended \in BOOLEAN
                           /\ f = [lines |-> f.lines, ended |-> f.ended]
                           /\ f.lines = <<>> => f.ended = TRUE
<1>1. CASE f = Missing
  BY <1>1 DEF Lines
<1>2. CASE f # Missing
  <2>1. f \in [lines : Seq(E \cup {Junk}), ended : BOOLEAN] /\ (f.lines = <<>> => f.ended)
    BY <1>2 DEF FileOf
  <2>. QED
    BY <1>2, <2>1 DEF Lines
<1>. QED
  BY <1>1, <1>2

\* What is cut off a list of lines.
Cut(s, k) == Append(SubSeq(s, 1, k), Junk)

LEMMA CutIs ==
  ASSUME NEW E, NEW s \in Seq(E \cup {Junk}), NEW k \in 0 .. Len(s) - 1
  PROVE  /\ Cut(s, k) \in Seq(E \cup {Junk}) /\ Cut(s, k) # <<>> /\ Len(Cut(s, k)) = k + 1
         /\ Cut(s, k)[k + 1] = Junk /\ \A i \in 1 .. k : Cut(s, k)[i] = s[i]
<1>1. k \in Nat /\ Len(s) \in Nat /\ \A i \in 1 .. k : s[i] \in E \cup {Junk}
  OBVIOUS
<1>2. /\ SubSeq(s, 1, k) \in Seq(E \cup {Junk}) /\ Len(SubSeq(s, 1, k)) = k
      /\ \A i \in 1 .. k : SubSeq(s, 1, k)[i] = s[i]
  <2>1. /\ SubSeq(s, 1, k) \in Seq(E \cup {Junk})
        /\ Len(SubSeq(s, 1, k)) = IF 1 <= k THEN k - 1 + 1 ELSE 0
        /\ \A i \in 1 .. k - 1 + 1 : SubSeq(s, 1, k)[i] = s[1 + i - 1]
    BY <1>1, SubSeqProperties
  <2>2. k - 1 + 1 = k /\ (~(1 <= k) => k = 0) /\ \A i \in 1 .. k : 1 + i - 1 = i
    BY <1>1
  <2>. QED
    BY <2>1, <2>2
<1>. DEFINE t == SubSeq(s, 1, k)
<1>. HIDE DEF t
<1>3. /\ Append(t, Junk) \in Seq(E \cup {Junk}) /\ Len(Append(t, Junk)) = k + 1
      /\ Append(t, Junk)[k + 1] = Junk /\ \A i \in 1 .. k : Append(t, Junk)[i] = t[i]
  BY <1>1, <1>2 DEF t
<1>4. Append(t, Junk) # <<>>
  <2>1. Len(Append(t, Junk)) # 0
    BY <1>1, <1>3
  <2>2. Len(<<>>) = 0
    OBVIOUS
  <2>. QED
    BY <2>1, <2>2
<1>. QED
  BY <1>2, <1>3, <1>4 DEF Cut, t

\* Writing a whole file leaves the new lines, the old file or some of the new.
LEMMA OutcomeIs ==
  ASSUME NEW E, E \subseteq AllLines, NEW f \in FileOf(E), NEW s \in Seq(E \cup {Junk}),
         NEW ok, NEW g \in Outcomes(ok, f, s)
  PROVE  /\ g \in FileOf(E)
         /\ g = f \/ Lines(g) = s \/ \E k \in 0 .. Len(s) - 1 : Lines(g) = Cut(s, k)
         /\ ok => g = File(s) /\ Lines(g) = s /\ g # Missing /\ g.ended = TRUE
<1>1. /\ File(s) \in FileOf(E) /\ Lines(File(s)) = s /\ File(s) # Missing /\ File(s).ended = TRUE
  BY LinesOfFile DEF File
<1>2. CASE ok
  BY <1>1, <1>2 DEF Outcomes
<1>3. CASE ~ok
  <2>1. g = f \/ \E k \in 0 .. Len(s) - 1 : g = [lines |-> Cut(s, k), ended |-> FALSE]
    BY <1>3 DEF Outcomes, Cut
  <2>2. ASSUME NEW k \in 0 .. Len(s) - 1, g = [lines |-> Cut(s, k), ended |-> FALSE]
        PROVE  g \in FileOf(E) /\ Lines(g) = Cut(s, k)
    <3>1. Cut(s, k) \in Seq(E \cup {Junk}) /\ Cut(s, k) # <<>>
      BY CutIs
    <3>. QED
      BY <2>2, <3>1, LinesOfFile
  <2>. QED
    BY <1>3, <2>1, <2>2
<1>. QED
  BY <1>2, <1>3

LEMMA AppendedIs ==
  ASSUME NEW f \in FileOf(UserLines), f # Missing, NEW l \in UserLines
  PROVE  /\ Appended(f, l) \in FileOf(UserLines)
         /\ f.ended => Appended(f, l) = File(Append(Lines(f), l))
<1>1. /\ f.lines \in Seq(UserLines \cup {Junk}) /\ f.ended \in BOOLEAN /\ Lines(f) = f.lines
      /\ f.lines = <<>> => f.ended = TRUE
  BY FileHolds
<1>2. UserLines \subseteq AllLines
  BY DEF AllLines
<1>3. ASSUME NEW s \in Seq(UserLines \cup {Junk}) PROVE File(s) \in FileOf(UserLines)
  BY <1>2, LinesOfFile DEF File
<1>4. CASE f.ended
  <2>1. Append(f.lines, l) \in Seq(UserLines \cup {Junk})
    BY <1>1
  <2>. QED
    BY <1>1, <1>3, <1>4, <2>1 DEF Appended
<1>5. CASE ~f.ended
  <2>. DEFINE N == Len(f.lines)
  <2>1. N \in Nat /\ N # 0 /\ Last(f.lines) = f.lines[N] /\ N \in 1 .. N
    BY <1>1, <1>5 DEF Last
  <2>2. CASE Last(f.lines) = Junk
    BY <1>1, <1>3, <1>5, <2>2 DEF Appended
  <2>3. CASE Last(f.lines) # Junk
    <3>1. f.lines[N] \in UserLines
      BY <1>1, <2>1, <2>3
    <3>2. [f.lines[N] EXCEPT !.home = "spoilt"] \in UserLines
      BY <3>1 DEF UserLines
    <3>3. [f.lines EXCEPT ![N].home = "spoilt"] = [f.lines EXCEPT ![N] = [f.lines[N] EXCEPT !.home = "spoilt"]]
      OBVIOUS
    <3>4. [f.lines EXCEPT ![N].home = "spoilt"] \in Seq(UserLines \cup {Junk})
      <4>. DEFINE e == [f.lines[N] EXCEPT !.home = "spoilt"]
      <4>1. e \in UserLines \cup {Junk}
        BY <3>2
      <4>. HIDE DEF e
      <4>2. [f.lines EXCEPT ![N] = e] \in Seq(UserLines \cup {Junk})
        BY <1>1, <2>1, <4>1
      <4>. QED
        BY <3>3, <4>2 DEF e
    <3>. QED
      BY <1>3, <1>5, <2>3, <3>4 DEF Appended
  <2>. QED
    BY <2>2, <2>3
<1>. QED
  BY <1>4, <1>5

\* A file that fits the buffer is read as it is; one that does not is never
\* written back with a line more.
LEMMA ReadIsLines ==
  ASSUME NEW E, NEW f \in FileOf(E)
  PROVE  /\ Read(f) \in Seq(E \cup {Junk})
         /\ Fits(Lines(f)) => Read(f) = Lines(f)
         /\ ~Fits(Lines(f)) => \A l : ~Fits(Append(Read(f), l))
<1>1. Lines(f) \in Seq(E \cup {Junk}) /\ Len(Lines(f)) \in Nat /\ FileMax \in Nat
  <2>1. Lines(f) \in Seq(E \cup {Junk})
    BY FileHolds
  <2>. QED
    BY <2>1, NumbersAssumption
<1>2. CASE Fits(Lines(f))
  BY <1>1, <1>2 DEF Read, Fits
<1>3. CASE ~Fits(Lines(f))
  <2>. DEFINE t == SubSeq(Lines(f), 1, FileMax - 1)
  <2>1. FileMax < Len(Lines(f)) /\ Read(f) = Append(t, Junk)
    BY <1>1, <1>3 DEF Read, Fits
  <2>2. FileMax - 1 \in Int /\ \A i \in 1 .. FileMax - 1 : Lines(f)[i] \in E \cup {Junk}
    BY <1>1, <2>1
  <2>3. t \in Seq(E \cup {Junk}) /\ Len(t) = IF 1 <= FileMax - 1 THEN FileMax - 1 - 1 + 1 ELSE 0
    BY <2>2, SubSeqProperties
  <2>4. Len(t) >= FileMax - 1 /\ Len(t) \in Nat
    BY <1>1, <2>3
  <2>. HIDE DEF t
  <2>5. Append(t, Junk) \in Seq(E \cup {Junk}) /\ Len(Append(t, Junk)) = Len(t) + 1
    BY <2>3
  <2>6. ASSUME NEW l PROVE ~Fits(Append(Read(f), l))
    <3>1. Len(Append(Append(t, Junk), l)) = Len(Append(t, Junk)) + 1
      BY <2>5
    <3>2. Len(Append(Read(f), l)) = Len(t) + 2
      BY <2>1, <2>4, <2>5, <3>1
    <3>. QED
      BY <1>1, <2>4, <3>2 DEF Fits
  <2>. QED
    BY <1>3, <2>1, <2>5, <2>6
<1>. QED
  BY <1>2, <1>3

LEMMA WriteBackIs ==
  ASSUME NEW f, NEW s, NEW ok, NEW g \in WriteBack(f, s, ok)
  PROVE  /\ g = f \/ (Fits(s) /\ g \in Outcomes(ok, f, s))
         /\ ok => Fits(s) /\ g \in Outcomes(ok, f, s)
BY DEF WriteBack

----------------------------------------------------------------------------
(* Ids. *)

NextId(s) == (Max(Ids(s) \cup {FirstId - 1}) + 1) % IdWord

\* The next id is a word; behind a file that does not hold the last word it is
\* larger than every id there.
LEMMA NextIdIs ==
  ASSUME NEW s \in Seq(IdLines \cup {Junk})
  PROVE  /\ NextId(s) \in 0 .. IdWord - 1
         /\ Ids(s) \in SUBSET (0 .. IdWord - 1)
         /\ IdWord - 1 \notin Ids(s) => /\ \A id \in Ids(s) : id < NextId(s)
                                        /\ FirstId <= NextId(s)
                                        /\ NextId(s) = FirstId \/ NextId(s) - 1 \in Ids(s)
<1>1. FirstId \in Nat \ {0} /\ FileMax \in Nat /\ IdWord \in Nat /\ FirstId + FileMax < IdWord
  BY NumbersAssumption
<1>2. Ids(s) \in SUBSET (0 .. IdWord - 1)
  <2>1. SUFFICES ASSUME NEW i \in DOMAIN s, s[i] # Junk, s[i].id # BadId PROVE s[i].id \in 0 .. IdWord - 1
    BY DEF Ids
  <2>2. s[i] \in IdLines
    BY <2>1
  <2>. QED
    BY <2>1, <2>2 DEF IdLines
<1>. DEFINE T == Ids(s) \cup {FirstId - 1}
            top == Max(T)
<1>3. T \in SUBSET (0 .. IdWord - 1) /\ T # {} /\ IdWord - 1 \in Nat
  BY <1>1, <1>2
<1>4. top \in T /\ \A t \in T : t <= top
  <2>. HIDE DEF T
  <2>. QED
    BY <1>3, MaxIs
<1>5. FirstId - 1 \in T /\ \A id \in Ids(s) : id \in T
  OBVIOUS
<1>6. top \in 0 .. IdWord - 1 /\ FirstId - 1 <= top
  <2>. HIDE DEF T, top
  <2>. QED
    BY <1>3, <1>4, <1>5
<1>7. NextId(s) = (top + 1) % IdWord
  BY DEF NextId
<1>8. top \in Ids(s) \/ top = FirstId - 1
  <2>1. \A t \in T : t \in Ids(s) \/ t = FirstId - 1
    OBVIOUS
  <2>. HIDE DEF T, top
  <2>. QED
    BY <1>4, <2>1
<1>9. \A id \in Ids(s) : id <= top
  <2>. HIDE DEF T, top
  <2>. QED
    BY <1>4, <1>5
<1>. HIDE DEF T, top
<1>10. NextId(s) \in 0 .. IdWord - 1
  <2>1. top + 1 \in Nat /\ IdWord \in Nat \ {0}
    BY <1>1, <1>6
  <2>. HIDE DEF NextId
  <2>. QED
    BY <1>7, <2>1
<1>11. ASSUME IdWord - 1 \notin Ids(s)
       PROVE  /\ \A id \in Ids(s) : id < NextId(s)
              /\ FirstId <= NextId(s)
              /\ NextId(s) = FirstId \/ NextId(s) - 1 \in Ids(s)
  <2>1. top # IdWord - 1
    BY <1>1, <1>8, <1>11
  <2>2. top + 1 \in 0 .. IdWord - 1
    BY <1>1, <1>6, <2>1
  <2>3. NextId(s) = top + 1
    <3>1. \A m \in 0 .. IdWord - 1 : m % IdWord = m
      BY <1>1
    <3>. QED
      BY <1>7, <2>2, <3>1
  <2>4. NextId(s) - 1 = top
    BY <1>6, <2>3
  <2>5. \A id \in Ids(s) : id < NextId(s)
    <3>. TAKE id \in Ids(s)
    <3>1. id \in 0 .. IdWord - 1 /\ id <= top
      BY <1>2, <1>9
    <3>. QED
      BY <1>1, <1>6, <2>3, <3>1
  <2>. QED
    BY <1>1, <1>6, <1>8, <2>3, <2>4, <2>5
<1>. QED
  BY <1>2, <1>10, <1>11

\* An id of a line is one of Ids.
LEMMA IdIsThere ==
  ASSUME NEW s, NEW i \in DOMAIN s, s[i] # Junk, s[i].id # BadId
  PROVE  s[i].id \in Ids(s)
BY DEF Ids

LEMMA IdHasLine ==
  ASSUME NEW s, NEW id \in Ids(s)
  PROVE  \E i \in DOMAIN s : s[i] # Junk /\ s[i].id = id
BY DEF Ids

LEMMA IdsAscendGrows ==
  ASSUME NEW s \in Seq(IdLines \cup {Junk}), IdsAscend(s), NEW l \in IdLines, l.id = NextId(s)
  PROVE  IdsAscend(Append(s, l))
<1>. DEFINE r == Append(s, l)
            N == Len(s)
<1>1. /\ N \in Nat /\ DOMAIN r = 1 .. N + 1 /\ r[N + 1] = l /\ DOMAIN s = 1 .. N
      /\ \A i \in 1 .. N : r[i] = s[i]
  OBVIOUS
<1>. HIDE DEF r, N
<1>2. SUFFICES ASSUME NEW i \in DOMAIN r, NEW j \in DOMAIN r, i < j, Junk \notin {r[i], r[j]},
                      r[i].id # BadId, r[i].id = r[j].id
               PROVE  \E k \in 1 .. j - 1 : r[k] # Junk /\ r[k].id = IdWord - 1
  BY DEF IdsAscend, r
<1>3. i \in 1 .. N /\ r[i] = s[i]
  BY <1>1, <1>2
<1>4. CASE j \in 1 .. N
  <2>1. r[j] = s[j]
    BY <1>1, <1>4
  <2>2. \E k \in 1 .. j - 1 : s[k] # Junk /\ s[k].id = IdWord - 1
    BY <1>1, <1>2, <1>3, <1>4, <2>1 DEF IdsAscend
  <2>3. \A k \in 1 .. j - 1 : r[k] = s[k]
    BY <1>1, <1>4
  <2>. QED
    BY <2>2, <2>3
<1>5. CASE j = N + 1
  <2>1. s[i].id = NextId(s) /\ s[i].id \in Ids(s)
    BY <1>1, <1>2, <1>3, <1>5, IdIsThere
  <2>2. NextId(s) \in 0 .. IdWord - 1
    BY NextIdIs
  <2>3. IdWord - 1 \in Ids(s)
    <3>1. ASSUME IdWord - 1 \notin Ids(s) PROVE FALSE
      <4>1. \A id \in Ids(s) : id < NextId(s)
        BY <3>1, NextIdIs
      <4>2. NextId(s) < NextId(s)
        BY <2>1, <4>1
      <4>3. NextId(s) \in Nat
        BY <2>2
      <4>. QED
        BY ONLY <4>2, <4>3
    <3>. QED
      BY <3>1
  <2>4. PICK k \in DOMAIN s : s[k] # Junk /\ s[k].id = IdWord - 1
    BY <2>3, IdHasLine
  <2>5. k \in 1 .. j - 1 /\ r[k] = s[k]
    BY <1>1, <1>5, <2>4
  <2>. QED
    BY <2>4, <2>5
<1>. QED
  BY <1>1, <1>2, <1>4, <1>5

LEMMA IdsAscendCut ==
  ASSUME NEW s \in Seq(IdLines \cup {Junk}), IdsAscend(s), NEW c \in 0 .. Len(s) - 1
  PROVE  IdsAscend(Cut(s, c))
<1>. DEFINE r == Cut(s, c)
<1>1. /\ c \in Nat /\ DOMAIN r = 1 .. c + 1 /\ r[c + 1] = Junk /\ DOMAIN s = 1 .. Len(s) /\ c + 1 \in 1 .. Len(s)
      /\ \A i \in 1 .. c : r[i] = s[i]
  <2>1. /\ r \in Seq(IdLines \cup {Junk}) /\ Len(r) = c + 1 /\ r[c + 1] = Junk
        /\ \A i \in 1 .. c : r[i] = s[i]
    BY CutIs
  <2>2. Len(s) \in Nat /\ DOMAIN s = 1 .. Len(s)
    OBVIOUS
  <2>3. DOMAIN r = 1 .. Len(r)
    BY <2>1
  <2>4. c \in Nat /\ c + 1 \in 1 .. Len(s) /\ c + 1 <= Len(s)
    BY <2>2
  <2>. QED
    BY <2>1, <2>2, <2>3, <2>4
<1>. HIDE DEF r
<1>2. SUFFICES ASSUME NEW i \in DOMAIN r, NEW j \in DOMAIN r, i < j, Junk \notin {r[i], r[j]},
                      r[i].id # BadId, r[i].id = r[j].id
               PROVE  \E k \in 1 .. j - 1 : r[k] # Junk /\ r[k].id = IdWord - 1
  BY DEF IdsAscend, r
<1>3. j # c + 1
  BY <1>1, <1>2
<1>4. i \in 1 .. c /\ j \in 1 .. c /\ r[i] = s[i] /\ r[j] = s[j] /\ i \in DOMAIN s /\ j \in DOMAIN s
  BY <1>1, <1>2, <1>3
<1>5. \E k \in 1 .. j - 1 : s[k] # Junk /\ s[k].id = IdWord - 1
  BY <1>2, <1>4 DEF IdsAscend
<1>6. \A k \in 1 .. j - 1 : r[k] = s[k]
  BY <1>1, <1>4
<1>. QED
  BY <1>5, <1>6

\* Groups have numbers: one for each line at most, from the first on.
LEMMA NextOfCount ==
  ASSUME NEW s \in Seq(IdLines \cup {Junk}), IdsCount(s), Len(s) < FileMax
  PROVE  /\ NextId(s) \in FirstId .. FirstId + Len(s)
         /\ \A i \in DOMAIN s : s[i] # Junk => s[i].id \in Nat /\ s[i].id < NextId(s)
<1>. DEFINE N == Len(s)
<1>1. /\ FirstId \in Nat \ {0} /\ FileMax \in Nat /\ IdWord \in Nat /\ FirstId + FileMax < IdWord
      /\ N \in Nat /\ N < FileMax /\ DOMAIN s = 1 .. N
  BY NumbersAssumption
<1>. HIDE DEF N
<1>2. \A i \in 1 .. N : s[i] # Junk => s[i].id \in FirstId .. FirstId + i - 1
  BY <1>1 DEF IdsCount
<1>3. \A id \in Ids(s) : id \in FirstId .. FirstId + N - 1
  <2>. TAKE id \in Ids(s)
  <2>1. PICK i \in 1 .. N : s[i] # Junk /\ s[i].id = id
    BY <1>1, IdHasLine
  <2>. QED
    BY <1>1, <1>2, <2>1
<1>4. IdWord - 1 \notin Ids(s)
  BY <1>1, <1>3
<1>5. /\ \A id \in Ids(s) : id < NextId(s)
      /\ FirstId <= NextId(s) /\ NextId(s) \in 0 .. IdWord - 1
      /\ NextId(s) = FirstId \/ NextId(s) - 1 \in Ids(s)
  BY <1>4, NextIdIs
<1>6. NextId(s) \in FirstId .. FirstId + N
  <2>. HIDE DEF NextId
  <2>1. CASE NextId(s) = FirstId
    BY <1>1, <2>1
  <2>2. CASE NextId(s) - 1 \in Ids(s)
    BY <1>1, <1>3, <1>5, <2>2
  <2>. QED
    BY <1>5, <2>1, <2>2
<1>7. ASSUME NEW i \in 1 .. N, s[i] # Junk PROVE s[i].id \in Nat /\ s[i].id < NextId(s)
  <2>1. s[i].id \in Nat
    BY <1>1, <1>2, <1>7
  <2>2. s[i].id \in Ids(s)
    BY <1>1, <1>7, <2>1, IdIsThere, MarksAssumption
  <2>. QED
    BY <1>5, <2>1, <2>2
<1>. QED
  BY <1>1, <1>6, <1>7 DEF N

LEMMA IdsCountGrows ==
  ASSUME NEW s \in Seq(IdLines \cup {Junk}), IdsCount(s), NEW l \in IdLines, l.id = NextId(s),
         Fits(Append(s, l))
  PROVE  IdsCount(Append(s, l))
<1>. DEFINE r == Append(s, l)
            N == Len(s)
<1>1. /\ N \in Nat /\ DOMAIN r = 1 .. N + 1 /\ Len(r) = N + 1 /\ r[N + 1] = l /\ DOMAIN s = 1 .. N
      /\ \A i \in 1 .. N : r[i] = s[i]
  OBVIOUS
<1>2. FileMax \in Nat /\ FirstId \in Nat
  BY NumbersAssumption
<1>3. N + 1 <= FileMax
  BY <1>1 DEF Fits
<1>4. /\ NextId(s) \in FirstId .. FirstId + N
      /\ \A i \in DOMAIN s : s[i] # Junk => s[i].id \in Nat /\ s[i].id < NextId(s)
  <2>1. Len(s) < FileMax
    BY <1>1, <1>2, <1>3
  <2>. QED
    BY <2>1, NextOfCount
<1>. HIDE DEF r, N
<1>5. ASSUME NEW i \in 1 .. N + 1, r[i] # Junk PROVE r[i].id \in FirstId .. FirstId + i - 1
  <2>1. CASE i \in 1 .. N
    BY <1>1, <1>5, <2>1 DEF IdsCount
  <2>2. CASE i = N + 1
    <3>1. r[i].id = NextId(s) /\ FirstId + i - 1 = FirstId + N
      BY <1>1, <1>2, <2>2
    <3>. QED
      BY <1>4, <3>1
  <2>. QED
    BY <1>1, <2>1, <2>2
<1>6. ASSUME NEW i \in 1 .. N + 1, NEW j \in 1 .. N + 1, i < j, Junk \notin {r[i], r[j]}
      PROVE  r[i].id < r[j].id
  <2>1. i \in 1 .. N /\ r[i] = s[i]
    BY <1>1, <1>6
  <2>2. CASE j \in 1 .. N
    BY <1>1, <1>6, <2>1, <2>2 DEF IdsCount
  <2>3. CASE j = N + 1
    BY <1>1, <1>4, <1>6, <2>1, <2>3
  <2>. QED
    BY <1>1, <2>2, <2>3
<1>7. Len(r) <= FileMax
  BY <1>1, <1>3
<1>8. IdsCount(r)
  BY <1>1, <1>5, <1>6, <1>7 DEF IdsCount
<1>. QED
  BY <1>8 DEF r

LEMMA IdsCountCut ==
  ASSUME NEW s \in Seq(IdLines \cup {Junk}), IdsCount(s), NEW c \in 0 .. Len(s) - 1
  PROVE  IdsCount(Cut(s, c))
<1>. DEFINE r == Cut(s, c)
<1>1. /\ c \in Nat /\ DOMAIN r = 1 .. c + 1 /\ Len(r) = c + 1 /\ r[c + 1] = Junk
      /\ DOMAIN s = 1 .. Len(s) /\ c + 1 <= Len(s) /\ Len(s) \in Nat
      /\ \A i \in 1 .. c : r[i] = s[i]
  <2>1. /\ r \in Seq(IdLines \cup {Junk}) /\ Len(r) = c + 1 /\ r[c + 1] = Junk
        /\ \A i \in 1 .. c : r[i] = s[i]
    BY CutIs
  <2>2. Len(s) \in Nat /\ DOMAIN s = 1 .. Len(s)
    OBVIOUS
  <2>3. DOMAIN r = 1 .. Len(r)
    BY <2>1
  <2>4. c \in Nat /\ c + 1 \in 1 .. Len(s) /\ c + 1 <= Len(s)
    BY <2>2
  <2>. QED
    BY <2>1, <2>2, <2>3, <2>4
<1>. HIDE DEF r
<1>2. ASSUME NEW i \in 1 .. c + 1, r[i] # Junk PROVE i \in 1 .. c /\ i \in DOMAIN s /\ r[i] = s[i]
  BY <1>1, <1>2
<1>3. Len(r) <= FileMax
  BY <1>1, NumbersAssumption DEF IdsCount
<1>4. \A i \in 1 .. c + 1 : r[i] # Junk => r[i].id \in FirstId .. FirstId + i - 1
  BY <1>2 DEF IdsCount
<1>5. \A i, j \in 1 .. c + 1 : i < j /\ Junk \notin {r[i], r[j]} => r[i].id < r[j].id
  <2>. TAKE i, j \in 1 .. c + 1
  <2>. HAVE i < j /\ Junk \notin {r[i], r[j]}
  <2>1. i \in DOMAIN s /\ j \in DOMAIN s /\ r[i] = s[i] /\ r[j] = s[j]
    BY <1>2
  <2>. QED
    BY <2>1 DEF IdsCount
<1>6. IdsCount(r)
  BY <1>1, <1>3, <1>4, <1>5 DEF IdsCount
<1>. QED
  BY <1>6 DEF r

----------------------------------------------------------------------------
(* Every call keeps the files and the kernel's accounts sound. *)

FilesKept(u, p, s, g) ==
    /\ u \in FileOf(UserLines) /\ p \in FileOf(IdLines) /\ s \in FileOf(SecretLines) /\ g \in FileOf(IdLines)
    /\ IdsAscend(Lines(p)) /\ IdsCount(Lines(g))

KernelKept(k, t, who) ==
    /\ k \in [People -> KernelAccounts \cup {Unset}] /\ t \in [People -> TypedKeys \cup {Unset}]
    /\ who \in People \cup {Unset} /\ (who # Unset => k[who] # Unset)
    /\ \A n \in People : t[n] # Unset => k[n] # Unset /\ k[n].password = PasswdLine(t[n])

LEMMA InvIs ==
  AccountsInv <=> FilesKept(users, passwd, shadow, group) /\ KernelKept(kernel, typed, session)
BY DEF AccountsInv, TypeOfAccounts, TypedIsKept, FilesKept, KernelKept

LEMMA InvIsNext ==
  AccountsInv' <=> FilesKept(users', passwd', shadow', group') /\ KernelKept(kernel', typed', session')
BY DEF AccountsInv, TypeOfAccounts, TypedIsKept, FilesKept, KernelKept

LEMMA UnsetIsApart ==
  /\ Unset \notin UserLines \cup {Junk} /\ Unset \notin IdLines \cup {Junk} /\ Unset \notin SecretLines \cup {Junk}
  /\ Unset \notin KernelAccounts /\ Unset \notin TypedKeys /\ Unset \notin People
BY MarksAssumption, KernelAssumption, PeopleAssumption

\* A found account is a line of users.db under its name.
LEMMA FoundIs ==
  ASSUME users \in FileOf(UserLines), NEW n, UserFind(n) # Unset
  PROVE  /\ UserFind(n) \in UserLines /\ UserFind(n).name = n
         /\ DbLoads /\ UserFind(n) = First(Lines(users), n) /\ Of(Lines(users), n) # {}
<1>1. DbLoads /\ UserFind(n) = First(users.lines, n) /\ users # Missing
  BY DEF UserFind, DbLoads
<1>2. users.lines \in Seq(UserLines \cup {Junk}) /\ Lines(users) = users.lines
  BY <1>1, FileHolds
<1>3. First(users.lines, n) \in UserLines \cup {Junk} /\ First(users.lines, n) # Junk
      /\ First(users.lines, n).name = n /\ Of(users.lines, n) # {}
  BY <1>1, <1>2, UnsetIsApart, FirstIsThere
<1>. QED
  BY <1>1, <1>2, <1>3

LEMMA RewriteIs ==
  ASSUME users \in FileOf(UserLines), NEW n, NEW new \in UserLines \cup {Unset}, new # Unset => new.name = n,
         NEW ok, RewriteWith(n, new, ok)
  PROVE  /\ users' \in FileOf(UserLines)
         /\ ok => /\ DbLoads /\ Of(Lines(users), n) # {} /\ users' = File(Lines(users'))
                  /\ new = Unset => Lines(users') = Without(Lines(users), n)
                  /\ new # Unset => Lines(users') = Replaced(Lines(users), n, new)
<1>1. CASE DbLoads /\ Of(users.lines, n) # {}
  <2>1. users # Missing
    BY <1>1 DEF DbLoads
  <2>2. users.lines \in Seq(UserLines \cup {Junk}) /\ Lines(users) = users.lines
    BY <2>1, FileHolds
  <2>3. UserLines \subseteq AllLines
    BY DEF AllLines
  <2>. DEFINE s == Rewritten(n, new)
  <2>4. s = IF new = Unset THEN Without(users.lines, n) ELSE Replaced(users.lines, n, new)
    BY DEF Rewritten, Replaced
  <2>5. s \in Seq(UserLines \cup {Junk})
    <3>1. CASE new = Unset
      BY <2>2, <2>4, <3>1, UnsetIsApart, FirstOfWithout
    <3>2. CASE new # Unset
      <4>1. LineOf(UserLines \cup {Junk}, new, n)
        BY <3>2, MarksAssumption DEF LineOf
      <4>2. Replaced(users.lines, n, new) \in Seq(UserLines \cup {Junk})
        BY <2>2, <3>2, <4>1, UnsetIsApart, FirstOfReplaced
      <4>. QED
        BY <2>4, <3>2, <4>2
    <3>. QED
      BY <3>1, <3>2
  <2>6. users' \in Outcomes(ok, users, s)
    BY <1>1 DEF RewriteWith
  <2>. HIDE DEF s
  <2>7. /\ users' \in FileOf(UserLines)
        /\ ok => users' = File(s) /\ Lines(users') = s
    <3>1. PICK u : u = users'
      OBVIOUS
    <3>2. /\ u \in FileOf(UserLines)
          /\ ok => u = File(s) /\ Lines(u) = s /\ u # Missing /\ u.ended = TRUE
      <4>1. u \in Outcomes(ok, users, s) /\ users \in FileOf(UserLines)
        BY <2>6, <3>1
      <4>. QED
        BY <2>3, <2>5, <4>1, OutcomeIs, Zenon
    <3>. QED
      BY <3>1, <3>2
  <2>. QED
    BY <1>1, <2>2, <2>4, <2>7
<1>2. CASE ~(DbLoads /\ Of(users.lines, n) # {})
  BY <1>2 DEF RewriteWith
<1>. QED
  BY <1>1, <1>2

LEMMA UsersKept ==
  ASSUME AccountsInv, users' \in FileOf(UserLines),
         UNCHANGED <<passwd, shadow, group, kernel, session, typed>>
  PROVE  AccountsInv'
<1>1. FilesKept(users, passwd, shadow, group) /\ KernelKept(kernel, typed, session)
  BY InvIs
<1>2. FilesKept(users', passwd', shadow', group')
  BY <1>1 DEF FilesKept
<1>3. KernelKept(kernel', typed', session')
  BY <1>1
<1>. QED
  BY <1>2, <1>3, InvIsNext

\* The account a becomes n's, and w the keys that were typed for it.
LEMMA AccountIsPut ==
  ASSUME NEW k, NEW t, NEW who, KernelKept(k, t, who), NEW n \in People, NEW a \in KernelAccounts,
         NEW w \in TypedKeys \cup {Unset}, w # Unset => a.password = PasswdLine(w)
  PROVE  KernelKept([k EXCEPT ![n] = a], [t EXCEPT ![n] = w], who)
<1>1. a # Unset
  BY KernelAssumption
<1>2. /\ k \in [People -> KernelAccounts \cup {Unset}] /\ t \in [People -> TypedKeys \cup {Unset}]
      /\ who \in People \cup {Unset} /\ (who # Unset => k[who] # Unset)
      /\ \A m \in People : t[m] # Unset => k[m] # Unset /\ k[m].password = PasswdLine(t[m])
  BY DEF KernelKept
<1>. DEFINE k1 == [k EXCEPT ![n] = a]
            t1 == [t EXCEPT ![n] = w]
<1>3. /\ k1 \in [People -> KernelAccounts \cup {Unset}] /\ t1 \in [People -> TypedKeys \cup {Unset}]
      /\ \A m \in People : k1[m] = IF m = n THEN a ELSE k[m]
      /\ \A m \in People : t1[m] = IF m = n THEN w ELSE t[m]
  BY <1>2
<1>. HIDE DEF k1, t1
<1>4. who # Unset => k1[who] # Unset
  BY <1>1, <1>2, <1>3
<1>5. \A m \in People : t1[m] # Unset => k1[m] # Unset /\ k1[m].password = PasswdLine(t1[m])
  BY <1>1, <1>2, <1>3
<1>6. KernelKept(k1, t1, who)
  BY <1>2, <1>3, <1>4, <1>5 DEF KernelKept
<1>. QED
  BY <1>6 DEF k1, t1

LEMMA AccountIsKept ==
  ASSUME NEW k, NEW t, NEW who, KernelKept(k, t, who), NEW n \in People, NEW a \in KernelAccounts,
         t[n] # Unset => a.password = PasswdLine(t[n])
  PROVE  KernelKept([k EXCEPT ![n] = a], t, who)
<1>1. t \in [People -> TypedKeys \cup {Unset}]
  BY DEF KernelKept
<1>2. t[n] \in TypedKeys \cup {Unset} /\ [t EXCEPT ![n] = t[n]] = t
  BY <1>1
<1>3. KernelKept([k EXCEPT ![n] = a], [t EXCEPT ![n] = t[n]], who)
  BY <1>2, AccountIsPut
<1>. QED
  BY <1>2, <1>3

LEMMA KernelIsKept ==
  ASSUME AccountsInv, KernelKept(kernel', typed', session'), UNCHANGED <<users, passwd, shadow, group>>
  PROVE  AccountsInv'
<1>1. FilesKept(users, passwd, shadow, group)
  BY InvIs
<1>. QED
  BY <1>1, InvIsNext

LEMMA CreateIsSound == AccountsInv /\ UserCreate => AccountsInv'
<1>. SUFFICES ASSUME AccountsInv, UserCreate PROVE AccountsInv'
  OBVIOUS
<1>. DEFINE db == IF users = Missing THEN File(<<>>) ELSE users
            Entry0(n, p, role) == [name |-> n, role |-> role, hash |-> Sha256(p), home |-> "own"]
<1>1. PICK n \in People, p \in Passwords, role \in {"admin", "user"}, existing \in BOOLEAN, ok \in BOOLEAN :
         \/ /\ kernel[n] = Unset /\ kernel' = [kernel EXCEPT ![n] = [password |-> p, role |-> role]]
            /\ UNCHANGED users
         \/ UNCHANGED <<users, kernel>>
         \/ /\ IF ok THEN users' = Appended(db, Entry0(n, p, role)) ELSE users' \in {users, db}
            /\ UNCHANGED kernel
  BY ZenonT(60) DEF UserCreate
<1>2. UNCHANGED <<passwd, shadow, group, session, typed>>
  BY ZenonT(60) DEF UserCreate
<1>3. FilesKept(users, passwd, shadow, group) /\ KernelKept(kernel, typed, session)
  BY InvIs
<1>4. CASE /\ kernel[n] = Unset /\ kernel' = [kernel EXCEPT ![n] = [password |-> p, role |-> role]]
           /\ UNCHANGED users
  <2>1. [password |-> p, role |-> role] \in KernelAccounts
    BY DEF KernelAccounts
  <2>2. typed[n] = Unset
    BY <1>3, <1>4 DEF KernelKept
  <2>3. KernelKept([kernel EXCEPT ![n] = [password |-> p, role |-> role]], typed, session)
    BY <1>3, <2>1, <2>2, AccountIsKept
  <2>. QED
    BY <1>2, <1>4, <2>3, KernelIsKept
<1>5. CASE UNCHANGED <<users, kernel>>
  BY <1>2, <1>3, <1>5, KernelIsKept
<1>6. CASE /\ IF ok THEN users' = Appended(db, Entry0(n, p, role)) ELSE users' \in {users, db}
           /\ UNCHANGED kernel
  <2>1. users \in FileOf(UserLines)
    BY <1>3 DEF FilesKept
  <2>2. db \in FileOf(UserLines) /\ db # Missing
    <3>1. <<>> \in Seq(UserLines \cup {Junk}) /\ UserLines \subseteq AllLines
      BY DEF AllLines
    <3>2. File(<<>>) \in FileOf(UserLines) /\ File(<<>>) # Missing
      BY <3>1, LinesOfFile DEF File
    <3>. QED
      BY <2>1, <3>2
  <2>3. Entry0(n, p, role) \in UserLines
    BY DEF UserLines
  <2>. HIDE DEF db, Entry0
  <2>4. Appended(db, Entry0(n, p, role)) \in FileOf(UserLines)
    BY <2>2, <2>3, AppendedIs
  <2>5. users' \in FileOf(UserLines)
    BY <1>6, <2>1, <2>2, <2>4
  <2>. QED
    BY <1>2, <1>6, <2>5, UsersKept
<1>. QED
  BY <1>1, <1>4, <1>5, <1>6

LEMMA ChangeIsSound == AccountsInv /\ UserChangePassword => AccountsInv'
<1>. SUFFICES ASSUME AccountsInv, UserChangePassword PROVE AccountsInv'
  OBVIOUS
<1>1. PICK n \in People, p \in Passwords, ok \in BOOLEAN :
         IF UserFind(n) = Unset THEN ~ok /\ UNCHANGED users
         ELSE RewriteWith(n, [UserFind(n) EXCEPT !.hash = Sha256(p)], ok)
  BY DEF UserChangePassword
<1>2. UNCHANGED <<passwd, shadow, group, kernel, session, typed>>
  BY DEF UserChangePassword
<1>3. users \in FileOf(UserLines)
  BY DEF AccountsInv, TypeOfAccounts
<1>4. users' \in FileOf(UserLines)
  <2>1. CASE UserFind(n) = Unset
    BY <1>1, <1>3, <2>1
  <2>2. CASE UserFind(n) # Unset
    <3>. DEFINE e == [UserFind(n) EXCEPT !.hash = Sha256(p)]
    <3>1. UserFind(n) \in UserLines /\ UserFind(n).name = n
      BY <1>3, <2>2, FoundIs
    <3>2. e \in UserLines /\ e.name = n
      BY <3>1 DEF UserLines
    <3>3. RewriteWith(n, e, ok)
      BY <1>1, <2>2
    <3>. HIDE DEF e
    <3>. QED
      BY <1>3, <3>2, <3>3, RewriteIs
  <2>. QED
    BY <2>1, <2>2
<1>. QED
  BY <1>2, <1>4, UsersKept

LEMMA RoleIsSound == AccountsInv /\ UserSetRole => AccountsInv'
<1>. SUFFICES ASSUME AccountsInv, UserSetRole PROVE AccountsInv'
  OBVIOUS
<1>1. FilesKept(users, passwd, shadow, group) /\ KernelKept(kernel, typed, session)
  BY InvIs
<1>2. users \in FileOf(UserLines)
  BY <1>1 DEF FilesKept
<1>3. PICK n \in People, role \in {"admin", "user"}, ok \in BOOLEAN :
         \/ UNCHANGED <<users, passwd, shadow, group, kernel, session, typed>>
         \/ /\ kernel[n] # Unset /\ kernel' = [kernel EXCEPT ![n].role = role]
            /\ UNCHANGED <<users, passwd, shadow, group, session, typed>>
         \/ /\ UserFind(n) # Unset /\ RewriteWith(n, [UserFind(n) EXCEPT !.role = role], ok)
            /\ UNCHANGED <<passwd, shadow, group, kernel, session, typed>>
  BY DEF UserSetRole
<1>4. CASE UNCHANGED <<users, passwd, shadow, group, kernel, session, typed>>
  BY <1>1, <1>4, KernelIsKept
<1>5. CASE /\ kernel[n] # Unset /\ kernel' = [kernel EXCEPT ![n].role = role]
           /\ UNCHANGED <<users, passwd, shadow, group, session, typed>>
  <2>. DEFINE a == [kernel[n] EXCEPT !.role = role]
  <2>1. kernel[n] \in KernelAccounts
    BY <1>1, <1>5 DEF KernelKept
  <2>2. a \in KernelAccounts /\ a.password = kernel[n].password
    BY <2>1 DEF KernelAccounts
  <2>3. kernel' = [kernel EXCEPT ![n] = a]
    BY <1>5
  <2>4. typed[n] # Unset => kernel[n].password = PasswdLine(typed[n])
    BY <1>1 DEF KernelKept
  <2>. HIDE DEF a
  <2>5. KernelKept([kernel EXCEPT ![n] = a], typed, session)
    BY <1>1, <2>2, <2>4, AccountIsKept
  <2>. QED
    BY <1>5, <2>3, <2>5, KernelIsKept
<1>6. CASE /\ UserFind(n) # Unset /\ RewriteWith(n, [UserFind(n) EXCEPT !.role = role], ok)
           /\ UNCHANGED <<passwd, shadow, group, kernel, session, typed>>
  <2>. DEFINE e == [UserFind(n) EXCEPT !.role = role]
  <2>1. UserFind(n) \in UserLines /\ UserFind(n).name = n
    BY <1>2, <1>6, FoundIs
  <2>2. e \in UserLines /\ e.name = n
    BY <2>1 DEF UserLines
  <2>3. RewriteWith(n, e, ok)
    BY <1>6
  <2>. HIDE DEF e
  <2>4. users' \in FileOf(UserLines)
    BY <1>2, <2>2, <2>3, RewriteIs
  <2>. QED
    BY <1>6, <2>4, UsersKept
<1>. QED
  BY <1>3, <1>4, <1>5, <1>6

LEMMA RemoveIsSound == AccountsInv /\ UserRemove => AccountsInv'
<1>. SUFFICES ASSUME AccountsInv, UserRemove PROVE AccountsInv'
  OBVIOUS
<1>1. FilesKept(users, passwd, shadow, group) /\ KernelKept(kernel, typed, session)
  BY InvIs
<1>2. PICK n \in People, ok \in BOOLEAN :
         \/ UNCHANGED <<users, passwd, shadow, group, kernel, session, typed>>
         \/ /\ n # session /\ kernel' = [kernel EXCEPT ![n] = Unset] /\ typed' = [typed EXCEPT ![n] = Unset]
            /\ UNCHANGED <<users, passwd, shadow, group, session>>
         \/ RewriteWith(n, Unset, ok) /\ UNCHANGED <<passwd, shadow, group, kernel, session, typed>>
  BY DEF UserRemove
<1>3. CASE UNCHANGED <<users, passwd, shadow, group, kernel, session, typed>>
  BY <1>1, <1>3, KernelIsKept
<1>4. CASE /\ n # session /\ kernel' = [kernel EXCEPT ![n] = Unset] /\ typed' = [typed EXCEPT ![n] = Unset]
           /\ UNCHANGED <<users, passwd, shadow, group, session>>
  <2>1. /\ kernel \in [People -> KernelAccounts \cup {Unset}] /\ typed \in [People -> TypedKeys \cup {Unset}]
        /\ session \in People \cup {Unset} /\ (session # Unset => kernel[session] # Unset)
        /\ \A m \in People : typed[m] # Unset => kernel[m] # Unset /\ kernel[m].password = PasswdLine(typed[m])
    BY <1>1 DEF KernelKept
  <2>2. /\ kernel' \in [People -> KernelAccounts \cup {Unset}] /\ typed' \in [People -> TypedKeys \cup {Unset}]
        /\ \A m \in People : kernel'[m] = IF m = n THEN Unset ELSE kernel[m]
        /\ \A m \in People : typed'[m] = IF m = n THEN Unset ELSE typed[m]
    BY <1>4, <2>1
  <2>3. KernelKept(kernel', typed', session')
    BY <1>4, <2>1, <2>2 DEF KernelKept
  <2>. QED
    BY <1>4, <2>3, KernelIsKept
<1>5. CASE RewriteWith(n, Unset, ok) /\ UNCHANGED <<passwd, shadow, group, kernel, session, typed>>
  <2>1. users \in FileOf(UserLines)
    BY <1>1 DEF FilesKept
  <2>2. users' \in FileOf(UserLines)
    BY <1>5, <2>1, RewriteIs
  <2>. QED
    BY <1>5, <2>2, UsersKept
<1>. QED
  BY <1>2, <1>3, <1>4, <1>5

LEMMA ShadowIsKept ==
  ASSUME AccountsInv, shadow' \in FileOf(SecretLines),
         UNCHANGED <<users, passwd, group, kernel, session, typed>>
  PROVE  AccountsInv'
<1>1. FilesKept(users, passwd, shadow, group) /\ KernelKept(kernel, typed, session)
  BY InvIs
<1>2. FilesKept(users', passwd', shadow', group')
  BY <1>1 DEF FilesKept
<1>3. KernelKept(kernel', typed', session')
  BY <1>1
<1>. QED
  BY <1>2, <1>3, InvIsNext

\* A file that is written back is the old one, or the new lines, or some of them.
LEMMA WrittenBack ==
  ASSUME NEW E, E \subseteq AllLines, NEW f \in FileOf(E), NEW s \in Seq(E \cup {Junk}), NEW ok,
         NEW g \in WriteBack(f, s, ok)
  PROVE  /\ g \in FileOf(E)
         /\ g = f \/ (Fits(s) /\ (Lines(g) = s \/ \E k \in 0 .. Len(s) - 1 : Lines(g) = Cut(s, k)))
         /\ ok => g = File(s) /\ Lines(g) = s /\ Fits(s)
<1>1. CASE g = f /\ ~ok
  BY <1>1
<1>2. CASE Fits(s) /\ g \in Outcomes(ok, f, s)
  <2>1. /\ g \in FileOf(E)
        /\ g = f \/ Lines(g) = s \/ \E k \in 0 .. Len(s) - 1 : Lines(g) = Cut(s, k)
        /\ ok => g = File(s) /\ Lines(g) = s /\ g # Missing /\ g.ended = TRUE
    BY <1>2, OutcomeIs, Zenon
  <2>. QED
    BY <1>2, <2>1
<1>3. (g = f /\ ~ok) \/ (Fits(s) /\ g \in Outcomes(ok, f, s))
  BY DEF WriteBack
<1>. QED
  BY <1>1, <1>2, <1>3

\* What set_password makes of the lines of shadow.
SecretPut(s, n, l) == IF Of(s, n) = {} THEN Append(s, l) ELSE Replaced(s, n, l)

LEMMA SecretPutIs ==
  ASSUME NEW s \in Seq(SecretLines \cup {Junk}), NEW n, NEW l \in SecretLines, l.name = n
  PROVE  SecretPut(s, n, l) \in Seq(SecretLines \cup {Junk})
<1>1. l # Junk /\ l \in SecretLines \cup {Junk}
  BY MarksAssumption
<1>2. Replaced(s, n, l) \in Seq(SecretLines \cup {Junk})
  <2>1. LineOf(SecretLines \cup {Junk}, l, n)
    BY <1>1 DEF LineOf
  <2>. QED
    BY <2>1, UnsetIsApart, FirstOfReplaced
<1>3. Append(s, l) \in Seq(SecretLines \cup {Junk})
  BY <1>1
<1>. QED
  BY <1>2, <1>3 DEF SecretPut

\* The lines it has read: those of n, and nothing of the others.
LEMMA NamesOnlyIs ==
  ASSUME NEW E, NEW s \in Seq(E \cup {Junk}), NEW n
  PROVE  /\ NamesOnly(s, n) \in Seq(E \cup {Junk})
         /\ \A m : m # n => First(NamesOnly(s, n), m) = Unset
<1>1. /\ DOMAIN NamesOnly(s, n) = DOMAIN s
      /\ \A i \in DOMAIN s : NamesOnly(s, n)[i] = IF i \in Of(s, n) THEN s[i] ELSE Junk
  BY DEF NamesOnly
<1>2. NamesOnly(s, n) \in Seq(E \cup {Junk})
  BY DEF NamesOnly
<1>3. ASSUME NEW m, m # n PROVE Of(NamesOnly(s, n), m) = {}
  BY <1>1, <1>3 DEF Of
<1>. QED
  BY <1>2, <1>3 DEF First

LEMMA SetPasswordIsSound == AccountsInv /\ SetPassword => AccountsInv'
<1>. SUFFICES ASSUME AccountsInv, SetPassword PROVE AccountsInv'
  OBVIOUS
<1>1. PICK n \in People, p \in Passwords, ok \in BOOLEAN :
         shadow' \in WriteBack(shadow, SecretPut(NamesOnly(Read(shadow), n), n, [name |-> n, hash |-> Fnv1a(p)]), ok)
  BY DEF SetPassword, SecretPut, Replaced
<1>2. UNCHANGED <<users, passwd, group, kernel, session, typed>>
  BY DEF SetPassword
<1>. DEFINE l == [name |-> n, hash |-> Fnv1a(p)]
<1>3. l \in SecretLines /\ l.name = n
  BY DEF SecretLines
<1>4. shadow \in FileOf(SecretLines) /\ SecretLines \subseteq AllLines
  BY DEF AccountsInv, TypeOfAccounts, AllLines
<1>. HIDE DEF l
<1>5. NamesOnly(Read(shadow), n) \in Seq(SecretLines \cup {Junk})
  BY <1>4, ReadIsLines, NamesOnlyIs
<1>6. SecretPut(NamesOnly(Read(shadow), n), n, l) \in Seq(SecretLines \cup {Junk})
  BY <1>3, <1>5, SecretPutIs
<1>7. shadow' \in WriteBack(shadow, SecretPut(NamesOnly(Read(shadow), n), n, l), ok)
  BY <1>1 DEF l
<1>8. shadow' \in FileOf(SecretLines)
  BY <1>4, <1>6, <1>7, WrittenBack, Zenon
<1>. QED
  BY <1>2, <1>8, ShadowIsKept

\* passwd and group only get lines with the next id.
LEMMA IdFileGrows ==
  ASSUME NEW f \in FileOf(IdLines), NEW l \in IdLines, l.id = NextId(Read(f)), NEW ok,
         NEW g \in WriteBack(f, Append(Read(f), l), ok)
  PROVE  /\ g \in FileOf(IdLines)
         /\ IdsAscend(Lines(f)) => IdsAscend(Lines(g))
         /\ IdsCount(Lines(f)) => IdsCount(Lines(g))
<1>. DEFINE s == Lines(f)
            r == Append(Read(f), l)
<1>1. Read(f) \in Seq(IdLines \cup {Junk}) /\ s \in Seq(IdLines \cup {Junk})
  BY ReadIsLines, FileHolds
<1>2. r \in Seq(IdLines \cup {Junk}) /\ IdLines \subseteq AllLines
  BY <1>1 DEF AllLines
<1>3. Fits(r) => Read(f) = s
  BY ReadIsLines
<1>4. g \in WriteBack(f, r, ok)
  OBVIOUS
<1>5. /\ g \in FileOf(IdLines)
      /\ g = f \/ (Fits(r) /\ (Lines(g) = r \/ \E k \in 0 .. Len(r) - 1 : Lines(g) = Cut(r, k)))
  <2>. HIDE DEF r
  <2>1. /\ g \in FileOf(IdLines)
        /\ g = f \/ (Fits(r) /\ (Lines(g) = r \/ \E k \in 0 .. Len(r) - 1 : Lines(g) = Cut(r, k)))
        /\ ok => g = File(r) /\ Lines(g) = r /\ Fits(r)
    BY <1>2, <1>4, WrittenBack, Zenon
  <2>. QED
    BY <2>1
<1>6. ASSUME Fits(r) PROVE r = Append(s, l) /\ l.id = NextId(s)
  BY <1>3, <1>6
<1>. HIDE DEF s, r
<1>7. ASSUME IdsAscend(s) PROVE IdsAscend(Lines(g))
  <2>1. CASE g = f
    BY <1>7, <2>1 DEF s
  <2>2. CASE Fits(r)
    <3>1. IdsAscend(r)
      BY <1>1, <1>6, <1>7, <2>2, IdsAscendGrows
    <3>2. \A k \in 0 .. Len(r) - 1 : IdsAscend(Cut(r, k))
      BY <1>2, <3>1, IdsAscendCut
    <3>. QED
      BY <1>5, <2>1, <3>1, <3>2
  <2>. QED
    BY <1>5, <2>1, <2>2
<1>8. ASSUME IdsCount(s) PROVE IdsCount(Lines(g))
  <2>1. CASE g = f
    BY <1>8, <2>1 DEF s
  <2>2. CASE Fits(r)
    <3>1. IdsCount(r)
      BY <1>1, <1>6, <1>8, <2>2, IdsCountGrows
    <3>2. \A k \in 0 .. Len(r) - 1 : IdsCount(Cut(r, k))
      BY <1>2, <3>1, IdsCountCut
    <3>. QED
      BY <1>5, <2>1, <3>1, <3>2
  <2>. QED
    BY <1>5, <2>1, <2>2
<1>. QED
  BY <1>5, <1>7, <1>8 DEF s

LEMMA NewIdLine ==
  ASSUME NEW f \in FileOf(IdLines), NEW n \in People, NEW id, id = NextId(Read(f))
  PROVE  [name |-> n, id |-> id] \in IdLines
<1>1. Read(f) \in Seq(IdLines \cup {Junk})
  BY ReadIsLines
<1>2. id \in 0 .. IdWord - 1
  BY <1>1, NextIdIs
<1>. QED
  BY <1>2 DEF IdLines

LEMMA AddUserIsSound == AccountsInv /\ AddUser => AccountsInv'
<1>. SUFFICES ASSUME AccountsInv, AddUser PROVE AccountsInv'
  OBVIOUS
<1>. DEFINE Entry0(n) == [name |-> n, id |-> NextUid]
            Lock(n) == [name |-> n, hash |-> Locked]
<1>1. PICK n \in People, ok \in BOOLEAN :
         \/ UNCHANGED <<passwd, shadow>>
         \/ passwd' \in WriteBack(passwd, Append(Read(passwd), Entry0(n)), FALSE) /\ UNCHANGED shadow
         \/ /\ passwd' \in WriteBack(passwd, Append(Read(passwd), Entry0(n)), TRUE)
            /\ shadow' \in WriteBack(shadow, Append(Read(shadow), Lock(n)), ok)
  BY DEF AddUser
<1>2. UNCHANGED <<users, group, kernel, session, typed>>
  BY DEF AddUser
<1>3. FilesKept(users, passwd, shadow, group) /\ KernelKept(kernel, typed, session)
  BY InvIs
<1>4. passwd \in FileOf(IdLines) /\ shadow \in FileOf(SecretLines) /\ IdsAscend(Lines(passwd))
  BY <1>3 DEF FilesKept
<1>5. Entry0(n) \in IdLines /\ Entry0(n).id = NextId(Read(passwd))
  <2>1. NextUid = NextId(Read(passwd))
    BY DEF NextUid, NextId
  <2>. QED
    BY <1>4, <2>1, NewIdLine
<1>6. Append(Read(shadow), Lock(n)) \in Seq(SecretLines \cup {Junk}) /\ SecretLines \subseteq AllLines
  <2>1. Read(shadow) \in Seq(SecretLines \cup {Junk})
    BY <1>4, ReadIsLines
  <2>2. Lock(n) \in SecretLines
    BY DEF SecretLines
  <2>. QED
    BY <2>1, <2>2 DEF AllLines
<1>. HIDE DEF Entry0, Lock
<1>7. ASSUME NEW b, passwd' \in WriteBack(passwd, Append(Read(passwd), Entry0(n)), b)
      PROVE  passwd' \in FileOf(IdLines) /\ IdsAscend(Lines(passwd'))
  BY <1>4, <1>5, <1>7, IdFileGrows, Zenon
<1>8. ASSUME shadow' \in WriteBack(shadow, Append(Read(shadow), Lock(n)), ok)
      PROVE  shadow' \in FileOf(SecretLines)
  BY <1>4, <1>6, <1>8, WrittenBack, Zenon
<1>9. passwd' \in FileOf(IdLines) /\ IdsAscend(Lines(passwd')) /\ shadow' \in FileOf(SecretLines)
  <2>1. CASE UNCHANGED <<passwd, shadow>>
    BY <1>4, <2>1
  <2>2. CASE passwd' \in WriteBack(passwd, Append(Read(passwd), Entry0(n)), FALSE) /\ UNCHANGED shadow
    BY <1>4, <1>7, <2>2
  <2>3. CASE /\ passwd' \in WriteBack(passwd, Append(Read(passwd), Entry0(n)), TRUE)
             /\ shadow' \in WriteBack(shadow, Append(Read(shadow), Lock(n)), ok)
    BY <1>7, <1>8, <2>3
  <2>. QED
    BY <1>1, <2>1, <2>2, <2>3
<1>10. FilesKept(users', passwd', shadow', group')
  BY <1>2, <1>3, <1>9 DEF FilesKept
<1>11. KernelKept(kernel', typed', session')
  BY <1>2, <1>3
<1>. QED
  BY <1>10, <1>11, InvIsNext

LEMMA AddGroupIsSound == AccountsInv /\ AddGroup => AccountsInv'
<1>. SUFFICES ASSUME AccountsInv, AddGroup PROVE AccountsInv'
  OBVIOUS
<1>. DEFINE Entry0(n) == [name |-> n, id |-> NextGid]
<1>1. PICK n \in People, ok \in BOOLEAN :
         UNCHANGED group \/ group' \in WriteBack(group, Append(Read(group), Entry0(n)), ok)
  BY DEF AddGroup
<1>2. UNCHANGED <<users, passwd, shadow, kernel, session, typed>>
  BY DEF AddGroup
<1>3. FilesKept(users, passwd, shadow, group) /\ KernelKept(kernel, typed, session)
  BY InvIs
<1>4. group \in FileOf(IdLines) /\ IdsCount(Lines(group))
  BY <1>3 DEF FilesKept
<1>5. Entry0(n) \in IdLines /\ Entry0(n).id = NextId(Read(group))
  <2>1. NextGid = NextId(Read(group))
    BY DEF NextGid, NextId
  <2>. QED
    BY <1>4, <2>1, NewIdLine
<1>. HIDE DEF Entry0
<1>6. group' \in FileOf(IdLines) /\ IdsCount(Lines(group'))
  <2>1. CASE UNCHANGED group
    BY <1>4, <2>1
  <2>2. CASE group' \in WriteBack(group, Append(Read(group), Entry0(n)), ok)
    BY <1>4, <1>5, <2>2, IdFileGrows, Zenon
  <2>. QED
    BY <1>1, <2>1, <2>2
<1>7. FilesKept(users', passwd', shadow', group')
  BY <1>2, <1>3, <1>6 DEF FilesKept
<1>8. KernelKept(kernel', typed', session')
  BY <1>2, <1>3
<1>. QED
  BY <1>7, <1>8, InvIsNext

\* Another user logs in, whom the kernel knows, or no one is left.
LEMMA SessionIsKept ==
  ASSUME AccountsInv, UNCHANGED <<users, passwd, shadow, group, kernel, typed>>,
         session' \in People \cup {Unset}, session' # Unset => kernel[session'] # Unset
  PROVE  AccountsInv'
<1>1. KernelKept(kernel, typed, session)
  BY InvIs
<1>2. KernelKept(kernel', typed', session')
  BY <1>1 DEF KernelKept
<1>. QED
  BY <1>2, KernelIsKept

LEMMA LoginIsSound == AccountsInv /\ Login => AccountsInv'
<1>. SUFFICES ASSUME AccountsInv, Login PROVE AccountsInv'
  OBVIOUS
<1>1. PICK n \in People, keys \in TypedKeys : session' = IF KernelLogin(n, LoginLine(keys)) THEN n ELSE Unset
  BY DEF Login
<1>2. UNCHANGED <<users, passwd, shadow, group, kernel, typed>>
  BY DEF Login
<1>3. KernelLogin(n, LoginLine(keys)) => kernel[n] # Unset
  BY DEF KernelLogin
<1>4. session' \in People \cup {Unset} /\ (session' # Unset => kernel[session'] # Unset)
  BY <1>1, <1>3
<1>. QED
  BY <1>2, <1>4, SessionIsKept

LEMMA SuIsSound == AccountsInv /\ Su => AccountsInv'
<1>. SUFFICES ASSUME AccountsInv, Su PROVE AccountsInv'
  OBVIOUS
<1>1. PICK n \in People, keys \in TypedKeys :
         session' = IF KernelLogin(n, IF SelfRole # "admin" \/ n = Self THEN SuLine(keys) ELSE <<>>)
                    THEN n ELSE session
  BY DEF Su
<1>2. UNCHANGED <<users, passwd, shadow, group, kernel, typed>>
  BY DEF Su
<1>3. \A p : KernelLogin(n, p) => kernel[n] # Unset
  BY DEF KernelLogin
<1>4. session \in People \cup {Unset} /\ (session # Unset => kernel[session] # Unset)
  BY DEF AccountsInv, TypeOfAccounts
<1>5. session' \in People \cup {Unset} /\ (session' # Unset => kernel[session'] # Unset)
  BY <1>1, <1>3, <1>4
<1>. QED
  BY <1>2, <1>5, SessionIsKept

LEMMA LogoutIsSound == AccountsInv /\ Logout => AccountsInv'
BY SessionIsKept DEF Logout

LEMMA UseraddIsSound == AccountsInv /\ Useradd => AccountsInv'
<1>. SUFFICES ASSUME AccountsInv, Useradd PROVE AccountsInv'
  OBVIOUS
<1>1. KernelKept(kernel, typed, session)
  BY InvIs
<1>2. PICK n \in People :
         \/ \E keys \in TypedKeys :
               /\ kernel' = [kernel EXCEPT ![n] = [password |-> UseraddLine(keys), role |-> "user"]]
               /\ typed' = [typed EXCEPT ![n] = keys]
               /\ UNCHANGED <<users, passwd, shadow, group, session>>
         \/ UNCHANGED <<users, passwd, shadow, group, kernel, session, typed>>
  BY DEF Useradd
<1>3. ASSUME NEW keys \in TypedKeys,
             kernel' = [kernel EXCEPT ![n] = [password |-> UseraddLine(keys), role |-> "user"]],
             typed' = [typed EXCEPT ![n] = keys],
             UNCHANGED <<users, passwd, shadow, group, session>>
      PROVE  AccountsInv'
  <2>. DEFINE a == [password |-> UseraddLine(keys), role |-> "user"]
  <2>1. a \in KernelAccounts /\ a.password = PasswdLine(keys)
    BY DEF KernelAccounts, UseraddLine, PasswdLine
  <2>2. kernel' = [kernel EXCEPT ![n] = a]
    BY <1>3
  <2>. HIDE DEF a
  <2>3. KernelKept([kernel EXCEPT ![n] = a], [typed EXCEPT ![n] = keys], session)
    BY <1>1, <2>1, AccountIsPut
  <2>4. KernelKept(kernel', typed', session')
    BY <1>3, <2>2, <2>3
  <2>. QED
    BY <1>3, <2>4, KernelIsKept
<1>4. ASSUME UNCHANGED <<users, passwd, shadow, group, kernel, session, typed>> PROVE AccountsInv'
  BY <1>1, <1>4, KernelIsKept
<1>. QED
  BY <1>2, <1>3, <1>4

LEMMA PasswdIsSound == AccountsInv /\ Passwd => AccountsInv'
<1>. SUFFICES ASSUME AccountsInv, Passwd PROVE AccountsInv'
  OBVIOUS
<1>1. KernelKept(kernel, typed, session)
  BY InvIs
<1>2. PICK n \in People :
         \/ \E keys \in TypedKeys :
               /\ kernel[n] # Unset
               /\ kernel' = [kernel EXCEPT ![n].password = PasswdLine(keys)]
               /\ typed' = [typed EXCEPT ![n] = keys]
               /\ UNCHANGED <<users, passwd, shadow, group, session>>
         \/ UNCHANGED <<users, passwd, shadow, group, kernel, session, typed>>
  BY DEF Passwd, KernelPasswd
<1>3. ASSUME NEW keys \in TypedKeys, kernel[n] # Unset,
             kernel' = [kernel EXCEPT ![n].password = PasswdLine(keys)],
             typed' = [typed EXCEPT ![n] = keys],
             UNCHANGED <<users, passwd, shadow, group, session>>
      PROVE  AccountsInv'
  <2>. DEFINE a == [kernel[n] EXCEPT !.password = PasswdLine(keys)]
  <2>1. kernel[n] \in KernelAccounts
    BY <1>1, <1>3 DEF KernelKept
  <2>2. a \in KernelAccounts /\ a.password = PasswdLine(keys)
    BY <2>1 DEF KernelAccounts
  <2>3. kernel' = [kernel EXCEPT ![n] = a]
    BY <1>3
  <2>. HIDE DEF a
  <2>4. KernelKept([kernel EXCEPT ![n] = a], [typed EXCEPT ![n] = keys], session)
    BY <1>1, <2>2, AccountIsPut
  <2>5. KernelKept(kernel', typed', session')
    BY <1>3, <2>3, <2>4
  <2>. QED
    BY <1>3, <2>5, KernelIsKept
<1>4. ASSUME UNCHANGED <<users, passwd, shadow, group, kernel, session, typed>> PROVE AccountsInv'
  BY <1>1, <1>4, KernelIsKept
<1>. QED
  BY <1>2, <1>3, <1>4

LEMMA FirstAccounts == AccountsInit => AccountsInv
<1>. SUFFICES ASSUME AccountsInit PROVE AccountsInv
  OBVIOUS
<1>1. PICK s \in AccountFiles : users = s.users /\ passwd = s.passwd /\ shadow = s.shadow
  BY DEF AccountsInit
<1>2. group = Missing /\ session \in {Unset, Superuser} /\ typed = [n \in People |-> Unset]
  BY DEF AccountsInit
<1>3. /\ users \in FileOf(UserLines) /\ passwd \in FileOf(IdLines) /\ shadow \in FileOf(SecretLines)
      /\ passwd # Missing =>
            \A i, j \in DOMAIN passwd.lines :
               i # j /\ Junk \notin {passwd.lines[i], passwd.lines[j]} /\ passwd.lines[i].id # BadId
               => passwd.lines[i].id # passwd.lines[j].id
  BY <1>1, AccountFilesAssumption
<1>4. IdsAscend(Lines(passwd))
  <2>1. CASE passwd = Missing
    BY <2>1 DEF IdsAscend, Lines
  <2>2. CASE passwd # Missing
    <3>1. Lines(passwd) = passwd.lines /\ passwd.lines \in Seq(IdLines \cup {Junk})
      BY <1>3, <2>2, FileHolds
    <3>2. ASSUME NEW i \in DOMAIN passwd.lines, NEW j \in DOMAIN passwd.lines, i < j,
                 Junk \notin {passwd.lines[i], passwd.lines[j]}, passwd.lines[i].id # BadId,
                 passwd.lines[i].id = passwd.lines[j].id
          PROVE  FALSE
      <4>1. i # j
        BY <3>1, <3>2
      <4>. QED
        BY <1>3, <2>2, <3>2, <4>1
    <3>. QED
      BY <3>1, <3>2 DEF IdsAscend
  <2>. QED
    BY <2>1, <2>2
<1>5. Lines(group) = <<>> /\ group \in FileOf(IdLines)
  BY <1>2 DEF Lines, FileOf
<1>6. IdsCount(<<>>)
  <2>1. Len(<<>>) = 0 /\ DOMAIN <<>> = {}
    OBVIOUS
  <2>. QED
    BY <2>1, NumbersAssumption DEF IdsCount
<1>7. FilesKept(users, passwd, shadow, group)
  BY <1>3, <1>4, <1>5, <1>6 DEF FilesKept
<1>8. KernelKept(kernel, typed, session)
  <2>. DEFINE a == [password |-> CHOOSE p \in Passwords : TRUE, role |-> "admin"]
  <2>1. kernel = [n \in People |-> IF n = Superuser THEN a ELSE Unset]
    BY DEF AccountsInit
  <2>2. a \in KernelAccounts
    <3>1. (CHOOSE p \in Passwords : TRUE) \in Passwords
      BY PeopleAssumption
    <3>. QED
      BY <3>1 DEF KernelAccounts
  <2>3. a # Unset /\ Superuser \in People
    BY <2>2, KernelAssumption, PeopleAssumption
  <2>. HIDE DEF a
  <2>4. kernel \in [People -> KernelAccounts \cup {Unset}] /\ kernel[Superuser] = a
    BY <2>1, <2>2, <2>3
  <2>5. typed \in [People -> TypedKeys \cup {Unset}] /\ \A n \in People : typed[n] = Unset
    BY <1>2
  <2>. QED
    BY <1>2, <2>3, <2>4, <2>5 DEF KernelKept
<1>. QED
  BY <1>7, <1>8, InvIs

\* Ids that are given behind the last word are the only ones given twice.
LEMMA AscendingIsDistinct == AccountsInv => UidsDistinct
<1>. SUFFICES ASSUME AccountsInv PROVE UidsDistinct
  OBVIOUS
<1>. DEFINE s == Lines(passwd)
<1>1. s \in Seq(IdLines \cup {Junk}) /\ IdsAscend(s)
  <2>1. passwd \in FileOf(IdLines) /\ IdsAscend(s)
    BY DEF AccountsInv, TypeOfAccounts
  <2>. QED
    BY <2>1, FileHolds
<1>2. IdWord - 1 # BadId
  <2>1. IdWord - 1 \in Nat
    BY NumbersAssumption
  <2>. QED
    BY <2>1, MarksAssumption
<1>3. DOMAIN s = 1 .. Len(s) /\ Len(s) \in Nat
  BY <1>1
<1>. HIDE DEF s
<1>4. ASSUME NEW i \in DOMAIN s, NEW j \in DOMAIN s, i < j, Junk \notin {s[i], s[j]},
             s[i].id # BadId, s[i].id = s[j].id
      PROVE  IdWord - 1 \in Ids(s)
  <2>1. PICK k \in 1 .. j - 1 : s[k] # Junk /\ s[k].id = IdWord - 1
    BY <1>1, <1>4 DEF IdsAscend
  <2>2. k \in DOMAIN s
    BY <1>3, <2>1
  <2>. QED
    BY <1>2, <2>1, <2>2, IdIsThere
<1>5. ASSUME IdWord - 1 \notin Ids(s), NEW i \in DOMAIN s, NEW j \in DOMAIN s
      PROVE  i = j \/ Junk \in {s[i], s[j]} \/ s[i].id = BadId \/ s[i].id # s[j].id
  <2>1. i < j \/ j < i \/ i = j
    BY <1>3
  <2>. QED
    BY <1>4, <1>5, <2>1
<1>. QED
  BY <1>5 DEF UidsDistinct, s

LEMMA AccountsStepIsSound == AccountsInv /\ [AccountsNext]_accountVars => AccountsInv'
<1>1. AccountsInv /\ UNCHANGED accountVars => AccountsInv'
  BY InvIs, InvIsNext DEF accountVars
<1>. QED
  BY <1>1, CreateIsSound, ChangeIsSound, RoleIsSound, RemoveIsSound, SetPasswordIsSound, AddUserIsSound,
     AddGroupIsSound, LoginIsSound, SuIsSound, UseraddIsSound, PasswdIsSound, LogoutIsSound
     DEF AccountsNext

\* Whatever calls are made and wherever they stop half way, the files stay
\* files of lines, no two accounts get one id, and what is typed as a password
\* opens the login, whichever loop read it.
THEOREM AccountsAreKept == AccountsSpec => []AccountsHold
<1>1. AccountsInv => AccountsHold
  BY AscendingIsDistinct, KeptIsTaken DEF AccountsInv, AccountsHold
<1>. QED
  BY <1>1, FirstAccounts, AccountsStepIsSound, PTL DEF AccountsSpec

----------------------------------------------------------------------------
(* A call that reports success has done it, and nothing else. *)

LEMMA CalledIs ==
  ASSUME NEW op, NEW n, NEW w, NEW ok, Called(op, n, w, ok)
  PROVE  last'.op = op /\ last'.name = n /\ last'.word = w /\ last'.ok = ok
BY DEF Called

OthersSame(f, g, n) == \A m \in People : m # n => First(Lines(g), m) = First(Lines(f), m)
AllOthersSame(n) ==
    OthersSame(users, users', n) /\ OthersSame(passwd, passwd', n)
    /\ OthersSame(shadow, shadow', n) /\ OthersSame(group, group', n)

LEMMA SameFile ==
  ASSUME NEW f, NEW g, g = f, NEW n
  PROVE  OthersSame(f, g, n)
BY DEF OthersSame

LEMMA ReportsIs ==
  ASSUME NEW n, last'.name = n,
         Ordinary => AllOthersSame(n),
         Ordinary /\ Ordinary' /\ last'.word # Unset /\ Plain(n) => Shows(last.name, last.word)'
  PROVE  ReportsTruly
<1>1. AllOthersSame(n) => KeepsOthers
  BY DEF AllOthersSame, OthersSame, KeepsOthers
<1>. QED
  BY <1>1 DEF ReportsTruly

LEMMA NothingReported ==
  ASSUME last'.ok = FALSE
  PROVE  ReportsTruly
BY DEF ReportsTruly

LEMMA NothingTouched ==
  ASSUME last'.word = Unset, UNCHANGED <<users, passwd, shadow, group>>
  PROVE  ReportsTruly
<1>1. PICK n : n = last'.name
  OBVIOUS
<1>2. AllOthersSame(n)
  BY SameFile DEF AllOthersSame
<1>. QED
  BY <1>1, <1>2, ReportsIs

\* What the readers see in a file.
Found(u, n) == IF u # Missing /\ Len(u.lines) <= DbMax THEN First(u.lines, n) ELSE Unset
SecretSeen(f, n) == IF First(Read(f), n) = Unset THEN Unset ELSE First(Read(f), n).hash
LineSeen(f, n) == IF First(Read(f), n) = Unset \/ First(Read(f), n).id = BadId THEN Unset ELSE First(Read(f), n)
With(s, id) == {i \in DOMAIN s : s[i] # Junk /\ s[i].id = id}

LEMMA FoundNext == ASSUME NEW n, last'.name = n PROVE UserFind(last.name)' = Found(users', n)
BY DEF UserFind, DbLoads, Found

LEMMA ShowsPassword ==
  ASSUME last'.op \in {"create", "change"}, NEW n, last'.name = n,
         Found(users', n) # Unset, Found(users', n).hash = Sha256(last'.word)
  PROVE  Shows(last.name, last.word)'
BY FoundNext DEF Shows, UserVerify

LEMMA ShowsRole ==
  ASSUME last'.op = "role", NEW n, last'.name = n, Found(users', n).role = last'.word
  PROVE  Shows(last.name, last.word)'
BY FoundNext DEF Shows

LEMMA ShowsGone ==
  ASSUME last'.op = "remove", NEW n, last'.name = n, Found(users', n) = Unset
  PROVE  Shows(last.name, last.word)'
BY FoundNext DEF Shows

LEMMA ShowsSecret ==
  ASSUME last'.op = "set_password", NEW n, last'.name = n,
         SecretSeen(shadow', n) \notin {Unset, Locked}, SecretSeen(shadow', n) = Fnv1a(last'.word)
  PROVE  Shows(last.name, last.word)'
<1>1. LookupShadow(last.name)' = SecretSeen(shadow', n)
  BY DEF LookupShadow, SecretSeen
<1>. QED
  BY <1>1 DEF Shows, VerifyShadow

LEMMA ShowsUser ==
  ASSUME last'.op = "add_user", NEW n, last'.name = n, NEW l, LineSeen(passwd', n) = l, l # Unset,
         SecretSeen(shadow', n) # Unset, With(Read(passwd'), l.id) # {},
         Read(passwd')[Min(With(Read(passwd'), l.id))].name = n
  PROVE  Shows(last.name, last.word)'
<1>1. LookupPasswd(last.name)' = l
  BY DEF LookupPasswd, LineSeen
<1>2. LookupShadow(last.name)' = SecretSeen(shadow', n)
  BY DEF LookupShadow, SecretSeen
<1>3. LookupByUid(LookupPasswd(last.name).id)' = Read(passwd')[Min(With(Read(passwd'), l.id))]
  BY <1>1 DEF LookupByUid, With
<1>. QED
  BY <1>1, <1>2, <1>3 DEF Shows

LEMMA ShowsGroup ==
  ASSUME last'.op = "add_group", NEW n, last'.name = n, Of(Read(group'), n) # {},
         NEW id, id = First(Read(group'), n).id, With(Read(group'), id) # {},
         Read(group')[Min(With(Read(group'), id))].name = n
  PROVE  Shows(last.name, last.word)'
<1>1. GroupOf(First(Read(group), last.name).id)' = Read(group')[Min(With(Read(group'), id))].name
  BY DEF GroupOf, With
<1>. QED
  BY <1>1 DEF Shows

\* A line is added behind the others, for n.
Added(f, g, n, l) ==
    /\ OthersSame(f, g, n) /\ Of(Lines(g), n) # {}
    /\ First(Lines(g), n) = IF First(Lines(f), n) # Unset THEN First(Lines(f), n) ELSE l

LEMMA AddedIsSeen ==
  ASSUME NEW E, Unset \notin E, NEW f, NEW g, Lines(f) \in Seq(E), NEW l, NEW n, LineOf(E, l, n),
         Lines(g) = Append(Lines(f), l)
  PROVE  Added(f, g, n, l)
<1>0. l \in E /\ l # Junk /\ l.name = n
  BY DEF LineOf
<1>1. \A m : First(Lines(g), m) = IF First(Lines(f), m) # Unset THEN First(Lines(f), m)
                                  ELSE IF l.name = m THEN l ELSE Unset
  BY <1>0, FirstOfAppended
<1>2. Lines(g) \in Seq(E)
  BY <1>0
<1>3. l # Unset
  BY <1>0
<1>4. First(Lines(g), n) # Unset
  BY <1>0, <1>1, <1>3
<1>. QED
  BY <1>0, <1>1, <1>2, <1>4, FirstIsThere DEF OthersSame, Added

\* Every line of n is replaced.
LEMMA ReplacedIsSeen ==
  ASSUME NEW E, Unset \notin E, NEW f, NEW g, Lines(f) \in Seq(E), NEW l, NEW n, LineOf(E, l, n),
         Of(Lines(f), n) # {}, Lines(g) = Replaced(Lines(f), n, l)
  PROVE  OthersSame(f, g, n) /\ First(Lines(g), n) = l
<1>. DEFINE s == Lines(f)
<1>1. s \in Seq(E)
  OBVIOUS
<1>. HIDE DEF s
<1>2. /\ Replaced(s, n, l) \in Seq(E) /\ Len(Replaced(s, n, l)) = Len(s)
      /\ \A m : m # n => First(Replaced(s, n, l), m) = First(s, m)
      /\ Of(s, n) # {} => First(Replaced(s, n, l), n) = l
  BY <1>1, FirstOfReplaced, Zenon
<1>. QED
  BY <1>2 DEF OthersSame, s

LEMMA UsersReport ==
  ASSUME AccountsInv, AccountsInv', NEW n, last'.name = n, UNCHANGED <<passwd, shadow, group>>,
         NEW l \in UserLines, l.name = n,
         Ordinary => \/ Lines(users') = Append(Lines(users), l) /\ First(Lines(users), n) = Unset
                     \/ Lines(users') = Replaced(Lines(users), n, l) /\ Of(Lines(users), n) # {},
         Found(users', n) = l => Shows(last.name, last.word)'
  PROVE  ReportsTruly
<1>1. users \in FileOf(UserLines) /\ users' \in FileOf(UserLines)
  BY InvIs, InvIsNext DEF FilesKept
<1>2. Lines(users) \in Seq(UserLines \cup {Junk})
  BY <1>1, FileHolds
<1>3. l \in UserLines \cup {Junk} /\ l # Junk
  BY MarksAssumption
<1>4. ASSUME Ordinary PROVE OthersSame(users, users', n) /\ First(Lines(users'), n) = l
  <2>1. PICK E : E = UserLines \cup {Junk}
    OBVIOUS
  <2>2. Unset \notin E /\ Lines(users) \in Seq(E) /\ LineOf(E, l, n)
    BY <1>2, <1>3, <2>1, UnsetIsApart DEF LineOf
  <2>3. PICK f, g : f = users /\ g = users'
    OBVIOUS
  <2>4. /\ Lines(f) \in Seq(E)
        /\ \/ Lines(g) = Append(Lines(f), l) /\ First(Lines(f), n) = Unset
           \/ Lines(g) = Replaced(Lines(f), n, l) /\ Of(Lines(f), n) # {}
    BY <1>4, <2>2, <2>3
  <2>5. CASE Lines(g) = Append(Lines(f), l) /\ First(Lines(f), n) = Unset
    <3>1. Added(f, g, n, l)
      BY <2>2, <2>4, <2>5, AddedIsSeen
    <3>. QED
      BY <2>3, <2>5, <3>1 DEF Added
  <2>6. CASE Lines(g) = Replaced(Lines(f), n, l) /\ Of(Lines(f), n) # {}
    <3>1. OthersSame(f, g, n) /\ First(Lines(g), n) = l
      BY <2>2, <2>4, <2>6, ReplacedIsSeen
    <3>. QED
      BY <2>3, <3>1
  <2>. QED
    BY <2>4, <2>5, <2>6
<1>5. Ordinary => AllOthersSame(n)
  BY <1>4, SameFile DEF AllOthersSame
<1>6. ASSUME Ordinary, Ordinary' PROVE Shows(last.name, last.word)'
  <2>1. users' # Missing /\ Len(users'.lines) <= DbMax
    BY <1>6 DEF Ordinary, DbLoads
  <2>2. Found(users', n) = First(Lines(users'), n)
    BY <2>1 DEF Found, Lines
  <2>. QED
    BY <1>4, <1>6, <2>2
<1>. QED
  BY <1>5, <1>6, ReportsIs

LEMMA CreateReports == AccountsInv /\ AccountsInv' /\ UserCreate => ReportsTruly
<1>. SUFFICES ASSUME AccountsInv, AccountsInv', UserCreate PROVE ReportsTruly
  OBVIOUS
<1>. DEFINE db == IF users = Missing THEN File(<<>>) ELSE users
            Entry0(n, p, role) == [name |-> n, role |-> role, hash |-> Sha256(p), home |-> "own"]
<1>1. PICK n \in People, p \in Passwords, role \in {"admin", "user"}, existing \in BOOLEAN, ok \in BOOLEAN :
         \/ Called("create", n, Unset, TRUE) /\ UNCHANGED users
         \/ Called("create", n, Unset, existing) /\ UNCHANGED users
         \/ /\ UserFind(n) = Unset /\ Called("create", n, p, ok)
            /\ IF ok THEN users' = Appended(db, Entry0(n, p, role)) ELSE users' \in {users, db}
  BY ZenonT(60) DEF UserCreate
<1>2. UNCHANGED <<passwd, shadow, group>>
  BY ZenonT(60) DEF UserCreate
<1>3. users \in FileOf(UserLines)
  BY InvIs DEF FilesKept
<1>4. ASSUME NEW b, Called("create", n, Unset, b), UNCHANGED users PROVE ReportsTruly
  BY <1>2, <1>4, CalledIs, NothingTouched
<1>5. CASE /\ UserFind(n) = Unset /\ Called("create", n, p, ok)
           /\ IF ok THEN users' = Appended(db, Entry0(n, p, role)) ELSE users' \in {users, db}
  <2>1. last'.op = "create" /\ last'.name = n /\ last'.word = p /\ last'.ok = ok
    BY <1>5, CalledIs
  <2>2. CASE ok = FALSE
    BY <2>1, <2>2, NothingReported
  <2>3. CASE ok = TRUE
    <3>. DEFINE l == Entry0(n, p, role)
    <3>1. l \in UserLines /\ l.name = n /\ l.hash = Sha256(p) /\ l # Unset
      BY MarksAssumption DEF UserLines
    <3>2. users' = Appended(db, l)
      BY <1>5, <2>3
    <3>. HIDE DEF l
    <3>3. ASSUME Ordinary
          PROVE  Lines(users') = Append(Lines(users), l) /\ First(Lines(users), n) = Unset
      <4>1. users # Missing /\ users.ended /\ DbLoads
        BY <3>3 DEF Ordinary, DbLoads
      <4>2. users' = File(Append(Lines(users), l))
        BY <1>3, <3>1, <3>2, <4>1, AppendedIs
      <4>3. Lines(users) \in Seq(UserLines \cup {Junk}) /\ Lines(users) = users.lines
        BY <1>3, <4>1, FileHolds
      <4>4. Append(Lines(users), l) \in Seq(UserLines \cup {Junk}) /\ UserLines \subseteq AllLines
        BY <3>1, <4>3 DEF AllLines
      <4>5. Lines(users') = Append(Lines(users), l)
        BY <4>2, <4>4, LinesOfFile DEF File
      <4>6. First(users.lines, n) = Unset
        BY <1>5, <4>1 DEF UserFind
      <4>. QED
        BY <4>3, <4>5, <4>6
    <3>4. Found(users', n) = l => Shows(last.name, last.word)'
      BY <2>1, <3>1, ShowsPassword
    <3>. QED
      BY <1>2, <2>1, <3>1, <3>3, <3>4, UsersReport
  <2>. QED
    BY <2>2, <2>3
<1>. QED
  BY <1>1, <1>4, <1>5

LEMMA ChangeReports == AccountsInv /\ AccountsInv' /\ UserChangePassword => ReportsTruly
<1>. SUFFICES ASSUME AccountsInv, AccountsInv', UserChangePassword PROVE ReportsTruly
  OBVIOUS
<1>1. PICK n \in People, p \in Passwords, ok \in BOOLEAN :
         /\ Called("change", n, p, ok)
         /\ IF UserFind(n) = Unset THEN ~ok /\ UNCHANGED users
            ELSE RewriteWith(n, [UserFind(n) EXCEPT !.hash = Sha256(p)], ok)
  BY DEF UserChangePassword
<1>2. UNCHANGED <<passwd, shadow, group>>
  BY DEF UserChangePassword
<1>3. users \in FileOf(UserLines)
  BY InvIs DEF FilesKept
<1>4. last'.op = "change" /\ last'.name = n /\ last'.word = p /\ last'.ok = ok
  BY <1>1, CalledIs
<1>5. CASE ok = FALSE
  BY <1>4, <1>5, NothingReported
<1>6. CASE ok = TRUE
  <2>. DEFINE l == [UserFind(n) EXCEPT !.hash = Sha256(p)]
  <2>1. UserFind(n) # Unset /\ RewriteWith(n, l, TRUE)
    BY <1>1, <1>6
  <2>2. UserFind(n) \in UserLines /\ UserFind(n).name = n
    BY <1>3, <2>1, FoundIs
  <2>3. l \in UserLines /\ l.name = n /\ l.hash = Sha256(p)
    BY <2>2 DEF UserLines
  <2>. HIDE DEF l
  <2>4. l # Unset
    BY <2>3, MarksAssumption
  <2>5. Lines(users') = Replaced(Lines(users), n, l) /\ Of(Lines(users), n) # {}
    BY <1>3, <2>1, <2>3, <2>4, RewriteIs
  <2>6. Found(users', n) = l => Shows(last.name, last.word)'
    BY <1>4, <2>3, <2>4, ShowsPassword
  <2>. QED
    BY <1>2, <1>4, <2>3, <2>5, <2>6, UsersReport
<1>. QED
  BY <1>5, <1>6

LEMMA RoleReports == AccountsInv /\ AccountsInv' /\ UserSetRole => ReportsTruly
<1>. SUFFICES ASSUME AccountsInv, AccountsInv', UserSetRole PROVE ReportsTruly
  OBVIOUS
<1>1. PICK n \in People, role \in {"admin", "user"}, ok \in BOOLEAN :
         \/ Called("role", n, role, FALSE)
         \/ Called("role", n, Unset, TRUE) /\ UNCHANGED <<users, passwd, shadow, group>>
         \/ /\ UserFind(n) # Unset /\ Called("role", n, role, ok)
            /\ RewriteWith(n, [UserFind(n) EXCEPT !.role = role], ok)
            /\ UNCHANGED <<passwd, shadow, group>>
  BY DEF UserSetRole
<1>2. users \in FileOf(UserLines)
  BY InvIs DEF FilesKept
<1>3. CASE Called("role", n, role, FALSE)
  BY <1>3, CalledIs, NothingReported
<1>4. CASE Called("role", n, Unset, TRUE) /\ UNCHANGED <<users, passwd, shadow, group>>
  BY <1>4, CalledIs, NothingTouched
<1>5. CASE /\ UserFind(n) # Unset /\ Called("role", n, role, ok)
           /\ RewriteWith(n, [UserFind(n) EXCEPT !.role = role], ok)
           /\ UNCHANGED <<passwd, shadow, group>>
  <2>1. last'.op = "role" /\ last'.name = n /\ last'.word = role /\ last'.ok = ok
    BY <1>5, CalledIs
  <2>2. CASE ok = FALSE
    BY <2>1, <2>2, NothingReported
  <2>3. CASE ok = TRUE
    <3>. DEFINE l == [UserFind(n) EXCEPT !.role = role]
    <3>1. UserFind(n) # Unset /\ RewriteWith(n, l, TRUE)
      BY <1>5, <2>3
    <3>2. UserFind(n) \in UserLines /\ UserFind(n).name = n
      BY <1>2, <3>1, FoundIs
    <3>3. l \in UserLines /\ l.name = n /\ l.role = role
      BY <3>2 DEF UserLines
    <3>. HIDE DEF l
    <3>4. l # Unset
      BY <3>3, MarksAssumption
    <3>5. Lines(users') = Replaced(Lines(users), n, l) /\ Of(Lines(users), n) # {}
      BY <1>2, <3>1, <3>3, <3>4, RewriteIs
    <3>6. Found(users', n) = l => Shows(last.name, last.word)'
      BY <2>1, <3>3, ShowsRole
    <3>7. UNCHANGED <<passwd, shadow, group>>
      BY <1>5
    <3>. QED
      BY <2>1, <3>3, <3>5, <3>6, <3>7, UsersReport
  <2>. QED
    BY <2>2, <2>3
<1>. QED
  BY <1>1, <1>3, <1>4, <1>5

LEMMA RemoveReports == AccountsInv /\ AccountsInv' /\ UserRemove => ReportsTruly
<1>. SUFFICES ASSUME AccountsInv, AccountsInv', UserRemove PROVE ReportsTruly
  OBVIOUS
<1>1. PICK n \in People, ok \in BOOLEAN :
         \/ Called("remove", n, "gone", FALSE)
         \/ Called("remove", n, Unset, TRUE) /\ UNCHANGED <<users, passwd, shadow, group>>
         \/ /\ Called("remove", n, "gone", ok) /\ RewriteWith(n, Unset, ok)
            /\ UNCHANGED <<passwd, shadow, group>>
  BY DEF UserRemove
<1>2. users \in FileOf(UserLines)
  BY InvIs DEF FilesKept
<1>3. CASE Called("remove", n, "gone", FALSE)
  BY <1>3, CalledIs, NothingReported
<1>4. CASE Called("remove", n, Unset, TRUE) /\ UNCHANGED <<users, passwd, shadow, group>>
  BY <1>4, CalledIs, NothingTouched
<1>5. CASE /\ Called("remove", n, "gone", ok) /\ RewriteWith(n, Unset, ok)
           /\ UNCHANGED <<passwd, shadow, group>>
  <2>1. last'.op = "remove" /\ last'.name = n /\ last'.ok = ok
    BY <1>5, CalledIs
  <2>2. CASE ok = FALSE
    BY <2>1, <2>2, NothingReported
  <2>3. CASE ok = TRUE
    <3>1. RewriteWith(n, Unset, TRUE)
      BY <1>5, <2>3
    <3>2. Lines(users') = Without(Lines(users), n) /\ users' = File(Lines(users'))
      BY <1>2, <3>1, RewriteIs
    <3>3. Lines(users) \in Seq(UserLines \cup {Junk})
      BY <1>2, FileHolds
    <3>4. /\ \A m : m # n => First(Lines(users'), m) = First(Lines(users), m)
          /\ First(Lines(users'), n) = Unset
      BY <3>2, <3>3, UnsetIsApart, FirstOfWithout
    <3>5. AllOthersSame(n)
      BY <1>5, <3>4, SameFile DEF AllOthersSame, OthersSame
    <3>6. Found(users', n) = Unset
      BY <3>4 DEF Found, Lines
    <3>7. Shows(last.name, last.word)'
      BY <2>1, <3>6, ShowsGone
    <3>. QED
      BY <2>1, <3>5, <3>7, ReportsIs
  <2>. QED
    BY <2>2, <2>3
<1>. QED
  BY <1>1, <1>3, <1>4, <1>5

LEMMA SetPasswordReports == AccountsInv /\ AccountsInv' /\ SetPassword => ReportsTruly
<1>. SUFFICES ASSUME AccountsInv, AccountsInv', SetPassword PROVE ReportsTruly
  OBVIOUS
<1>1. PICK n \in People, p \in Passwords, ok \in BOOLEAN :
         /\ Called("set_password", n, p, ok)
         /\ shadow' \in WriteBack(shadow, SecretPut(NamesOnly(Read(shadow), n), n, [name |-> n, hash |-> Fnv1a(p)]), ok)
  BY DEF SetPassword, SecretPut, Replaced
<1>2. UNCHANGED <<users, passwd, group>>
  BY DEF SetPassword
<1>3. PICK f, g : f = shadow /\ g = shadow'
  OBVIOUS
<1>4. f \in FileOf(SecretLines) /\ g \in FileOf(SecretLines) /\ SecretLines \subseteq AllLines
  BY <1>3, InvIs, InvIsNext DEF FilesKept, AllLines
<1>5. last'.op = "set_password" /\ last'.name = n /\ last'.word = p /\ last'.ok = ok
  BY <1>1, CalledIs
<1>6. CASE ok = FALSE
  BY <1>5, <1>6, NothingReported
<1>7. CASE ok = TRUE
  <2>. DEFINE l == [name |-> n, hash |-> Fnv1a(p)]
              kept == NamesOnly(Read(f), n)
              out == SecretPut(kept, n, l)
  <2>1. l \in SecretLines /\ l.name = n /\ l.hash = Fnv1a(p)
    BY DEF SecretLines
  <2>2. l # Unset /\ Fnv1a(p) \notin {Unset, Locked}
    BY <2>1, MarksAssumption
  <2>3. g \in WriteBack(f, out, TRUE)
    BY <1>1, <1>3, <1>7
  <2>. HIDE DEF l
  <2>4. kept \in Seq(SecretLines \cup {Junk}) /\ \A m : m # n => First(kept, m) = Unset
    BY <1>4, ReadIsLines, NamesOnlyIs
  <2>. HIDE DEF kept
  <2>5. out \in Seq(SecretLines \cup {Junk})
    BY <2>1, <2>4, SecretPutIs
  <2>. HIDE DEF out
  <2>6. Lines(g) = out /\ Fits(out)
    <3>1. /\ g \in FileOf(SecretLines)
          /\ g = f \/ (Fits(out) /\ (Lines(g) = out \/ \E k \in 0 .. Len(out) - 1 : Lines(g) = Cut(out, k)))
          /\ TRUE => g = File(out) /\ Lines(g) = out /\ Fits(out)
      BY <1>4, <2>3, <2>5, WrittenBack, Zenon
    <3>. QED
      BY <3>1
  <2>7. Lines(File(kept)) = kept
    BY <1>4, <2>4, LinesOfFile DEF File
  <2>8. OthersSame(File(kept), g, n) /\ First(Lines(g), n) = l
    <3>. DEFINE h == File(kept)
    <3>1. Lines(h) = kept
      BY <2>7
    <3>. HIDE DEF h
    <3>2. Lines(g) = SecretPut(Lines(h), n, l)
      BY <2>6, <3>1 DEF out
    <3>3. PICK E : E = SecretLines \cup {Junk}
      OBVIOUS
    <3>4. Unset \notin E /\ Lines(h) \in Seq(E) /\ LineOf(E, l, n)
      <4>1. l # Junk
        BY <2>1, MarksAssumption
      <4>. QED
        BY <2>1, <2>4, <3>1, <3>3, <4>1, UnsetIsApart DEF LineOf
    <3>5. CASE Of(Lines(h), n) = {}
      <4>1. Lines(g) = Append(Lines(h), l)
        BY <3>2, <3>5 DEF SecretPut
      <4>2. Added(h, g, n, l)
        BY <3>4, <4>1, AddedIsSeen
      <4>. QED
        BY <3>5, <4>2 DEF Added, First, h
    <3>6. CASE Of(Lines(h), n) # {}
      <4>1. Lines(g) = Replaced(Lines(h), n, l)
        BY <3>2, <3>6 DEF SecretPut
      <4>. QED
        BY <3>4, <3>6, <4>1, ReplacedIsSeen DEF h
    <3>. QED
      BY <3>5, <3>6
  <2>9. KeepsOthers
    <3>1. \A m \in People : m # n => First(Lines(shadow'), m) = Unset
      BY <1>3, <2>4, <2>7, <2>8 DEF OthersSame
    <3>2. LosesSecrets = {Unset}
      BY <1>5 DEF LosesSecrets
    <3>. QED
      BY <1>2, <1>5, <3>1, <3>2 DEF KeepsOthers
  <2>10. Shows(last.name, last.word)'
    <3>1. Read(g) = Lines(g)
      BY <1>4, <2>6, ReadIsLines
    <3>2. SecretSeen(g, n) = Fnv1a(p)
      BY <2>1, <2>2, <2>8, <3>1 DEF SecretSeen
    <3>. QED
      BY <1>3, <1>5, <2>2, <3>2, ShowsSecret
  <2>. QED
    BY <2>9, <2>10 DEF ReportsTruly
<1>. QED
  BY <1>6, <1>7

\* Behind a file without the last word, the next id stands on one line only.
LEMMA NextIsAlone ==
  ASSUME NEW s \in Seq(IdLines \cup {Junk}), IdWord - 1 \notin Ids(s), NEW l \in IdLines, l.id = NextId(s)
  PROVE  /\ With(Append(s, l), l.id) # {}
         /\ Append(s, l)[Min(With(Append(s, l), l.id))] = l
<1>. DEFINE r == Append(s, l)
            N == Len(s)
<1>1. /\ N \in Nat /\ DOMAIN r = 1 .. N + 1 /\ r[N + 1] = l /\ DOMAIN s = 1 .. N
      /\ \A i \in 1 .. N : r[i] = s[i]
  OBVIOUS
<1>2. NextId(s) \in Nat /\ \A id \in Ids(s) : id < NextId(s)
  <2>1. NextId(s) \in 0 .. IdWord - 1 /\ \A id \in Ids(s) : id < NextId(s)
    BY NextIdIs
  <2>. QED
    BY <2>1
<1>3. l # Junk /\ l.id # BadId
  BY <1>2, MarksAssumption
<1>. HIDE DEF r, N
<1>4. ASSUME NEW i \in 1 .. N, r[i] # Junk, r[i].id = l.id PROVE FALSE
  <2>1. s[i].id \in Ids(s)
    BY <1>1, <1>3, <1>4, IdIsThere
  <2>2. NextId(s) < NextId(s)
    BY <1>1, <1>2, <1>4, <2>1
  <2>. QED
    BY ONLY <1>2, <2>2
<1>5. With(r, l.id) = {N + 1}
  BY <1>1, <1>3, <1>4 DEF With
<1>6. Min({N + 1}) = N + 1
  BY <1>1, MinIs
<1>. QED
  BY <1>1, <1>5, <1>6 DEF r

LEMMA AddUserReports == AccountsInv /\ AccountsInv' /\ AddUser => ReportsTruly
<1>. SUFFICES ASSUME AccountsInv, AccountsInv', AddUser PROVE ReportsTruly
  OBVIOUS
<1>. DEFINE l == [name |-> last'.name, id |-> NextUid]
            lock == [name |-> last'.name, hash |-> Locked]
<1>1. PICK n \in People, ok \in BOOLEAN :
         /\ Called("add_user", n, "there", ok)
         /\ ok => /\ LookupPasswd(n) = Unset
                  /\ passwd' \in WriteBack(passwd, Append(Read(passwd), [name |-> n, id |-> NextUid]), TRUE)
                  /\ shadow' \in WriteBack(shadow, Append(Read(shadow), [name |-> n, hash |-> Locked]), ok)
  BY DEF AddUser
<1>2. UNCHANGED <<users, group>>
  BY DEF AddUser
<1>3. PICK f, g : f = passwd /\ g = passwd'
  OBVIOUS
<1>4. PICK h, k : h = shadow /\ k = shadow'
  OBVIOUS
<1>5. /\ f \in FileOf(IdLines) /\ g \in FileOf(IdLines) /\ h \in FileOf(SecretLines) /\ k \in FileOf(SecretLines)
      /\ IdLines \subseteq AllLines /\ SecretLines \subseteq AllLines
  BY <1>3, <1>4, InvIs, InvIsNext DEF FilesKept, AllLines
<1>6. last'.op = "add_user" /\ last'.name = n /\ last'.ok = ok
  BY <1>1, CalledIs
<1>7. CASE ok = FALSE
  BY <1>6, <1>7, NothingReported
<1>8. CASE ok = TRUE
  <2>1. NextUid = NextId(Read(f))
    BY <1>3 DEF NextUid, NextId
  <2>2. l \in IdLines /\ l.name = n /\ l.id = NextId(Read(f))
    BY <1>5, <1>6, <2>1, NewIdLine
  <2>3. lock \in SecretLines /\ lock.name = n
    BY <1>6 DEF SecretLines
  <2>4. /\ LookupPasswd(n) = Unset
        /\ g \in WriteBack(f, Append(Read(f), l), TRUE)
        /\ k \in WriteBack(h, Append(Read(h), lock), TRUE)
    BY <1>1, <1>3, <1>4, <1>6, <1>8
  <2>. HIDE DEF l, lock
  <2>5. /\ Read(f) \in Seq(IdLines \cup {Junk}) /\ Lines(f) \in Seq(IdLines \cup {Junk})
        /\ Read(h) \in Seq(SecretLines \cup {Junk}) /\ Lines(h) \in Seq(SecretLines \cup {Junk})
        /\ Lines(k) \in Seq(SecretLines \cup {Junk})
    BY <1>5, ReadIsLines, FileHolds
  <2>6. Lines(g) = Append(Read(f), l) /\ Fits(Lines(g))
    <3>. DEFINE s == Append(Read(f), l)
    <3>1. s \in Seq(IdLines \cup {Junk}) /\ g \in WriteBack(f, s, TRUE)
      <4>1. l \in IdLines \cup {Junk} /\ Read(f) \in Seq(IdLines \cup {Junk})
        BY <2>2, <2>5
      <4>2. g \in WriteBack(f, s, TRUE)
        BY <2>4
      <4>3. s \in Seq(IdLines \cup {Junk})
        BY ONLY <4>1
      <4>. QED
        BY <4>2, <4>3
    <3>. HIDE DEF s
    <3>2. /\ g \in FileOf(IdLines)
          /\ g = f \/ (Fits(s) /\ (Lines(g) = s \/ \E c \in 0 .. Len(s) - 1 : Lines(g) = Cut(s, c)))
          /\ TRUE => g = File(s) /\ Lines(g) = s /\ Fits(s)
      BY <1>5, <3>1, WrittenBack, Zenon
    <3>. QED
      BY <3>2 DEF s
  <2>7. Lines(k) = Append(Read(h), lock) /\ Fits(Lines(k))
    <3>. DEFINE s == Append(Read(h), lock)
    <3>1. s \in Seq(SecretLines \cup {Junk}) /\ k \in WriteBack(h, s, TRUE)
      <4>1. lock \in SecretLines \cup {Junk} /\ Read(h) \in Seq(SecretLines \cup {Junk})
        BY <2>3, <2>5
      <4>2. k \in WriteBack(h, s, TRUE)
        BY <2>4
      <4>3. s \in Seq(SecretLines \cup {Junk})
        BY ONLY <4>1
      <4>. QED
        BY <4>2, <4>3
    <3>. HIDE DEF s
    <3>2. /\ k \in FileOf(SecretLines)
          /\ k = h \/ (Fits(s) /\ (Lines(k) = s \/ \E c \in 0 .. Len(s) - 1 : Lines(k) = Cut(s, c)))
          /\ TRUE => k = File(s) /\ Lines(k) = s /\ Fits(s)
      BY <1>5, <3>1, WrittenBack, Zenon
    <3>. QED
      BY <3>2 DEF s
  <2>8. Read(g) = Lines(g) /\ Read(k) = Lines(k)
    BY <1>5, <2>6, <2>7, ReadIsLines
  <2>9. Ordinary => Read(f) = Lines(f) /\ Read(h) = Lines(h)
    BY <1>3, <1>4, <1>5, ReadIsLines DEF Ordinary
  <2>10. PICK E, D : E = IdLines \cup {Junk} /\ D = SecretLines \cup {Junk}
    OBVIOUS
  <2>11. /\ Unset \notin E /\ Lines(f) \in Seq(E) /\ LineOf(E, l, n)
         /\ Unset \notin D /\ Lines(h) \in Seq(D) /\ LineOf(D, lock, n) /\ Lines(k) \in Seq(D)
    <3>1. l # Junk /\ lock # Junk
      BY <2>2, <2>3, MarksAssumption
    <3>. QED
      BY <2>2, <2>3, <2>5, <2>10, <3>1, UnsetIsApart DEF LineOf
  <2>12. ASSUME Ordinary PROVE Added(f, g, n, l) /\ Added(h, k, n, lock)
    <3>1. Lines(g) = Append(Lines(f), l) /\ Lines(k) = Append(Lines(h), lock)
      BY <2>6, <2>7, <2>9, <2>12
    <3>2. Added(f, g, n, l)
      BY <2>11, <3>1, AddedIsSeen
    <3>3. Added(h, k, n, lock)
      BY <2>11, <3>1, AddedIsSeen
    <3>. QED
      BY <3>2, <3>3
  <2>13. Ordinary => AllOthersSame(n)
    BY <1>2, <1>3, <1>4, <2>12, SameFile DEF AllOthersSame, Added
  <2>14. ASSUME Ordinary, Plain(n) PROVE Shows(last.name, last.word)'
    <3>1. Read(f) = Lines(f) /\ Added(f, g, n, l) /\ Added(h, k, n, lock)
      BY <2>9, <2>12, <2>14
    <3>2. /\ IdWord - 1 \notin Ids(Lines(f))
          /\ \A i \in Of(Lines(f), n) : Lines(f)[i].id # BadId
      <4>1. \A i \in Of(Lines(f), n) : Lines(f)[i].id # BadId
        <5>1. CASE f = Missing
          BY <5>1 DEF Lines, Of
        <5>2. CASE f # Missing
          BY <1>3, <2>14, <5>2 DEF Plain, Lines
        <5>. QED
          BY <5>1, <5>2
      <4>. QED
        BY <1>3, <2>14, <4>1 DEF Plain
    <3>3. First(Lines(f), n) = Unset
      <4>1. SUFFICES ASSUME First(Lines(f), n) # Unset PROVE FALSE
        OBVIOUS
      <4>2. PICK i \in Of(Lines(f), n) : First(Lines(f), n) = Lines(f)[i]
        BY <2>11, <4>1, FirstIsThere
      <4>3. First(Lines(f), n).id # BadId
        BY <3>2, <4>2
      <4>. QED
        BY <1>3, <2>4, <3>1, <4>1, <4>3 DEF LookupPasswd
    <3>4. First(Lines(g), n) = l
      BY <3>1, <3>3 DEF Added
    <3>5. l # Unset /\ l.id # BadId
      <4>1. NextId(Read(f)) \in 0 .. IdWord - 1
        BY <2>5, NextIdIs
      <4>2. NextId(Read(f)) \in Nat
        BY <4>1
      <4>. QED
        BY <2>2, <4>2, MarksAssumption
    <3>6. LineSeen(g, n) = l
      BY <2>8, <3>4, <3>5 DEF LineSeen
    <3>7. SecretSeen(k, n) # Unset
      <4>1. First(Lines(k), n) # Unset
        BY <2>11, <3>1, FirstIsThere DEF Added
      <4>2. First(Lines(k), n) \in D /\ First(Lines(k), n) # Junk
        BY <2>11, <4>1, FirstIsThere
      <4>3. First(Lines(k), n) \in SecretLines
        BY <2>10, <4>2
      <4>4. First(Lines(k), n).hash \in {Fnv1a(p) : p \in Passwords} \cup {Locked}
        BY <4>3 DEF SecretLines
      <4>5. First(Lines(k), n).hash # Unset
        BY <4>4, MarksAssumption
      <4>. QED
        BY <2>8, <4>1, <4>5 DEF SecretSeen
    <3>8. /\ With(Lines(g), l.id) # {}
          /\ Lines(g)[Min(With(Lines(g), l.id))] = l
      <4>1. Lines(g) = Append(Lines(f), l) /\ l.id = NextId(Lines(f))
        BY <2>2, <2>6, <3>1
      <4>. QED
        BY <2>2, <2>5, <3>2, <4>1, NextIsAlone
    <3>. QED
      BY <1>3, <1>4, <1>6, <2>2, <2>8, <3>5, <3>6, <3>7, <3>8, ShowsUser
  <2>. QED
    BY <1>6, <2>13, <2>14, ReportsIs
<1>. QED
  BY <1>7, <1>8

\* In a file of groups every id stands on one line.
LEMMA GroupIsAlone ==
  ASSUME NEW s \in Seq(IdLines \cup {Junk}), IdsCount(s), NEW i \in DOMAIN s, s[i] # Junk
  PROVE  With(s, s[i].id) = {i} /\ Min(With(s, s[i].id)) = i
<1>1. DOMAIN s = 1 .. Len(s) /\ Len(s) \in Nat
  OBVIOUS
<1>2. FirstId \in Nat
  BY NumbersAssumption
<1>3. \A j \in DOMAIN s : s[j] # Junk => s[j].id \in Nat
  BY <1>1, <1>2 DEF IdsCount
<1>4. ASSUME NEW j \in DOMAIN s, s[j] # Junk, s[j].id = s[i].id PROVE j = i
  <2>1. ASSUME j < i PROVE FALSE
    <3>1. s[j].id < s[i].id
      BY <1>4, <2>1 DEF IdsCount
    <3>. QED
      BY <1>3, <1>4, <3>1
  <2>2. ASSUME i < j PROVE FALSE
    <3>1. s[i].id < s[j].id
      BY <1>4, <2>2 DEF IdsCount
    <3>. QED
      BY <1>3, <1>4, <3>1
  <2>. QED
    BY <1>1, <2>1, <2>2
<1>5. With(s, s[i].id) = {i}
  BY <1>4 DEF With
<1>6. Min({i}) = i
  <2>1. i \in Nat /\ {i} \in SUBSET Nat /\ {i} # {}
    BY <1>1
  <2>. QED
    BY <2>1, MinIs
<1>. QED
  BY <1>5, <1>6

LEMMA AddGroupReports == AccountsInv /\ AccountsInv' /\ AddGroup => ReportsTruly
<1>. SUFFICES ASSUME AccountsInv, AccountsInv', AddGroup PROVE ReportsTruly
  OBVIOUS
<1>1. PICK n \in People, ok \in BOOLEAN :
         /\ Called("add_group", n, "there", ok)
         /\ IF Of(Read(group), n) # {} THEN ok /\ UNCHANGED group
            ELSE group' \in WriteBack(group, Append(Read(group), [name |-> n, id |-> NextGid]), ok)
  BY DEF AddGroup
<1>2. UNCHANGED <<users, passwd, shadow>>
  BY DEF AddGroup
<1>3. PICK f, g : f = group /\ g = group'
  OBVIOUS
<1>4. /\ f \in FileOf(IdLines) /\ g \in FileOf(IdLines) /\ IdLines \subseteq AllLines /\ IdsCount(Lines(g))
  BY <1>3, InvIs, InvIsNext DEF FilesKept, AllLines
<1>5. last'.op = "add_group" /\ last'.name = n /\ last'.ok = ok
  BY <1>1, CalledIs
<1>6. CASE ok = FALSE
  BY <1>5, <1>6, NothingReported
<1>7. CASE ok = TRUE
  <2>. DEFINE l == [name |-> n, id |-> NextGid]
  <2>1. NextGid = NextId(Read(f))
    BY <1>3 DEF NextGid, NextId
  <2>2. l \in IdLines /\ l.name = n
    BY <1>4, <2>1, NewIdLine
  <2>3. \/ Of(Read(f), n) # {} /\ g = f
        \/ g \in WriteBack(f, Append(Read(f), l), TRUE)
    BY <1>1, <1>3, <1>7
  <2>. HIDE DEF l
  <2>4. /\ Read(f) \in Seq(IdLines \cup {Junk}) /\ Lines(f) \in Seq(IdLines \cup {Junk})
        /\ Lines(g) \in Seq(IdLines \cup {Junk})
    BY <1>4, ReadIsLines, FileHolds
  <2>5. PICK E : E = IdLines \cup {Junk}
    OBVIOUS
  <2>6. Unset \notin E /\ Lines(f) \in Seq(E) /\ Lines(g) \in Seq(E) /\ LineOf(E, l, n)
    <3>1. l # Junk
      BY <2>2, MarksAssumption
    <3>. QED
      BY <2>2, <2>4, <2>5, <3>1, UnsetIsApart DEF LineOf
  <2>7. ASSUME Ordinary
        PROVE  OthersSame(f, g, n) /\ Of(Lines(g), n) # {} /\ Read(g) = Lines(g)
    <3>1. Fits(Lines(f)) /\ Read(f) = Lines(f)
      BY <1>3, <1>4, <2>7, ReadIsLines DEF Ordinary
    <3>2. CASE Of(Read(f), n) # {} /\ g = f
      BY <3>1, <3>2, SameFile
    <3>3. CASE g \in WriteBack(f, Append(Read(f), l), TRUE)
      <4>. DEFINE s == Append(Read(f), l)
      <4>1. s \in Seq(IdLines \cup {Junk}) /\ g \in WriteBack(f, s, TRUE)
        <5>1. l \in IdLines \cup {Junk} /\ Read(f) \in Seq(IdLines \cup {Junk})
          BY <2>2, <2>4
        <5>2. g \in WriteBack(f, s, TRUE)
          BY <3>3
        <5>3. s \in Seq(IdLines \cup {Junk})
          BY ONLY <5>1
        <5>. QED
          BY <5>2, <5>3
      <4>. HIDE DEF s
      <4>2. /\ g \in FileOf(IdLines)
            /\ g = f \/ (Fits(s) /\ (Lines(g) = s \/ \E c \in 0 .. Len(s) - 1 : Lines(g) = Cut(s, c)))
            /\ TRUE => g = File(s) /\ Lines(g) = s /\ Fits(s)
        BY <1>4, <4>1, WrittenBack, Zenon
      <4>3. Lines(g) = Append(Lines(f), l) /\ Fits(Lines(g))
        BY <3>1, <4>2 DEF s
      <4>4. Added(f, g, n, l)
        BY <2>6, <4>3, AddedIsSeen
      <4>5. Read(g) = Lines(g)
        BY <1>4, <4>3, ReadIsLines
      <4>. QED
        BY <4>4, <4>5 DEF Added
    <3>. QED
      BY <2>3, <3>2, <3>3
  <2>8. Ordinary => AllOthersSame(n)
    BY <1>2, <1>3, <2>7, SameFile DEF AllOthersSame
  <2>9. ASSUME Ordinary PROVE Shows(last.name, last.word)'
    <3>1. Of(Lines(g), n) # {} /\ Read(g) = Lines(g)
      BY <2>7, <2>9
    <3>2. First(Lines(g), n) # Unset
      BY <2>6, <3>1, FirstIsThere
    <3>3. PICK i \in Of(Lines(g), n) : First(Lines(g), n) = Lines(g)[i]
      BY <2>6, <3>2, FirstIsThere
    <3>4. i \in DOMAIN Lines(g) /\ Lines(g)[i] # Junk /\ Lines(g)[i].name = n
      BY <3>3 DEF Of
    <3>5. With(Lines(g), Lines(g)[i].id) = {i} /\ Min(With(Lines(g), Lines(g)[i].id)) = i
      BY <1>4, <2>4, <3>4, GroupIsAlone
    <3>6. With(Lines(g), Lines(g)[i].id) # {} /\ Lines(g)[Min(With(Lines(g), Lines(g)[i].id))].name = n
      BY <3>4, <3>5
    <3>. QED
      BY <1>3, <1>5, <3>1, <3>3, <3>6, ShowsGroup
  <2>. QED
    BY <1>5, <2>8, <2>9, ReportsIs
<1>. QED
  BY <1>6, <1>7

\* The dialogues and the login write no file of a library.
LEMMA DialoguesReport == Login \/ Su \/ Useradd \/ Passwd \/ Logout => ReportsTruly
<1>1. Login => ReportsTruly
  BY CalledIs, NothingTouched DEF Login
<1>2. Su => ReportsTruly
  BY CalledIs, NothingTouched DEF Su
<1>3. Useradd => ReportsTruly
  BY CalledIs, NothingTouched DEF Useradd
<1>4. Passwd => ReportsTruly
  BY CalledIs, NothingTouched DEF Passwd
<1>5. Logout => ReportsTruly
  BY CalledIs, NothingTouched DEF Logout
<1>. QED
  BY <1>1, <1>2, <1>3, <1>4, <1>5

LEMMA StepReports == AccountsInv /\ AccountsInv' /\ AccountsNext => ReportsTruly
BY CreateReports, ChangeReports, RoleReports, RemoveReports, SetPasswordReports, AddUserReports,
   AddGroupReports, DialoguesReport DEF AccountsNext

\* A call of a library that reports success has done it, as the next reader
\* sees it in every file the account is in, and no other account is lost or
\* changed by writing the whole file again.
THEOREM ReportsAreTrue == AccountsSpec => ReportedIsTrue
<1>1. AccountsInv /\ AccountsInv' /\ [AccountsNext]_accountVars => [ReportsTruly]_accountVars
  BY StepReports
<1>. QED
  BY <1>1, FirstAccounts, AccountsStepIsSound, PTL DEF AccountsSpec, ReportedIsTrue

----------------------------------------------------------------------------
(* Terminal: the last rows of a list of lines. *)

\* Texts of a row.
Rowed == Seq(Chars)

\* The window has as many rows as there are lines and it can hold, and its
\* rows are the last lines in order.
LEMMA LastRowsAre ==
  ASSUME NEW all \in Seq(Rowed)
  PROVE  /\ LastRows(all) \in Seq(Rowed)
         /\ Len(LastRows(all)) = IF Len(all) <= Rows THEN Len(all) ELSE Rows
         /\ Len(LastRows(all)) \in Nat /\ Len(LastRows(all)) <= Len(all)
         /\ \A i \in 1 .. Len(LastRows(all)) : LastRows(all)[i] = all[i + (Len(all) - Len(LastRows(all)))]
<1>. DEFINE n == Len(all)
            r == LastRows(all)
<1>1. n \in Nat /\ Rows \in Nat /\ Rows > 0
  BY ScreenAssumption
<1>2. CASE n <= Rows
  <2>1. r = all
    BY <1>2 DEF LastRows
  <2>. QED
    BY <1>1, <1>2, <2>1
<1>3. CASE ~(n <= Rows)
  <2>1. r = SubSeq(all, n - Rows + 1, n)
    BY <1>3 DEF LastRows
  <2>2. n - Rows + 1 \in 1 .. n
    BY <1>1, <1>3
  <2>3. r \in Seq(Rowed) /\ Len(r) = Rows /\ \A i \in 1 .. Rows : r[i] = all[(n - Rows + 1) + i - 1]
    BY <1>1, <2>1, <2>2
  <2>. QED
    BY <1>1, <1>3, <2>3
<1>. QED
  BY <1>2, <1>3

\* A list of rows that is as long as the window's and has the same rows is it.
LEMMA LastRowsIs ==
  ASSUME NEW all \in Seq(Rowed), NEW r \in Seq(Rowed),
         Len(r) = IF Len(all) <= Rows THEN Len(all) ELSE Rows,
         \A i \in 1 .. Len(r) : r[i] = all[i + (Len(all) - Len(r))]
  PROVE  r = LastRows(all)
<1>. DEFINE w == LastRows(all)
<1>1. w \in Seq(Rowed) /\ Len(w) = Len(r) /\ \A i \in 1 .. Len(w) : w[i] = all[i + (Len(all) - Len(w))]
  BY LastRowsAre
<1>. HIDE DEF w
<1>2. \A i \in 1 .. Len(r) : r[i] = w[i]
  BY <1>1
<1>3. r = w
  BY <1>1, <1>2, SeqEqual
<1>. QED
  BY <1>3 DEF w

\* Another line is another row, and the oldest row goes when the window is full.
LEMMA LastRowsGrow ==
  ASSUME NEW all \in Seq(Rowed), NEW text \in Rowed, NEW w, w = LastRows(all)
  PROVE  LastRows(Append(all, text)) = Append(IF Len(w) >= Rows THEN SubSeq(w, 2, Rows) ELSE w, text)
<1>. DEFINE v == IF Len(w) >= Rows THEN SubSeq(w, 2, Rows) ELSE w
            r == Append(v, text)
            more == Append(all, text)
            n == Len(all)
<1>1. n \in Nat /\ Rows \in Nat /\ Rows > 0
  BY ScreenAssumption
<1>2. /\ w \in Seq(Rowed) /\ Len(w) = IF n <= Rows THEN n ELSE Rows
      /\ \A i \in 1 .. Len(w) : w[i] = all[i + (n - Len(w))]
  BY LastRowsAre
<1>3. more \in Seq(Rowed) /\ Len(more) = n + 1 /\ more[n + 1] = text /\ \A i \in 1 .. n : more[i] = all[i]
  BY <1>1
<1>4. /\ v \in Seq(Rowed) /\ Len(v) = IF n + 1 <= Rows THEN n ELSE Rows - 1
      /\ \A i \in 1 .. Len(v) : v[i] = all[i + (n - Len(v))]
  <2>1. CASE Len(w) >= Rows
    <3>1. Len(w) = Rows /\ n >= Rows
      BY <1>1, <1>2, <2>1
    <3>2. v = SubSeq(w, 2, Rows)
      BY <2>1
    <3>. HIDE DEF v
    <3>3. v \in Seq(Rowed) /\ Len(v) = Rows - 1 /\ \A i \in 1 .. Rows - 1 : v[i] = w[i + 1]
      BY <1>1, <1>2, <3>1, <3>2
    <3>4. \A i \in 1 .. Rows - 1 : i + 1 \in 1 .. Len(w) /\ (i + 1) + (n - Len(w)) = i + (n - (Rows - 1))
      BY <1>1, <3>1
    <3>5. \A i \in 1 .. Rows - 1 : v[i] = all[i + (n - (Rows - 1))]
      <4>. HIDE DEF n
      <4>. QED
        BY <1>2, <3>3, <3>4
    <3>. QED
      BY <1>1, <3>1, <3>3, <3>5
  <2>2. CASE ~(Len(w) >= Rows)
    <3>1. v = w /\ Len(w) = n /\ n + 1 <= Rows
      BY <1>1, <1>2, <2>2
    <3>. HIDE DEF v
    <3>. QED
      BY <1>1, <1>2, <3>1
  <2>. QED
    BY <2>1, <2>2
<1>. HIDE DEF v
<1>5. r \in Seq(Rowed) /\ Len(r) = Len(v) + 1 /\ r[Len(v) + 1] = text /\ \A i \in 1 .. Len(v) : r[i] = v[i]
  BY <1>4
<1>. HIDE DEF r, more
<1>6. Len(r) = IF Len(more) <= Rows THEN Len(more) ELSE Rows
  BY <1>1, <1>3, <1>4, <1>5
<1>7. ASSUME NEW i \in 1 .. Len(r) PROVE r[i] = more[i + (Len(more) - Len(r))]
  <2>1. Len(more) - Len(r) = n - Len(v) /\ Len(v) \in Nat /\ Len(v) <= n
    BY <1>1, <1>3, <1>4, <1>5
  <2>2. CASE i \in 1 .. Len(v)
    <3>1. i + (n - Len(v)) \in 1 .. n
      BY <1>1, <2>1, <2>2
    <3>. QED
      BY <1>3, <1>4, <1>5, <2>1, <2>2, <3>1
  <2>3. CASE i = Len(v) + 1
    <3>1. i + (n - Len(v)) = n + 1
      BY <1>1, <2>1, <2>3
    <3>. QED
      BY <1>3, <1>5, <2>1, <2>3, <3>1
  <2>. QED
    BY <1>5, <2>1, <2>2, <2>3
<1>8. r = LastRows(more)
  BY <1>3, <1>5, <1>6, <1>7, LastRowsIs
<1>. QED
  BY <1>8 DEF r, more, v

\* The last line is the last row.
LEMMA LastRowIsLast ==
  ASSUME NEW all \in Seq(Rowed), all # <<>>, NEW w, w = LastRows(all)
  PROVE  /\ w # <<>> /\ Len(w) \in 1 .. Len(all) /\ w[Len(w)] = all[Len(all)]
<1>1. Rows \in Nat /\ Rows > 0 /\ Len(all) \in Nat /\ Len(all) > 0
  BY ScreenAssumption
<1>2. /\ w \in Seq(Rowed) /\ Len(w) = IF Len(all) <= Rows THEN Len(all) ELSE Rows
      /\ \A i \in 1 .. Len(w) : w[i] = all[i + (Len(all) - Len(w))]
  BY LastRowsAre
<1>3. Len(w) \in 1 .. Len(all) /\ Len(w) + (Len(all) - Len(w)) = Len(all)
  BY <1>1, <1>2
<1>. QED
  BY <1>2, <1>3

\* Changing the last line changes the last row.
LEMMA LastRowsChange ==
  ASSUME NEW all \in Seq(Rowed), all # <<>>, NEW text \in Rowed, NEW w, w = LastRows(all)
  PROVE  LastRows([all EXCEPT ![Len(all)] = text]) = [w EXCEPT ![Len(w)] = text]
<1>. DEFINE n == Len(all)
            now == [all EXCEPT ![n] = text]
            r == [w EXCEPT ![Len(w)] = text]
<1>1. Rows \in Nat /\ Rows > 0 /\ n \in Nat /\ n > 0
  BY ScreenAssumption
<1>2. /\ w \in Seq(Rowed) /\ Len(w) = IF n <= Rows THEN n ELSE Rows
      /\ \A i \in 1 .. Len(w) : w[i] = all[i + (n - Len(w))]
      /\ Len(w) \in 1 .. n
  BY LastRowsAre, LastRowIsLast
<1>3. now \in Seq(Rowed) /\ Len(now) = n /\ now[n] = text /\ \A i \in 1 .. n - 1 : now[i] = all[i]
  BY <1>1
<1>4. r \in Seq(Rowed) /\ Len(r) = Len(w) /\ r[Len(w)] = text /\ \A i \in 1 .. Len(w) - 1 : r[i] = w[i]
  BY <1>1, <1>2
<1>. HIDE DEF now, r
<1>5. ASSUME NEW i \in 1 .. Len(r) PROVE r[i] = now[i + (Len(now) - Len(r))]
  <2>1. CASE i = Len(w)
    <3>1. i + (Len(now) - Len(r)) = n
      BY <1>1, <1>2, <1>3, <1>4, <2>1
    <3>. QED
      BY <1>3, <1>4, <2>1, <3>1
  <2>2. CASE i # Len(w)
    <3>1. i \in 1 .. Len(w) - 1 /\ i + (n - Len(w)) \in 1 .. n - 1
      BY <1>1, <1>2, <1>4, <2>2
    <3>. QED
      BY <1>2, <1>3, <1>4, <3>1
  <2>. QED
    BY <2>1, <2>2
<1>6. Len(r) = IF Len(now) <= Rows THEN Len(now) ELSE Rows
  BY <1>2, <1>3, <1>4
<1>7. r = LastRows(now)
  BY <1>3, <1>4, <1>5, <1>6, LastRowsIs
<1>. QED
  BY <1>7 DEF r, now

LEMMA NoRows == LastRows(<<>>) = <<>>
BY ScreenAssumption DEF LastRows

----------------------------------------------------------------------------
(* Terminal: the window and the transcript take one step after another. *)

Transcripts ==
    {t \in [lines : Seq(Rowed), esc : Seq(Chars), fresh : BOOLEAN] :
        /\ ~t.fresh => t.lines # <<>>
        /\ \A i \in DOMAIN t.lines : Len(t.lines[i]) <= RowWidth}

Paired(s, t) == s \in Screens /\ t \in Transcripts /\ Window(s, t)
SameEscape(s, t, s2, t2) == s2.ansi = s.ansi /\ s2.params = s.params /\ t2.esc = t.esc

\* An escape sequence under way goes on behind what changes only the window.
LEMMA EscapeGoesOn ==
  ASSUME NEW s, NEW t, NEW s2, NEW t2, Escape(s, t), SameEscape(s, t, s2, t2)
  PROVE  Escape(s2, t2)
BY DEF Escape, SameEscape

LEMMA ScreenHas ==
  ASSUME NEW s \in Screens
  PROVE  /\ s.rows \in Seq(Rowed) /\ s.col \in Nat /\ s.open \in BOOLEAN
         /\ s.ansi \in 0 .. 2 /\ s.params \in Seq(Chars)
BY DEF Screens, Rowed

LEMMA TranscriptHas ==
  ASSUME NEW t \in Transcripts
  PROVE  /\ t.lines \in Seq(Rowed) /\ t.esc \in Seq(Chars) /\ t.fresh \in BOOLEAN
         /\ ~t.fresh => t.lines # <<>>
         /\ \A i \in DOMAIN t.lines : Len(t.lines[i]) <= RowWidth
BY DEF Transcripts

\* Rows and lines that belong together.
LEMMA NowPaired ==
  ASSUME NEW s, NEW t, Paired(s, t), NEW ls \in Seq(Rowed), NEW c \in Nat, NEW o \in BOOLEAN, NEW f, f = ~o,
         o => ls # <<>> /\ c = Len(ls[Len(ls)]), \A i \in DOMAIN ls : Len(ls[i]) <= RowWidth,
         NEW s2, s2 = [s EXCEPT !.rows = LastRows(ls), !.col = c, !.open = o],
         NEW t2, t2 = [t EXCEPT !.lines = ls, !.fresh = f]
  PROVE  Paired(s2, t2) /\ SameEscape(s, t, s2, t2)
<1>1. s \in Screens /\ t \in Transcripts /\ LastRows(ls) \in Seq(Rowed)
  BY LastRowsAre DEF Paired
<1>2. s2 \in Screens /\ s2.rows = LastRows(ls) /\ s2.col = c /\ s2.open = o
      /\ s2.ansi = s.ansi /\ s2.params = s.params
  BY <1>1 DEF Screens, Rowed
<1>3. t2 \in Transcripts /\ t2.lines = ls /\ t2.fresh = f /\ t2.esc = t.esc
  BY <1>1 DEF Transcripts
<1>. QED
  BY <1>2, <1>3 DEF Paired, Window, SameEscape

\* One line more.
LEMMA LinesGrow ==
  ASSUME NEW t \in Transcripts, NEW text \in Rowed, Len(text) <= RowWidth
  PROVE  LET ls == Append(t.lines, text)
         IN  /\ ls \in Seq(Rowed) /\ ls # <<>> /\ ls[Len(ls)] = text
             /\ \A i \in DOMAIN ls : Len(ls[i]) <= RowWidth
<1>. DEFINE all == t.lines
            ls == Append(all, text)
<1>1. all \in Seq(Rowed) /\ \A i \in DOMAIN all : Len(all[i]) <= RowWidth
  BY TranscriptHas
<1>. HIDE DEF all
<1>2. /\ ls \in Seq(Rowed) /\ Len(ls) = Len(all) + 1 /\ Len(all) \in Nat /\ DOMAIN ls = 1 .. Len(ls)
      /\ ls[Len(all) + 1] = text /\ DOMAIN all = 1 .. Len(all)
      /\ \A i \in 1 .. Len(all) : ls[i] = all[i]
  BY <1>1
<1>3. ASSUME NEW i \in DOMAIN ls PROVE Len(ls[i]) <= RowWidth
  BY <1>1, <1>2
<1>4. ls # <<>>
  BY <1>2
<1>. QED
  BY <1>2, <1>3, <1>4 DEF all

\* Another last line.
LEMMA LinesChange ==
  ASSUME NEW t \in Transcripts, t.lines # <<>>, NEW text \in Rowed, Len(text) <= RowWidth
  PROVE  LET ls == [t.lines EXCEPT ![Len(t.lines)] = text]
         IN  /\ ls \in Seq(Rowed) /\ ls # <<>> /\ ls[Len(ls)] = text
             /\ \A i \in DOMAIN ls : Len(ls[i]) <= RowWidth
<1>. DEFINE all == t.lines
            ls == [all EXCEPT ![Len(all)] = text]
<1>1. all \in Seq(Rowed) /\ all # <<>> /\ \A i \in DOMAIN all : Len(all[i]) <= RowWidth
  BY TranscriptHas
<1>. HIDE DEF all
<1>2. Len(all) \in 1 .. Len(all) /\ DOMAIN all = 1 .. Len(all)
  BY <1>1
<1>3. ls \in Seq(Rowed) /\ DOMAIN ls = DOMAIN all /\ Len(ls) = Len(all) /\ ls[Len(all)] = text
  BY <1>1, <1>2
<1>4. \A i \in DOMAIN ls : ls[i] = text \/ ls[i] = all[i]
  BY <1>3
<1>5. \A i \in DOMAIN ls : Len(ls[i]) <= RowWidth
  BY <1>1, <1>3, <1>4
<1>. QED
  BY <1>1, <1>2, <1>3, <1>5 DEF all

\* What AddRow does to the rows.
LEMMA AddRowIs ==
  ASSUME NEW s, NEW t, Paired(s, t), NEW text \in Rowed
  PROVE  AddRow(s, text) = [s EXCEPT !.rows = LastRows(Append(t.lines, text))]
<1>1. s \in Screens /\ t.lines \in Seq(Rowed) /\ s.rows = LastRows(t.lines)
  BY TranscriptHas DEF Paired, Window
<1>2. LastRows(Append(t.lines, text))
        = Append(IF Len(s.rows) >= Rows THEN SubSeq(s.rows, 2, Rows) ELSE s.rows, text)
  BY <1>1, LastRowsGrow
<1>. QED
  BY <1>1, <1>2 DEF AddRow

LEMMA WidthIsPositive == RowWidth \in Nat /\ RowWidth > 0 /\ Cols = RowWidth + 1
BY ScreenAssumption DEF RowWidth

LEMMA ClippedIs ==
  ASSUME NEW text \in Rowed
  PROVE  Clipped(text) \in Rowed /\ Len(Clipped(text)) <= RowWidth
<1>1. Len(text) \in Nat /\ text \in Seq(Chars)
  BY DEF Rowed
<1>2. CASE Len(text) < Cols
  BY <1>1, <1>2, WidthIsPositive DEF Clipped
<1>3. CASE ~(Len(text) < Cols)
  <2>1. Clipped(text) = SubSeq(text, 1, RowWidth)
    BY <1>3 DEF Clipped, RowWidth
  <2>2. SubSeq(text, 1, RowWidth) \in Seq(Chars) /\ Len(SubSeq(text, 1, RowWidth)) = RowWidth
    BY <1>1, <1>3, WidthIsPositive
  <2>. QED
    BY <2>1, <2>2, WidthIsPositive DEF Rowed
<1>. QED
  BY <1>2, <1>3

\* A message is a row of its own in both.
LEMMA PushAgrees ==
  ASSUME NEW s, NEW t, Paired(s, t), NEW text \in Rowed, NEW t2,
         t2 = [t EXCEPT !.lines = Append(@, Clipped(text)), !.fresh = TRUE]
  PROVE  Paired(Push(s, text), t2) /\ SameEscape(s, t, Push(s, text), t2)
<1>. DEFINE ls == Append(t.lines, Clipped(text))
<1>1. s \in Screens /\ t \in Transcripts
  BY DEF Paired
<1>2. Clipped(text) \in Rowed /\ Len(Clipped(text)) <= RowWidth
  BY ClippedIs
<1>3. ls \in Seq(Rowed) /\ ls # <<>> /\ \A i \in DOMAIN ls : Len(ls[i]) <= RowWidth
  BY <1>1, <1>2, LinesGrow
<1>4. AddRow(s, Clipped(text)) = [s EXCEPT !.rows = LastRows(ls)]
  BY <1>2, AddRowIs
<1>5. Push(s, text) = [s EXCEPT !.rows = LastRows(ls), !.col = 0, !.open = FALSE]
  BY <1>1, <1>4 DEF Push, Screens
<1>6. t2 = [t EXCEPT !.lines = ls, !.fresh = TRUE]
  BY <1>1 DEF Transcripts
<1>. HIDE DEF ls
<1>. QED
  BY <1>3, <1>5, <1>6, NowPaired

\* A line break ends the open row, or is an empty one.
LEMMA NewlineAgrees ==
  ASSUME NEW s, NEW t, Paired(s, t)
  PROVE  Paired(Newline(s), LineBreak(t)) /\ SameEscape(s, t, Newline(s), LineBreak(t))
<1>1. s \in Screens /\ t \in Transcripts /\ s.rows = LastRows(t.lines) /\ s.open = ~t.fresh
  BY DEF Paired, Window
<1>2. CASE s.open
  <2>1. Newline(s) = [s EXCEPT !.rows = LastRows(t.lines), !.col = 0, !.open = FALSE]
    BY <1>1, <1>2 DEF Newline, Screens
  <2>2. LineBreak(t) = [t EXCEPT !.lines = t.lines, !.fresh = TRUE]
    BY <1>1, <1>2 DEF LineBreak, Transcripts
  <2>3. t.lines \in Seq(Rowed) /\ \A i \in DOMAIN t.lines : Len(t.lines[i]) <= RowWidth
    BY <1>1, TranscriptHas
  <2>. QED
    BY <2>1, <2>2, <2>3, NowPaired
<1>3. CASE ~s.open
  <2>. DEFINE none == <<>>
              t2 == [t EXCEPT !.lines = Append(@, Clipped(none)), !.fresh = TRUE]
  <2>1. Newline(s) = Push(s, none) /\ none \in Rowed /\ Clipped(none) = none
    BY <1>3, ScreenAssumption DEF Newline, Rowed, Clipped
  <2>2. LineBreak(t) = t2
    BY <1>1, <1>3, <2>1, TranscriptHas DEF LineBreak
  <2>. HIDE DEF none
  <2>3. Paired(Push(s, none), t2) /\ SameEscape(s, t, Push(s, none), t2)
    BY <2>1, PushAgrees
  <2>. HIDE DEF t2
  <2>. QED
    BY <2>1, <2>2, <2>3
<1>. QED
  BY <1>2, <1>3

\* Clearing the window forgets the lines.
LEMMA ClearAgrees ==
  ASSUME NEW s, NEW t, Paired(s, t), NEW t2, t2 = [t EXCEPT !.lines = <<>>, !.fresh = TRUE]
  PROVE  Paired(Clear(s), t2) /\ SameEscape(s, t, Clear(s), t2)
<1>1. s \in Screens /\ t \in Transcripts
  BY DEF Paired
<1>2. Clear(s) = [s EXCEPT !.rows = LastRows(<<>>), !.col = 0, !.open = FALSE]
  BY NoRows DEF Clear
<1>3. <<>> \in Seq(Rowed) /\ \A i \in DOMAIN <<>> : Len(<<>>[i]) <= RowWidth
  OBVIOUS
<1>. QED
  BY <1>2, <1>3, NowPaired

\* A character behind others.
LEMMA NextCharAgrees ==
  ASSUME NEW s, NEW t, Paired(s, t), s.open, s.col < RowWidth, NEW ch \in Chars,
         NEW t2, t2 = [t EXCEPT !.lines[Len(t.lines)] = Append(@, ch)]
  PROVE  Paired(PutAt(s, ch), t2) /\ SameEscape(s, t, PutAt(s, ch), t2)
<1>. DEFINE all == t.lines
            old == all[Len(all)]
            new == Append(old, ch)
            ls == [all EXCEPT ![Len(all)] = new]
            w == s.rows
<1>1. /\ s \in Screens /\ t \in Transcripts /\ w = LastRows(all) /\ ~t.fresh /\ s.col = Len(old)
      /\ all \in Seq(Rowed) /\ all # <<>>
  BY TranscriptHas DEF Paired, Window
<1>2. old \in Seq(Chars) /\ SubSeq(old, 1, s.col) = old /\ Len(old) \in Nat
  <2>1. old \in Rowed
    BY <1>1
  <2>. HIDE DEF old
  <2>. QED
    BY <1>1, <2>1 DEF Rowed
<1>. HIDE DEF old
<1>3. new \in Rowed /\ Len(new) = s.col + 1 /\ Len(new) <= RowWidth
  BY <1>1, <1>2, WidthIsPositive DEF Rowed
<1>. HIDE DEF new
<1>4. ls \in Seq(Rowed) /\ ls # <<>> /\ ls[Len(ls)] = new /\ \A i \in DOMAIN ls : Len(ls[i]) <= RowWidth
  BY <1>1, <1>3, LinesChange
<1>5. w # <<>> /\ w[Len(w)] = old /\ LastRows(ls) = [w EXCEPT ![Len(w)] = new] /\ w \in Seq(Rowed)
  <2>. HIDE DEF all, w
  <2>. QED
    BY <1>1, <1>3, LastRowsAre, LastRowIsLast, LastRowsChange DEF old
<1>6. PutAt(s, ch) = [s EXCEPT !.rows = LastRows(ls), !.col = s.col + 1, !.open = TRUE]
  <2>1. Append(SubSeq(w[Len(w)], 1, s.col), ch) = new
    BY <1>2, <1>5 DEF new
  <2>. HIDE DEF ls, new
  <2>. QED
    BY <1>1, <1>5, <2>1 DEF PutAt, Screens
<1>7. t2 = [t EXCEPT !.lines = ls, !.fresh = FALSE]
  BY <1>1 DEF Transcripts, new, old
<1>8. s.col + 1 \in Nat
  BY <1>1, <1>2
<1>. HIDE DEF ls
<1>. QED
  BY <1>3, <1>4, <1>6, <1>7, <1>8, NowPaired

\* The first character of a row.
LEMMA FirstCharAgrees ==
  ASSUME NEW s, NEW t, Paired(s, t), NEW ch \in Chars,
         NEW o, o = [AddRow(s, <<>>) EXCEPT !.col = 0, !.open = TRUE],
         NEW t2, t2 = [t EXCEPT !.lines = Append(@, <<ch>>), !.fresh = FALSE]
  PROVE  Paired(PutAt(o, ch), t2) /\ SameEscape(s, t, PutAt(o, ch), t2)
<1>. DEFINE all == Append(t.lines, <<>>)
            ls == Append(t.lines, <<ch>>)
            n == Len(t.lines)
            t1 == [t EXCEPT !.lines = all, !.fresh = FALSE]
            t3 == [t1 EXCEPT !.lines[Len(t1.lines)] = Append(@, ch)]
<1>1. s \in Screens /\ t \in Transcripts /\ t.lines \in Seq(Rowed)
  BY TranscriptHas DEF Paired
<1>2. <<>> \in Rowed /\ Len(<<>>) = 0 /\ 0 <= RowWidth /\ 0 < RowWidth
  BY WidthIsPositive DEF Rowed
<1>3. all \in Seq(Rowed) /\ all # <<>> /\ all[Len(all)] = <<>> /\ \A i \in DOMAIN all : Len(all[i]) <= RowWidth
  BY <1>1, <1>2, LinesGrow
<1>4. o = [s EXCEPT !.rows = LastRows(all), !.col = 0, !.open = TRUE]
  <2>1. AddRow(s, <<>>) = [s EXCEPT !.rows = LastRows(all)]
    BY <1>2, AddRowIs
  <2>. HIDE DEF all
  <2>. QED
    BY <1>1, <2>1 DEF Screens
<1>5. Paired(o, t1) /\ SameEscape(s, t, o, t1)
  <2>. HIDE DEF all
  <2>. QED
    BY <1>2, <1>3, <1>4, NowPaired
<1>6. t1.lines = all /\ ~t1.fresh /\ t1 \in Transcripts
  <2>. HIDE DEF all
  <2>. QED
    BY <1>1, <1>5 DEF Transcripts, Paired
<1>7. o.open /\ o.col = 0
  BY <1>2, <1>3, <1>5, <1>6 DEF Paired, Window
<1>8. Paired(PutAt(o, ch), t3) /\ SameEscape(o, t1, PutAt(o, ch), t3)
  <2>. HIDE DEF t1
  <2>. QED
    BY <1>2, <1>5, <1>7, NextCharAgrees
<1>9. [all EXCEPT ![Len(all)] = Append(@, ch)] = ls
  <2>. DEFINE other == [all EXCEPT ![Len(all)] = <<ch>>]
  <2>1. /\ all \in Seq(Rowed) /\ Len(all) = n + 1 /\ all[n + 1] = <<>> /\ n \in Nat
        /\ \A i \in 1 .. n : all[i] = t.lines[i]
    BY <1>1, <1>2
  <2>2. <<ch>> \in Rowed /\ Append(<<>>, ch) = <<ch>>
    BY DEF Rowed
  <2>3. ls \in Seq(Rowed) /\ Len(ls) = n + 1 /\ ls[n + 1] = <<ch>> /\ \A i \in 1 .. n : ls[i] = t.lines[i]
    BY <1>1, <2>2
  <2>. HIDE DEF all, ls
  <2>4. other \in Seq(Rowed) /\ Len(other) = n + 1
    BY <2>1, <2>2
  <2>5. ASSUME NEW i \in 1 .. n + 1 PROVE other[i] = ls[i]
    <3>1. CASE i = n + 1
      BY <2>1, <2>3, <3>1
    <3>2. CASE i # n + 1
      <4>1. i \in 1 .. n
        BY <2>1, <3>2
      <4>. QED
        BY <2>1, <2>3, <3>2, <4>1
    <3>. QED
      BY <3>1, <3>2
  <2>6. other = ls
    <3>. HIDE DEF other
    <3>. QED
      BY <2>3, <2>4, <2>5, SeqEqual
  <2>7. Append(all[Len(all)], ch) = <<ch>>
    BY <2>1, <2>2
  <2>. QED
    BY <2>1, <2>6, <2>7
<1>10. t3 = t2
  <2>1. t3 = [t1 EXCEPT !.lines = ls]
    <3>. HIDE DEF all, ls, t1
    <3>. QED
      BY <1>6, <1>9
  <2>. HIDE DEF all
  <2>. QED
    BY <1>1, <2>1 DEF Transcripts
<1>. QED
  <2>. HIDE DEF t1, t3
  <2>. QED
    BY <1>5, <1>8, <1>10 DEF SameEscape

\* A character opens a row, begins another, or follows the ones of its row.
LEMMA CharAgrees ==
  ASSUME NEW s, NEW t, Paired(s, t), NEW ch \in Chars
  PROVE  Paired(PutChar(s, ch), WithChar(t, ch)) /\ SameEscape(s, t, PutChar(s, ch), WithChar(t, ch))
<1>1. s \in Screens /\ t \in Transcripts /\ s.open = ~t.fresh
  BY DEF Paired, Window
<1>2. CASE ~s.open
  <2>. DEFINE o == [AddRow(s, <<>>) EXCEPT !.col = 0, !.open = TRUE]
  <2>1. StartOutputLine(s) = o
    BY <1>2 DEF StartOutputLine
  <2>2. o.col = 0
    BY <1>1 DEF AddRow, Screens
  <2>3. PutChar(s, ch) = PutAt(o, ch)
    <3>. HIDE DEF o
    <3>. QED
      BY <2>1, <2>2, WidthIsPositive DEF PutChar
  <2>4. WithChar(t, ch) = [t EXCEPT !.lines = Append(@, <<ch>>), !.fresh = FALSE]
    BY <1>1, <1>2 DEF WithChar
  <2>. DEFINE t2 == [t EXCEPT !.lines = Append(@, <<ch>>), !.fresh = FALSE]
  <2>5. Paired(PutAt(o, ch), t2) /\ SameEscape(s, t, PutAt(o, ch), t2)
    BY FirstCharAgrees
  <2>. HIDE DEF o, t2
  <2>6. WithChar(t, ch) = t2
    BY <2>4 DEF t2
  <2>. QED
    BY <2>3, <2>5, <2>6
<1>3. CASE s.open
  <2>1. StartOutputLine(s) = s
    BY <1>3 DEF StartOutputLine
  <2>2. /\ t.lines # <<>> /\ t.lines \in Seq(Rowed) /\ s.col = Len(t.lines[Len(t.lines)])
        /\ s.col \in Nat /\ s.col <= RowWidth
    <3>1. t.lines # <<>> /\ t.lines \in Seq(Rowed) /\ \A i \in DOMAIN t.lines : Len(t.lines[i]) <= RowWidth
      BY <1>1, <1>3, TranscriptHas
    <3>2. Len(t.lines) \in DOMAIN t.lines
      BY <3>1
    <3>3. s.col \in Nat /\ s.col = Len(t.lines[Len(t.lines)])
      BY <1>1, <1>3, ScreenHas DEF Paired, Window
    <3>. QED
      BY <3>1, <3>2, <3>3
  <2>3. CASE s.col < RowWidth
    <3>1. PutChar(s, ch) = PutAt(s, ch)
      BY <2>1, <2>2, <2>3, WidthIsPositive DEF PutChar
    <3>2. WithChar(t, ch) = [t EXCEPT !.lines[Len(t.lines)] = Append(@, ch)]
      <4>1. ~t.fresh /\ Len(t.lines[Len(t.lines)]) # RowWidth
        <5>1. ~t.fresh
          BY <1>3, TranscriptHas DEF Paired, Window
        <5>. QED
          BY <2>2, <2>3, <5>1, WidthIsPositive
      <4>. QED
        BY <4>1 DEF WithChar
    <3>. QED
      BY <1>3, <2>3, <3>1, <3>2, NextCharAgrees
  <2>4. CASE ~(s.col < RowWidth)
    <3>. DEFINE n == Newline(s)
                t1 == LineBreak(t)
                o == [AddRow(n, <<>>) EXCEPT !.col = 0, !.open = TRUE]
                t2 == [t1 EXCEPT !.lines = Append(@, <<ch>>), !.fresh = FALSE]
    <3>1. Paired(n, t1) /\ SameEscape(s, t, n, t1)
      BY NewlineAgrees
    <3>2. n = [s EXCEPT !.col = 0, !.open = FALSE] /\ ~n.open
      BY <1>1, <1>3 DEF Newline, Screens
    <3>3. t1 = [t EXCEPT !.lines = t.lines, !.fresh = TRUE]
      BY <1>1, <1>3 DEF LineBreak
    <3>4. StartOutputLine(n) = o
      <4>. HIDE DEF n
      <4>. QED
        BY <3>2 DEF StartOutputLine
    <3>5. PutChar(s, ch) = PutAt(o, ch)
      <4>1. s.col + 1 >= Cols
        BY <2>2, <2>4, WidthIsPositive
      <4>. HIDE DEF o
      <4>. QED
        BY <2>1, <3>4, <4>1 DEF PutChar
    <3>6. Paired(PutAt(o, ch), t2) /\ SameEscape(n, t1, PutAt(o, ch), t2)
      <4>. HIDE DEF n, t1
      <4>. QED
        BY <3>1, FirstCharAgrees
    <3>7. WithChar(t, ch) = [t EXCEPT !.lines = Append(@, <<ch>>)]
      <4>1. ~t.fresh /\ Len(t.lines[Len(t.lines)]) = RowWidth
        <5>1. ~t.fresh
          BY <1>3, TranscriptHas DEF Paired, Window
        <5>. QED
          BY <2>2, <2>4, <5>1, WidthIsPositive
      <4>. QED
        BY <4>1 DEF WithChar
    <3>8. t2 = [t EXCEPT !.lines = Append(@, <<ch>>)]
      <4>1. t1.lines = t.lines
        BY <1>1, <3>3 DEF Transcripts
      <4>. QED
        BY <1>1, <1>3, <3>3, <4>1 DEF Transcripts
    <3>. HIDE DEF n, t1, o, t2
    <3>. QED
      BY <3>1, <3>5, <3>6, <3>7, <3>8 DEF SameEscape
  <2>. QED
    BY <2>3, <2>4
<1>. QED
  BY <1>2, <1>3

LEMMA SameEscapeFollows ==
  ASSUME NEW s, NEW t, NEW s1, NEW t1, NEW s2, NEW t2,
         SameEscape(s, t, s1, t1), SameEscape(s1, t1, s2, t2)
  PROVE  SameEscape(s, t, s2, t2)
BY DEF SameEscape

WithRow(s, text) == [s EXCEPT !.rows[Len(s.rows)] = text, !.col = Len(text)]

\* The text of an open row is replaced.
LEMMA RowChanges ==
  ASSUME NEW s, NEW t, Paired(s, t), s.open, NEW text \in Rowed, Len(text) <= RowWidth
  PROVE  /\ Paired(WithRow(s, text), LastLine(t, text))
         /\ SameEscape(s, t, WithRow(s, text), LastLine(t, text))
<1>. DEFINE all == t.lines
            s2 == WithRow(s, text)
            t2 == LastLine(t, text)
            c == Len(text)
            ls == [all EXCEPT ![Len(all)] = text]
            w == s.rows
<1>1. /\ s \in Screens /\ t \in Transcripts /\ w = LastRows(all) /\ ~t.fresh
      /\ all \in Seq(Rowed) /\ all # <<>>
  BY TranscriptHas DEF Paired, Window
<1>2. ls \in Seq(Rowed) /\ ls # <<>> /\ ls[Len(ls)] = text /\ \A i \in DOMAIN ls : Len(ls[i]) <= RowWidth
  BY <1>1, LinesChange
<1>3. LastRows(ls) = [w EXCEPT ![Len(w)] = text]
  <2>. HIDE DEF all, w
  <2>. QED
    BY <1>1, LastRowsChange
<1>4. s2 = [s EXCEPT !.rows = LastRows(ls), !.col = c, !.open = TRUE]
  <2>. HIDE DEF ls
  <2>. QED
    BY <1>1, <1>3 DEF Screens, WithRow
<1>5. t2 = [t EXCEPT !.lines = ls, !.fresh = FALSE]
  BY <1>1 DEF Transcripts, LastLine
<1>. HIDE DEF s2, t2
<1>6. c \in Nat /\ c = Len(ls[Len(ls)]) /\ FALSE = ~TRUE
  BY <1>2 DEF Rowed
<1>. HIDE DEF ls, c
<1>7. TRUE => ls # <<>> /\ c = Len(ls[Len(ls)])
  BY <1>2, <1>6
<1>8. Paired(s2, t2) /\ SameEscape(s, t, s2, t2)
  BY <1>2, <1>4, <1>5, <1>6, <1>7, NowPaired
<1>. QED
  BY <1>8 DEF s2, t2

\* A backspace takes the last character of an open row.
LEMMA BackspaceAgrees ==
  ASSUME NEW s, NEW t, Paired(s, t), NEW t2,
         t2 = IF t.fresh \/ t.lines[Len(t.lines)] = <<>> THEN t
              ELSE LastLine(t, SubSeq(t.lines[Len(t.lines)], 1, Len(t.lines[Len(t.lines)]) - 1))
  PROVE  Paired(Backspace(s), t2) /\ SameEscape(s, t, Backspace(s), t2)
<1>1. s \in Screens /\ t \in Transcripts /\ s.open = ~t.fresh
  BY DEF Paired, Window
<1>2. CASE ~s.open
  BY <1>1, <1>2 DEF Backspace, SameEscape
<1>3. CASE s.open
  <2>. DEFINE old == t.lines[Len(t.lines)]
  <2>1. /\ t.lines # <<>> /\ t.lines \in Seq(Rowed) /\ s.col = Len(old) /\ s.rows = LastRows(t.lines)
        /\ \A i \in DOMAIN t.lines : Len(t.lines[i]) <= RowWidth
    BY <1>1, <1>3, TranscriptHas DEF Paired, Window
  <2>2. old \in Rowed /\ Len(old) <= RowWidth
    BY <2>1
  <2>3. s.rows[Len(s.rows)] = old
    <3>. HIDE DEF old
    <3>1. s.rows[Len(s.rows)] = t.lines[Len(t.lines)]
      BY <2>1, LastRowIsLast
    <3>. QED
      BY <3>1 DEF old
  <2>. HIDE DEF old
  <2>4. CASE old = <<>>
    <3>1. s.col = 0 /\ t2 = t
      BY <2>1, <2>4 DEF old
    <3>. QED
      BY <3>1 DEF Backspace, SameEscape
  <2>5. CASE old # <<>>
    <3>. DEFINE text == SubSeq(old, 1, s.col - 1)
    <3>1. old \in Seq(Chars) /\ s.col \in Nat /\ s.col > 0
      BY <2>1, <2>2, <2>5 DEF Rowed
    <3>2. text \in Rowed /\ Len(text) = s.col - 1 /\ Len(text) <= RowWidth
      <4>1. s.col - 1 \in 0 .. Len(old) /\ Len(old) \in Nat /\ s.col = Len(old)
        BY <2>1, <3>1
      <4>2. text \in Seq(Chars)
        BY <3>1, <4>1
      <4>3. Len(text) = s.col - 1
        <5>1. CASE s.col = 1
          BY <5>1
        <5>2. CASE s.col > 1
          BY <3>1, <4>1, <5>2
        <5>. QED
          BY <3>1, <5>1, <5>2
      <4>. QED
        BY <2>2, <4>1, <4>2, <4>3, WidthIsPositive DEF Rowed
    <3>3. t2 = LastLine(t, text)
      BY <1>1, <1>3, <2>1, <2>5 DEF old
    <3>4. Backspace(s) = WithRow(s, text)
      <4>1. Backspace(s) = [s EXCEPT !.rows[Len(s.rows)] = text, !.col = s.col - 1]
        BY <1>1, <1>3, <2>3, <3>1 DEF Backspace, Screens
      <4>. HIDE DEF text
      <4>. QED
        BY <3>2, <4>1 DEF WithRow
    <3>. HIDE DEF text
    <3>. QED
      BY <1>3, <3>2, <3>3, <3>4, RowChanges
  <2>. QED
    BY <2>4, <2>5
<1>. QED
  BY <1>2, <1>3

\* What neither is written nor stands for anything else leaves both alone.
LEMMA SpokenAgrees ==
  ASSUME NEW s, NEW t, Paired(s, t), Escape(s, t), s.ansi = 0, NEW ch \in Chars
  PROVE  Paired(OutputChar(s, ch), Spoken(t, ch)) /\ Escape(OutputChar(s, ch), Spoken(t, ch))
<1>. DEFINE s2 == OutputChar(s, ch)
            t2 == Spoken(t, ch)
<1>1. s \in Screens /\ t \in Transcripts
  BY DEF Paired
<1>2. CASE ch = "ESC"
  <2>1. s2 = [s EXCEPT !.ansi = 1] /\ t2 = [t EXCEPT !.esc = <<ch>>]
    BY <1>2 DEF OutputChar, Spoken
  <2>. HIDE DEF s2, t2
  <2>2. /\ s2 \in Screens /\ s2.rows = s.rows /\ s2.col = s.col /\ s2.open = s.open
        /\ s2.ansi = 1
    <3>1. s2 = [s EXCEPT !.ansi = 1]
      BY <2>1
    <3>. QED
      BY <1>1, <3>1 DEF Screens
  <2>3. t2 \in Transcripts /\ t2.lines = t.lines /\ t2.fresh = t.fresh /\ t2.esc = <<"ESC">>
    <3>1. t2 = [t EXCEPT !.esc = <<ch>>] /\ <<ch>> \in Seq(Chars)
      BY <2>1
    <3>. QED
      BY <1>1, <1>2, <3>1 DEF Transcripts
  <2>4. Paired(s2, t2) /\ Escape(s2, t2)
    BY <2>2, <2>3 DEF Paired, Window, Escape
  <2>. QED
    BY <2>4 DEF s2, t2
<1>3. CASE ch = "NL"
  <2>1. s2 = Newline(s) /\ t2 = LineBreak(t)
    BY <1>3 DEF OutputChar, Spoken
  <2>. HIDE DEF s2, t2
  <2>2. Paired(s2, t2) /\ SameEscape(s, t, s2, t2)
    BY <2>1, NewlineAgrees
  <2>3. Paired(s2, t2) /\ Escape(s2, t2)
    BY <2>2, EscapeGoesOn
  <2>. QED
    BY <2>3 DEF s2, t2
<1>4. CASE ch = "BS"
  <2>1. s2 = Backspace(s)
    BY <1>4 DEF OutputChar
  <2>2. t2 = IF t.fresh \/ t.lines[Len(t.lines)] = <<>> THEN t
             ELSE LastLine(t, SubSeq(t.lines[Len(t.lines)], 1, Len(t.lines[Len(t.lines)]) - 1))
    BY <1>4 DEF Spoken
  <2>. HIDE DEF s2, t2
  <2>3. Paired(s2, t2) /\ SameEscape(s, t, s2, t2)
    BY <2>1, <2>2, BackspaceAgrees
  <2>4. Paired(s2, t2) /\ Escape(s2, t2)
    BY <2>3, EscapeGoesOn
  <2>. QED
    BY <2>4 DEF s2, t2
<1>5. CASE ch = "TAB"
  <2>. DEFINE sa == PutChar(s, " ")
              sb == PutChar(sa, " ")
              sc == PutChar(sb, " ")
              sd == PutChar(sc, " ")
              ta == WithChar(t, " ")
              tb == WithChar(ta, " ")
              tc == WithChar(tb, " ")
              td == WithChar(tc, " ")
  <2>1. s2 = sd /\ t2 = td
    BY <1>5 DEF OutputChar, Spoken
  <2>2. " " \in Chars
    BY CharsAssumption
  <2>. HIDE DEF s2, t2
  <2>3. Paired(sa, ta) /\ SameEscape(s, t, sa, ta)
    BY <2>2, CharAgrees
  <2>4. Paired(sb, tb) /\ SameEscape(sa, ta, sb, tb)
    <3>. HIDE DEF sa, ta
    <3>. QED
      BY <2>2, <2>3, CharAgrees
  <2>5. Paired(sc, tc) /\ SameEscape(sb, tb, sc, tc)
    <3>. HIDE DEF sb, tb
    <3>. QED
      BY <2>2, <2>4, CharAgrees
  <2>6. Paired(sd, td) /\ SameEscape(sc, tc, sd, td)
    <3>. HIDE DEF sc, tc
    <3>. QED
      BY <2>2, <2>5, CharAgrees
  <2>. HIDE DEF sa, sb, sc, sd, ta, tb, tc, td
  <2>7. SameEscape(s, t, sd, td)
    BY <2>3, <2>4, <2>5, <2>6, SameEscapeFollows
  <2>8. Paired(s2, t2) /\ Escape(s2, t2)
    BY <2>1, <2>6, <2>7, EscapeGoesOn
  <2>. QED
    BY <2>8 DEF s2, t2
<1>6. CASE ch \in {"CR", "BEL"}
  <2>1. s2 = s
    BY <1>6 DEF OutputChar
  <2>2. t2 = t
    BY <1>6 DEF Spoken
  <2>. QED
    BY <2>1, <2>2
<1>7. CASE ch \notin {"ESC", "NL", "BS", "TAB", "CR", "BEL"}
  <2>1. s2 = PutChar(s, ch) /\ t2 = WithChar(t, ch)
    <3>1. s2 = PutChar(s, ch)
      <4>1. /\ s.ansi # 1 /\ s.ansi # 2 /\ ch # "ESC" /\ ch # "NL" /\ ch # "BS" /\ ch # "TAB"
            /\ ~(ch \in {"CR", "BEL"})
        BY <1>7
      <4>. QED
        BY <4>1 DEF OutputChar
    <3>2. t2 = WithChar(t, ch)
      BY <1>7 DEF Spoken
    <3>. QED
      BY <3>1, <3>2
  <2>. HIDE DEF s2, t2
  <2>2. Paired(s2, t2) /\ SameEscape(s, t, s2, t2)
    BY <2>1, CharAgrees
  <2>3. Paired(s2, t2) /\ Escape(s2, t2)
    BY <2>2, EscapeGoesOn
  <2>. QED
    BY <2>3 DEF s2, t2
<1>. QED
  BY <1>2, <1>3, <1>4, <1>5, <1>6, <1>7

\* A character of the output is spoken, or goes on with the escape sequence.
LEMMA CharEvent ==
  ASSUME NEW ch \in Chars, NEW t, NEW e, ~e.row, e.text = ch
  PROVE  /\ t.esc = <<>> => Event(t, e) = Spoken(t, ch)
         /\ t.esc # <<>> => Event(t, e) = IF Whole(Append(t.esc, ch)) THEN Escaped(t, Append(t.esc, ch))
                                          ELSE [t EXCEPT !.esc = Append(t.esc, ch)]
<1>1. ch # "CLEAR" /\ ch # "END"
  BY CharsAssumption
<1>. QED
  BY <1>1, Zenon DEF Event

\* A screen and a transcript with another state of the escape sequence.
SetAnsi(s, a, p) == [s EXCEPT !.ansi = a, !.params = p]
SetEsc(t, e) == [t EXCEPT !.esc = e]

LEMMA StillPaired ==
  ASSUME NEW s, NEW t, Paired(s, t), NEW a \in 0 .. 2, NEW p \in Seq(Chars), NEW e \in Seq(Chars)
  PROVE  /\ Paired(SetAnsi(s, a, p), SetEsc(t, e))
         /\ SetAnsi(s, a, p).ansi = a /\ SetAnsi(s, a, p).params = p /\ SetEsc(t, e).esc = e
<1>. DEFINE s2 == SetAnsi(s, a, p)
            t2 == SetEsc(t, e)
<1>1. s \in Screens /\ t \in Transcripts /\ Window(s, t)
  BY DEF Paired
<1>2. /\ s2 \in Screens /\ s2.rows = s.rows /\ s2.col = s.col /\ s2.open = s.open
      /\ s2.ansi = a /\ s2.params = p
  BY <1>1 DEF Screens, SetAnsi
<1>3. t2 \in Transcripts /\ t2.lines = t.lines /\ t2.fresh = t.fresh /\ t2.esc = e
  BY <1>1 DEF Transcripts, SetEsc
<1>. HIDE DEF s2, t2
<1>4. Paired(s2, t2)
  BY <1>1, <1>2, <1>3 DEF Paired, Window
<1>. QED
  BY <1>2, <1>3, <1>4 DEF s2, t2

LEMMA EscapeIsOver ==
  ASSUME NEW s, NEW t, Paired(s, t), NEW p \in Seq(Chars)
  PROVE  /\ Paired(SetAnsi(s, 0, p), SetEsc(t, <<>>))
         /\ Escape(SetAnsi(s, 0, p), SetEsc(t, <<>>))
<1>. DEFINE zero == 0
            none == <<>>
            s2 == SetAnsi(s, zero, p)
            t2 == SetEsc(t, none)
<1>1. none \in Seq(Chars) /\ zero \in 0 .. 2
  OBVIOUS
<1>. HIDE DEF zero, none
<1>2. Paired(s2, t2) /\ s2.ansi = zero /\ t2.esc = none
  BY <1>1, StillPaired
<1>. HIDE DEF s2, t2
<1>3. Paired(s2, t2) /\ Escape(s2, t2)
  BY <1>2 DEF Escape, zero, none
<1>. QED
  BY <1>3 DEF s2, t2, zero, none

\* Behind the escape character: the bracket goes on, all else is the end.
LEMMA EscapeBegins ==
  ASSUME NEW s, NEW t, Paired(s, t), Escape(s, t), s.ansi = 1, NEW ch \in Chars,
         NEW e, ~e.row, e.text = ch
  PROVE  Paired(OutputChar(s, ch), Event(t, e)) /\ Escape(OutputChar(s, ch), Event(t, e))
<1>. DEFINE p == Append(t.esc, ch)
<1>1. s \in Screens /\ t \in Transcripts /\ t.esc = <<"ESC">> /\ t.esc \in Seq(Chars)
  BY TranscriptHas DEF Paired, Escape
<1>2. p \in Seq(Chars) /\ Len(p) = 2 /\ p[1] = "ESC" /\ p[2] = ch /\ Len(t.esc) = 1
  BY <1>1
<1>3. Event(t, e) = IF Whole(p) THEN Escaped(t, p) ELSE SetEsc(t, p)
  <2>1. t.esc # <<>>
    BY <1>1
  <2>2. Event(t, e) = IF Whole(p) THEN Escaped(t, p) ELSE [t EXCEPT !.esc = p]
    BY <2>1, CharEvent
  <2>. HIDE DEF p
  <2>. QED
    BY <2>2 DEF SetEsc
<1>. HIDE DEF p
<1>4. AnsiMax \in Nat /\ AnsiMax > 0
  BY ScreenAssumption
<1>5. CASE ch = "["
  <2>1. Event(t, e) = SetEsc(t, p)
    BY <1>2, <1>3, <1>5 DEF Whole
  <2>2. OutputChar(s, ch) = SetAnsi(s, 2, <<>>)
    BY <1>5 DEF OutputChar, SetAnsi
  <2>. DEFINE s2 == SetAnsi(s, 2, <<>>)
              t2 == SetEsc(t, p)
  <2>3. Paired(s2, t2) /\ s2.ansi = 2 /\ s2.params = <<>> /\ t2.esc = p
    <3>. DEFINE two == 2
                none == <<>>
    <3>1. none \in Seq(Chars) /\ two \in 0 .. 2
      OBVIOUS
    <3>. HIDE DEF two, none
    <3>2. /\ Paired(SetAnsi(s, two, none), SetEsc(t, p))
          /\ SetAnsi(s, two, none).ansi = two /\ SetAnsi(s, two, none).params = none /\ SetEsc(t, p).esc = p
      BY <1>2, <3>1, StillPaired
    <3>. QED
      BY <3>2 DEF two, none
  <2>. HIDE DEF s2, t2
  <2>4. /\ Len(t2.esc) = 2 /\ t2.esc[1] = "ESC" /\ t2.esc[2] = "["
        /\ \A i \in 3 .. Len(t2.esc) : t2.esc[i] \in Inner
        /\ Len(s2.params) = 0 /\ \A i \in DOMAIN s2.params : s2.params[i] = t2.esc[i + 2]
    <3>1. Len(t2.esc) = 2 /\ t2.esc[1] = "ESC" /\ t2.esc[2] = "["
      BY <1>2, <1>5, <2>3
    <3>2. \A i \in 3 .. 2 : t2.esc[i] \in Inner
      OBVIOUS
    <3>3. Len(<<>>) = 0 /\ \A i \in DOMAIN <<>> : <<>>[i] = t2.esc[i + 2]
      OBVIOUS
    <3>. QED
      BY <2>3, <3>1, <3>2, <3>3
  <2>5. Escape(s2, t2)
    BY <1>4, <2>3, <2>4 DEF Escape
  <2>. QED
    BY <2>1, <2>2, <2>3, <2>5 DEF s2, t2
<1>6. CASE ch # "["
  <2>1. Whole(p)
    BY <1>2, <1>6 DEF Whole
  <2>2. Escaped(t, p) = SetEsc(t, <<>>)
    <3>1. ~(p[Len(p)] = "J" /\ \E i \in DOMAIN p : i <= AnsiMax + 1 /\ p[i] \in {"2", "3"})
      BY <1>2
    <3>. QED
      BY <1>2, <3>1 DEF Escaped, SetEsc
  <2>3. OutputChar(s, ch) = SetAnsi(s, 0, s.params)
    <3>1. OutputChar(s, ch) = [s EXCEPT !.ansi = 0]
      BY <1>6 DEF OutputChar
    <3>2. [s EXCEPT !.ansi = 0] = [s EXCEPT !.ansi = 0, !.params = s.params]
      BY <1>1 DEF Screens
    <3>. QED
      BY <3>1, <3>2 DEF SetAnsi
  <2>4. Paired(SetAnsi(s, 0, s.params), SetEsc(t, <<>>)) /\ Escape(SetAnsi(s, 0, s.params), SetEsc(t, <<>>))
    BY <1>1, ScreenHas, EscapeIsOver
  <2>. HIDE DEF p
  <2>. QED
    BY <1>3, <2>1, <2>2, <2>3, <2>4
<1>. QED
  BY <1>5, <1>6

LEMMA EscapeIs ==
  ASSUME NEW s, NEW t, Paired(s, t), Escape(s, t), s.ansi = 2
  PROVE  /\ Len(t.esc) >= 2 /\ t.esc[1] = "ESC" /\ t.esc[2] = "["
         /\ \A i \in 3 .. Len(t.esc) : t.esc[i] \in Inner
         /\ Len(s.params) = IF Len(t.esc) <= AnsiMax + 1 THEN Len(t.esc) - 2 ELSE AnsiMax - 1
         /\ \A i \in DOMAIN s.params : s.params[i] = t.esc[i + 2]
BY DEF Escape

\* A parameter is kept while there is room for it.
LEMMA EscapeGrows ==
  ASSUME NEW s, NEW t, Paired(s, t), Escape(s, t), s.ansi = 2, NEW ch \in Chars, ch \in Inner,
         NEW e, ~e.row, e.text = ch
  PROVE  Paired(OutputChar(s, ch), Event(t, e)) /\ Escape(OutputChar(s, ch), Event(t, e))
<1>. DEFINE p == Append(t.esc, ch)
            n == Len(t.esc)
            q == IF Len(s.params) + 1 < AnsiMax THEN Append(s.params, ch) ELSE s.params
            m == Len(s.params)
            s2 == SetAnsi(s, 2, q)
            t2 == SetEsc(t, p)
<1>1. /\ s \in Screens /\ t \in Transcripts /\ t.esc \in Seq(Chars) /\ s.params \in Seq(Chars)
      /\ n \in Nat /\ m \in Nat /\ AnsiMax \in Nat /\ AnsiMax > 0
  BY TranscriptHas, ScreenHas, ScreenAssumption DEF Paired
<1>2. /\ n >= 2 /\ t.esc[1] = "ESC" /\ t.esc[2] = "["
      /\ \A i \in 3 .. n : t.esc[i] \in Inner
      /\ m = IF n <= AnsiMax + 1 THEN n - 2 ELSE AnsiMax - 1
      /\ \A i \in 1 .. m : s.params[i] = t.esc[i + 2]
  BY <1>1, EscapeIs
<1>3. /\ p \in Seq(Chars) /\ Len(p) = n + 1 /\ p[n + 1] = ch /\ \A i \in 1 .. n : p[i] = t.esc[i]
  BY <1>1
<1>4. Event(t, e) = t2
  <2>1. t.esc # <<>>
    BY <1>1, <1>2
  <2>2. ~Whole(p)
    BY <1>1, <1>2, <1>3 DEF Whole
  <2>3. Event(t, e) = IF Whole(p) THEN Escaped(t, p) ELSE [t EXCEPT !.esc = p]
    BY <2>1, CharEvent
  <2>. HIDE DEF p
  <2>. QED
    BY <2>2, <2>3 DEF SetEsc
<1>5. OutputChar(s, ch) = s2
  <2>1. OutputChar(s, ch) = IF Len(s.params) + 1 < AnsiMax THEN [s EXCEPT !.params = Append(@, ch)] ELSE s
    BY DEF OutputChar
  <2>2. CASE Len(s.params) + 1 < AnsiMax
    BY <1>1, <2>1, <2>2 DEF SetAnsi, Screens
  <2>3. CASE ~(Len(s.params) + 1 < AnsiMax)
    BY <1>1, <2>1, <2>3 DEF SetAnsi, Screens
  <2>. QED
    BY <2>2, <2>3
<1>6. /\ q \in Seq(Chars) /\ Len(q) = IF n + 1 <= AnsiMax + 1 THEN n - 1 ELSE AnsiMax - 1
      /\ \A i \in 1 .. Len(q) : q[i] = p[i + 2]
  <2>1. CASE m + 1 < AnsiMax
    <3>1. q = Append(s.params, ch) /\ m = n - 2 /\ n + 1 <= AnsiMax + 1
      BY <1>1, <1>2, <2>1
    <3>2. q \in Seq(Chars) /\ Len(q) = n - 1 /\ q[n - 1] = ch /\ \A i \in 1 .. m : q[i] = s.params[i]
      BY <1>1, <3>1
    <3>3. ASSUME NEW i \in 1 .. n - 1 PROVE q[i] = p[i + 2]
      <4>1. CASE i = n - 1
        BY <1>1, <1>3, <3>2, <4>1
      <4>2. CASE i # n - 1
        <5>1. i \in 1 .. m /\ i + 2 \in 1 .. n
          BY <1>1, <1>2, <3>1, <4>2
        <5>. HIDE DEF q, p, m, n
        <5>. QED
          BY <1>2, <1>3, <3>2, <5>1
      <4>. QED
        BY <4>1, <4>2
    <3>. HIDE DEF q, p
    <3>. QED
      BY <1>1, <3>1, <3>2, <3>3
  <2>2. CASE ~(m + 1 < AnsiMax)
    <3>1. q = s.params /\ m = AnsiMax - 1 /\ ~(n + 1 <= AnsiMax + 1)
      BY <1>1, <1>2, <2>2
    <3>2. ASSUME NEW i \in 1 .. m PROVE q[i] = p[i + 2]
      <4>1. i + 2 \in 1 .. n
        BY <1>1, <1>2
      <4>. HIDE DEF p, m, n, q
      <4>. QED
        BY <1>2, <1>3, <3>1, <4>1
    <3>. HIDE DEF p, q
    <3>. QED
      BY <1>1, <3>1, <3>2
  <2>. QED
    BY <2>1, <2>2
<1>. HIDE DEF p, q
<1>7. Paired(s2, t2) /\ s2.ansi = 2 /\ s2.params = q /\ t2.esc = p
  BY <1>3, <1>6, StillPaired
<1>. HIDE DEF s2, t2
<1>8. Escape(s2, t2)
  <2>1. Len(p) >= 2 /\ p[1] = "ESC" /\ p[2] = "["
    <3>1. n + 1 >= 2 /\ 1 \in 1 .. n /\ 2 \in 1 .. n
      BY <1>1, <1>2
    <3>2. p[1] = t.esc[1] /\ p[2] = t.esc[2] /\ Len(p) = n + 1
      BY <1>3, <3>1
    <3>. HIDE DEF n
    <3>. QED
      BY <1>2, <3>1, <3>2
  <2>2. ASSUME NEW i \in 3 .. Len(p) PROVE p[i] \in Inner
    <3>1. CASE i = n + 1
      BY <1>3, <3>1
    <3>2. CASE i # n + 1
      <4>1. i \in 3 .. n /\ i \in 1 .. n
        BY <1>1, <1>3, <3>2
      <4>. QED
        BY <1>2, <1>3, <4>1
    <3>. QED
      BY <3>1, <3>2
  <2>3. Len(q) = IF Len(p) <= AnsiMax + 1 THEN Len(p) - 2 ELSE AnsiMax - 1
    BY <1>1, <1>3, <1>6
  <2>4. \A i \in DOMAIN q : q[i] = p[i + 2]
    BY <1>6
  <2>. QED
    BY <1>7, <2>1, <2>2, <2>3, <2>4 DEF Escape
<1>. QED
  BY <1>4, <1>5, <1>7, <1>8

\* The end of a sequence does the same to both.
LEMMA EscapeEnds ==
  ASSUME NEW s, NEW t, Paired(s, t), Escape(s, t), s.ansi = 2, NEW ch \in Chars, ch \notin Inner,
         NEW e, ~e.row, e.text = ch
  PROVE  Paired(OutputChar(s, ch), Event(t, e)) /\ Escape(OutputChar(s, ch), Event(t, e))
<1>. DEFINE p == Append(t.esc, ch)
            n == Len(t.esc)
            m == Len(s.params)
            digits == \E i \in DOMAIN s.params : s.params[i] \in {"2", "3"}
<1>1. /\ s \in Screens /\ t \in Transcripts /\ t.esc \in Seq(Chars) /\ s.params \in Seq(Chars)
      /\ n \in Nat /\ m \in Nat /\ AnsiMax \in Nat /\ AnsiMax > 0 /\ <<>> \in Seq(Chars)
  BY TranscriptHas, ScreenHas, ScreenAssumption DEF Paired
<1>2. /\ n >= 2 /\ t.esc[1] = "ESC" /\ t.esc[2] = "["
      /\ m = IF n <= AnsiMax + 1 THEN n - 2 ELSE AnsiMax - 1
      /\ \A i \in 1 .. m : s.params[i] = t.esc[i + 2]
  BY <1>1, EscapeIs
<1>3. /\ p \in Seq(Chars) /\ Len(p) = n + 1 /\ p[n + 1] = ch /\ \A i \in 1 .. n : p[i] = t.esc[i]
      /\ DOMAIN p = 1 .. n + 1
  BY <1>1
<1>4. Event(t, e) = Escaped(t, p)
  <2>1. t.esc # <<>>
    BY <1>1, <1>2
  <2>2. Whole(p)
    BY <1>1, <1>2, <1>3 DEF Whole
  <2>3. Event(t, e) = IF Whole(p) THEN Escaped(t, p) ELSE [t EXCEPT !.esc = p]
    BY <2>1, CharEvent
  <2>. HIDE DEF p
  <2>. QED
    BY <2>2, <2>3
<1>5. OutputChar(s, ch) = SetAnsi(HandleAnsi(s, ch), 0, <<>>)
  BY DEF OutputChar, SetAnsi
<1>6. ASSUME ch = "J" PROVE digits <=> \E i \in DOMAIN p : i <= AnsiMax + 1 /\ p[i] \in {"2", "3"}
  <2>1. ASSUME NEW i \in DOMAIN s.params, s.params[i] \in {"2", "3"}
        PROVE  i + 2 \in DOMAIN p /\ i + 2 <= AnsiMax + 1 /\ p[i + 2] \in {"2", "3"}
    <3>1. i \in 1 .. m /\ i + 2 \in 1 .. n /\ i + 2 <= AnsiMax + 1
      <4>1. DOMAIN s.params = 1 .. m
        BY <1>1
      <4>2. i \in 1 .. m
        BY <2>1, <4>1
      <4>. HIDE DEF m, n
      <4>. QED
        BY <1>1, <1>2, <4>2
    <3>. HIDE DEF p
    <3>. QED
      BY <1>2, <1>3, <2>1, <3>1
  <2>2. ASSUME NEW i \in DOMAIN p, i <= AnsiMax + 1, p[i] \in {"2", "3"}
        PROVE  i - 2 \in DOMAIN s.params /\ s.params[i - 2] \in {"2", "3"}
    <3>1. i # n + 1 /\ i # 1 /\ i # 2
      <4>. HIDE DEF p
      <4>1. p[n + 1] = "J" /\ p[1] = "ESC" /\ p[2] = "["
        BY <1>1, <1>2, <1>3, <1>6
      <4>. QED
        BY <2>2, <4>1
    <3>2. i \in 1 .. n /\ i - 2 \in 1 .. m /\ (i - 2) + 2 = i
      BY <1>1, <1>2, <1>3, <2>2, <3>1
    <3>3. p[i] = t.esc[i] /\ s.params[i - 2] = t.esc[i]
      <4>. HIDE DEF p
      <4>. QED
        BY <1>2, <1>3, <3>2
    <3>4. DOMAIN s.params = 1 .. m
      BY <1>1
    <3>. QED
      BY <2>2, <3>2, <3>3, <3>4
  <2>. HIDE DEF p
  <2>. QED
    BY <2>1, <2>2
<1>. HIDE DEF digits
<1>7. ASSUME NEW s1, NEW t1, Paired(s1, t1), OutputChar(s, ch) = SetAnsi(s1, 0, <<>>), Event(t, e) = SetEsc(t1, <<>>)
      PROVE  Paired(OutputChar(s, ch), Event(t, e)) /\ Escape(OutputChar(s, ch), Event(t, e))
  <2>1. Paired(SetAnsi(s1, 0, <<>>), SetEsc(t1, <<>>)) /\ Escape(SetAnsi(s1, 0, <<>>), SetEsc(t1, <<>>))
    BY <1>1, <1>7, EscapeIsOver
  <2>. QED
    BY <1>7, <2>1
<1>8. CASE ch = "J" /\ digits
  <2>1. HandleAnsi(s, ch) = Clear(s)
    BY <1>8 DEF HandleAnsi, digits
  <2>2. Escaped(t, p) = SetEsc(Emptied(t), <<>>)
    <3>1. p[Len(p)] = "J" /\ \E i \in DOMAIN p : i <= AnsiMax + 1 /\ p[i] \in {"2", "3"}
      BY <1>3, <1>6, <1>8
    <3>. HIDE DEF p
    <3>. QED
      BY <3>1 DEF Escaped, SetEsc
  <2>3. Paired(Clear(s), Emptied(t))
    BY ClearAgrees DEF Emptied
  <2>. QED
    BY <1>4, <1>5, <1>7, <2>1, <2>2, <2>3
<1>9. CASE ch = "K" /\ s.open
  <2>1. ~t.fresh /\ t.lines # <<>> /\ s.rows = LastRows(t.lines) /\ t.lines \in Seq(Rowed)
    BY <1>9, TranscriptHas DEF Paired, Window
  <2>2. s.rows # <<>>
    BY <2>1, LastRowIsLast
  <2>3. Len(<<>>) = 0 /\ <<>> \in Rowed /\ Len(<<>>) <= RowWidth
    BY WidthIsPositive DEF Rowed
  <2>4. HandleAnsi(s, ch) = WithRow(s, <<>>)
    BY <1>9, <2>2, <2>3 DEF HandleAnsi, WithRow
  <2>5. Escaped(t, p) = LastLine([t EXCEPT !.esc = <<>>], <<>>)
    <3>1. p[Len(p)] = "K" /\ Len(p) > 2
      BY <1>1, <1>2, <1>3, <1>9
    <3>. HIDE DEF p
    <3>. QED
      BY <2>1, <3>1 DEF Escaped
  <2>6. LastLine([t EXCEPT !.esc = <<>>], <<>>) = SetEsc(LastLine(t, <<>>), <<>>)
    BY <1>1 DEF SetEsc, LastLine, Transcripts
  <2>7. Paired(WithRow(s, <<>>), LastLine(t, <<>>))
    BY <1>9, <2>3, RowChanges
  <2>. QED
    BY <1>4, <1>5, <1>7, <2>4, <2>5, <2>6, <2>7
<1>10. CASE ~(ch = "J" /\ digits) /\ ~(ch = "K" /\ s.open)
  <2>1. HandleAnsi(s, ch) = s
    BY <1>10 DEF HandleAnsi, digits
  <2>2. Escaped(t, p) = SetEsc(t, <<>>)
    <3>1. ~(p[Len(p)] = "J" /\ \E i \in DOMAIN p : i <= AnsiMax + 1 /\ p[i] \in {"2", "3"})
      BY <1>3, <1>6, <1>10
    <3>2. ~(p[Len(p)] = "K" /\ Len(p) > 2 /\ ~t.fresh)
      <4>1. s.open = ~t.fresh /\ p[Len(p)] = ch
        BY <1>3 DEF Paired, Window
      <4>2. ~s.open => t.fresh
        BY <1>1, <4>1, TranscriptHas, ScreenHas
      <4>. QED
        BY <1>10, <4>1, <4>2
    <3>. HIDE DEF p
    <3>. QED
      BY <3>1, <3>2 DEF Escaped, SetEsc
  <2>. QED
    BY <1>4, <1>5, <1>7, <2>1, <2>2
<1>. QED
  BY <1>8, <1>9, <1>10


Agreed(s, t) == Paired(s, t) /\ Escape(s, t)

\* Every character of the output does the same to the window and to the transcript.
LEMMA OutputAgrees ==
  ASSUME NEW s, NEW t, Agreed(s, t), NEW ch \in Chars, NEW e, ~e.row, e.text = ch
  PROVE  Agreed(OutputChar(s, ch), Event(t, e))
<1>1. s.ansi \in 0 .. 2
  BY ScreenHas DEF Agreed, Paired
<1>2. CASE s.ansi = 0
  <2>1. t.esc = <<>>
    BY <1>2 DEF Agreed, Escape
  <2>2. Event(t, e) = Spoken(t, ch)
    BY <2>1, CharEvent
  <2>. QED
    BY <1>2, <2>2, SpokenAgrees DEF Agreed
<1>3. CASE s.ansi = 1
  BY <1>3, EscapeBegins DEF Agreed
<1>4. CASE s.ansi = 2
  BY <1>4, EscapeGrows, EscapeEnds DEF Agreed
<1>. QED
  BY <1>1, <1>2, <1>3, <1>4

LEMMA GoesOn ==
  ASSUME NEW s, NEW t, NEW s2, NEW t2, Agreed(s, t), Paired(s2, t2), SameEscape(s, t, s2, t2)
  PROVE  Agreed(s2, t2)
BY EscapeGoesOn DEF Agreed

\* So do a message, a clear and the end of a program.
LEMMA RowAgrees ==
  ASSUME NEW s, NEW t, Agreed(s, t), NEW text \in Rowed, NEW e, e.row, e.text = text
  PROVE  Agreed(Push(s, text), Event(t, e))
<1>. DEFINE t2 == [t EXCEPT !.lines = Append(@, Clipped(text)), !.fresh = TRUE]
<1>1. Event(t, e) = t2
  BY Zenon DEF Event
<1>2. Paired(Push(s, text), t2) /\ SameEscape(s, t, Push(s, text), t2)
  BY PushAgrees DEF Agreed
<1>. HIDE DEF t2
<1>. QED
  BY <1>1, <1>2, GoesOn

LEMMA ClearedAgrees ==
  ASSUME NEW s, NEW t, Agreed(s, t), NEW e, ~e.row, e.text = "CLEAR"
  PROVE  Agreed(Clear(s), Event(t, e))
<1>. DEFINE t2 == Emptied(t)
<1>1. Event(t, e) = t2
  BY Zenon DEF Event
<1>2. Paired(Clear(s), t2) /\ SameEscape(s, t, Clear(s), t2)
  BY ClearAgrees DEF Agreed, Emptied
<1>. HIDE DEF t2
<1>. QED
  BY <1>1, <1>2, GoesOn

LEMMA EndedAgrees ==
  ASSUME NEW s, NEW t, Agreed(s, t), NEW e, ~e.row, e.text = "END"
  PROVE  Agreed(Newline(s), Event(t, e))
<1>. DEFINE t2 == LineBreak(t)
<1>1. Event(t, e) = t2
  <2>1. e.text # "CLEAR"
    OBVIOUS
  <2>. QED
    BY <2>1, Zenon DEF Event
<1>2. Paired(Newline(s), t2) /\ SameEscape(s, t, Newline(s), t2)
  BY NewlineAgrees DEF Agreed
<1>. HIDE DEF t2
<1>. QED
  BY <1>1, <1>2, GoesOn

\* The transcripts some screen agrees with, and the other way round.
Readable == {t \in Transcripts : \E s : Agreed(s, t)}
Drawable == {s \in Screens : \E t : Agreed(s, t)}

LEMMA EventIs ==
  ASSUME NEW e \in Events
  PROVE  \/ e.row /\ e.text \in Rowed
         \/ ~e.row /\ e.text \in Chars
         \/ ~e.row /\ e.text = "CLEAR"
         \/ ~e.row /\ e.text = "END"
<1>1. CASE e \in [row : {TRUE}, text : Seq(Chars)]
  <2>1. e.row \in {TRUE} /\ e.text \in Rowed
    BY <1>1 DEF Rowed
  <2>2. e.row
    BY <2>1, Zenon
  <2>. QED
    BY <2>1, <2>2
<1>2. CASE e \in [row : {FALSE}, text : Chars \cup {"CLEAR", "END"}]
  <2>1. e.row \in {FALSE} /\ e.text \in Chars \cup {"CLEAR", "END"}
    BY <1>2
  <2>2. ~e.row
    BY <2>1, Zenon
  <2>. QED
    BY <2>1, <2>2
<1>. QED
  BY <1>1, <1>2 DEF Events

LEMMA EventKeeps ==
  ASSUME NEW t \in Readable, NEW e \in Events
  PROVE  Event(t, e) \in Readable
<1>1. PICK s : Agreed(s, t)
  BY DEF Readable
<1>2. ASSUME NEW s2, Agreed(s2, Event(t, e)) PROVE Event(t, e) \in Readable
  BY <1>2 DEF Readable, Agreed, Paired
<1>. QED
  BY <1>1, <1>2, EventIs, OutputAgrees, RowAgrees, ClearedAgrees, EndedAgrees

LEMMA OutputKeeps ==
  ASSUME NEW s \in Drawable, NEW ch \in Chars
  PROVE  OutputChar(s, ch) \in Drawable
<1>1. PICK t : Agreed(s, t)
  BY DEF Drawable
<1>2. PICK e : ~e.row /\ e.text = ch
  <2>1. ~([row |-> FALSE, text |-> ch].row) /\ [row |-> FALSE, text |-> ch].text = ch
    OBVIOUS
  <2>. QED
    BY <2>1, Zenon
<1>3. Agreed(OutputChar(s, ch), Event(t, e))
  BY <1>1, <1>2, OutputAgrees
<1>. QED
  BY <1>3 DEF Drawable, Agreed, Paired

\* An empty window and the transcript of nothing.
Blank == [rows |-> <<>>, col |-> 0, open |-> FALSE, ansi |-> 0, params |-> <<>>]

LEMMA NothingYet == Agreed(Blank, NoLines) /\ NoLines \in Readable
<1>. DEFINE b == Blank
            n == NoLines
<1>1. /\ b.rows = <<>> /\ b.col = 0 /\ b.ansi = 0 /\ b.params = <<>>
      /\ n.lines = <<>> /\ n.esc = <<>>
  BY DEF Blank, NoLines
<1>2. ~b.open /\ n.fresh
  BY Zenon DEF Blank, NoLines
<1>3. b \in Screens
  <2>1. <<>> \in Seq(Seq(Chars)) /\ <<>> \in Seq(Chars) /\ 0 \in Nat /\ FALSE \in BOOLEAN /\ 0 \in 0 .. 2
    OBVIOUS
  <2>. QED
    BY <2>1 DEF Screens, Blank
<1>4. n \in Transcripts
  <2>1. <<>> \in Seq(Rowed) /\ <<>> \in Seq(Chars) /\ TRUE \in BOOLEAN /\ \A i \in DOMAIN <<>> : Len(<<>>[i]) <= RowWidth
    OBVIOUS
  <2>2. n \in [lines : Seq(Rowed), esc : Seq(Chars), fresh : BOOLEAN]
    BY <2>1 DEF NoLines
  <2>. HIDE DEF n
  <2>. QED
    BY <1>1, <1>2, <2>1, <2>2 DEF Transcripts
<1>. HIDE DEF b, n
<1>5. b.open = ~n.fresh
  <2>1. b.open \in BOOLEAN /\ n.fresh \in BOOLEAN
    BY <1>3, <1>4, ScreenHas, TranscriptHas
  <2>. QED
    BY <1>2, <2>1
<1>6. Agreed(b, n)
  BY <1>1, <1>2, <1>3, <1>4, <1>5, NoRows DEF Agreed, Paired, Window, Escape
<1>. QED
  BY <1>4, <1>6 DEF b, n, Readable

TellSteps(es) == [i \in 1 .. Len(es) |-> [t \in Readable |-> Event(t, es[i])]]

\* The transcript is the end of a run that takes an event at a time.
LEMMA TranscriptIs ==
  ASSUME NEW es \in Seq(Events)
  PROVE  \E g \in [0 .. Len(es) -> Readable] :
            IsRun(g, NoLines, TellSteps(es), Len(es)) /\ Transcript(es) = g[Len(es)]
<1>. DEFINE n == Len(es)
            Is(g) == g = [i \in 0 .. n |-> IF i = 0 THEN NoLines ELSE Event(g[i - 1], es[i])]
<1>1. n \in Nat /\ \A i \in 1 .. n : es[i] \in Events
  OBVIOUS
<1>2. TellSteps(es) \in [1 .. n -> [Readable -> Readable]]
  <2>1. \A i \in 1 .. n, t \in Readable : Event(t, es[i]) \in Readable
    BY <1>1, EventKeeps
  <2>. QED
    BY <2>1 DEF TellSteps
<1>3. \E g : Is(g)
  <2>1. PICK g \in [0 .. n -> Readable] : IsRun(g, NoLines, TellSteps(es), n)
    <3>. HIDE DEF n
    <3>. QED
      BY <1>1, <1>2, NothingYet, RunExists
  <2>2. \A i \in 0 .. n : g[i] = IF i = 0 THEN NoLines ELSE Event(g[i - 1], es[i])
    <3>. TAKE i \in 0 .. n
    <3>1. i # 0 => i \in 1 .. n /\ i - 1 \in 0 .. n
      BY <1>1
    <3>. QED
      BY <2>1, <3>1 DEF IsRun, TellSteps
  <2>. QED
    BY <2>1, <2>2
<1>4. Transcript(es) = (CHOOSE g : Is(g))[n]
  BY DEF Transcript
<1>5. PICK g : Is(g) /\ Transcript(es) = g[n]
  <2>. HIDE DEF Is
  <2>. QED
    BY <1>3, <1>4
<1>6. DOMAIN g = 0 .. n /\ g = [i \in 0 .. n |-> g[i]]
  BY <1>5
<1>7. \A i \in 0 .. n : g[i] = IF i = 0 THEN NoLines ELSE Event(g[i - 1], es[i])
  BY <1>5
<1>. DEFINE Good == {i \in 0 .. n : g[i] \in Readable}
<1>8. \A i \in 0 .. n : i \in Good
  <2>1. 0 \in Good
    BY <1>1, <1>7, NothingYet
  <2>2. \A i \in 1 .. n : i - 1 \in Good => i \in Good
    <3>. TAKE i \in 1 .. n
    <3>1. i \in 0 .. n /\ i # 0 /\ es[i] \in Events
      BY <1>1
    <3>. QED
      BY <1>7, <3>1, EventKeeps
  <2>. HIDE DEF Good, n
  <2>. QED
    BY <1>1, <2>1, <2>2, Climbs
<1>9. g \in [0 .. n -> Readable]
  BY <1>6, <1>8
<1>10. IsRun(g, NoLines, TellSteps(es), n)
  <2>1. g[0] = NoLines
    BY <1>1, <1>7
  <2>2. \A i \in 1 .. n : g[i] = TellSteps(es)[i][g[i - 1]]
    <3>. TAKE i \in 1 .. n
    <3>1. i \in 0 .. n /\ i - 1 \in 0 .. n /\ i # 0
      BY <1>1
    <3>. QED
      BY <1>7, <1>8, <3>1 DEF TellSteps
  <2>. QED
    BY <2>1, <2>2 DEF IsRun
<1>. QED
  BY <1>5, <1>9, <1>10

\* One event more is told at the end.
LEMMA TranscriptGrows ==
  ASSUME NEW es \in Seq(Events), NEW e \in Events
  PROVE  Transcript(Append(es, e)) = Event(Transcript(es), e) /\ Transcript(es) \in Readable
<1>. DEFINE q == Append(es, e)
            n == Len(es)
<1>1. q \in Seq(Events) /\ Len(q) = n + 1 /\ n \in Nat /\ q[n + 1] = e /\ \A i \in 1 .. n : q[i] = es[i]
  OBVIOUS
<1>2. PICK g \in [0 .. n -> Readable] : IsRun(g, NoLines, TellSteps(es), n) /\ Transcript(es) = g[n]
  BY TranscriptIs
<1>3. PICK h \in [0 .. n + 1 -> Readable] : IsRun(h, NoLines, TellSteps(q), n + 1) /\ Transcript(q) = h[n + 1]
  <2>. HIDE DEF q, n
  <2>. QED
    BY <1>1, TranscriptIs
<1>4. IsRun(h, NoLines, TellSteps(es), n)
  <2>. HIDE DEF q
  <2>1. h[0] = NoLines
    BY <1>3 DEF IsRun
  <2>2. \A i \in 1 .. n : h[i] = TellSteps(es)[i][h[i - 1]]
    <3>. TAKE i \in 1 .. n
    <3>1. i \in 1 .. n + 1
      BY <1>1
    <3>2. h[i] = TellSteps(q)[i][h[i - 1]]
      BY <1>3, <3>1 DEF IsRun
    <3>3. TellSteps(q)[i] = TellSteps(es)[i]
      BY <1>1, <3>1 DEF TellSteps
    <3>. QED
      BY <3>2, <3>3
  <2>. QED
    BY <2>1, <2>2 DEF IsRun
<1>5. h[n] = g[n] /\ g[n] \in Readable
  <2>. HIDE DEF n
  <2>1. n \in 0 .. n
    BY <1>1
  <2>2. \A i \in 0 .. n : h[i] = g[i]
    BY <1>1, <1>2, <1>4, RunIsOne
  <2>. QED
    BY <1>2, <2>1, <2>2
<1>6. h[n + 1] = Event(h[n], e)
  <2>. HIDE DEF q, n
  <2>1. n + 1 \in 1 .. n + 1 /\ (n + 1) - 1 = n
    BY <1>1
  <2>2. h[n + 1] = TellSteps(q)[n + 1][h[n]]
    BY <1>3, <2>1 DEF IsRun
  <2>. QED
    BY <1>1, <1>5, <2>1, <2>2 DEF TellSteps
<1>. QED
  BY <1>2, <1>3, <1>5, <1>6

LEMMA TranscriptBegins == Transcript(<<>>) = NoLines
<1>1. <<>> \in Seq(Events) /\ Len(<<>>) = 0
  OBVIOUS
<1>. QED
  BY <1>1, TranscriptIs DEF IsRun

DrawSteps(text) == [i \in 1 .. Len(text) |-> [s \in Drawable |-> OutputChar(s, text[i])]]

\* The output is drawn a character at a time.
LEMMA OutputIs ==
  ASSUME NEW s \in Drawable, NEW text \in Seq(Chars)
  PROVE  \E g : /\ g[0] = s /\ AppendOutput(s, text) = g[Len(text)]
                /\ \A i \in 1 .. Len(text) : g[i] = OutputChar(g[i - 1], text[i])
<1>. DEFINE n == Len(text)
            Is(g) == g = [i \in 0 .. n |-> IF i = 0 THEN s ELSE OutputChar(g[i - 1], text[i])]
<1>1. n \in Nat /\ \A i \in 1 .. n : text[i] \in Chars
  OBVIOUS
<1>2. DrawSteps(text) \in [1 .. n -> [Drawable -> Drawable]]
  <2>1. \A i \in 1 .. n, x \in Drawable : OutputChar(x, text[i]) \in Drawable
    BY <1>1, OutputKeeps
  <2>. QED
    BY <2>1 DEF DrawSteps
<1>3. \E g : Is(g)
  <2>1. PICK g \in [0 .. n -> Drawable] : IsRun(g, s, DrawSteps(text), n)
    <3>. HIDE DEF n
    <3>. QED
      BY <1>1, <1>2, RunExists
  <2>2. \A i \in 0 .. n : g[i] = IF i = 0 THEN s ELSE OutputChar(g[i - 1], text[i])
    <3>. TAKE i \in 0 .. n
    <3>1. i # 0 => i \in 1 .. n /\ i - 1 \in 0 .. n
      BY <1>1
    <3>. QED
      BY <2>1, <3>1 DEF IsRun, DrawSteps
  <2>. QED
    BY <2>1, <2>2
<1>4. AppendOutput(s, text) = (CHOOSE g : Is(g))[n]
  BY DEF AppendOutput
<1>5. PICK g : Is(g) /\ AppendOutput(s, text) = g[n]
  <2>. HIDE DEF Is
  <2>. QED
    BY <1>3, <1>4
<1>6. \A i \in 0 .. n : g[i] = IF i = 0 THEN s ELSE OutputChar(g[i - 1], text[i])
  BY <1>5
<1>7. g[0] = s /\ \A i \in 1 .. n : g[i] = OutputChar(g[i - 1], text[i])
  <2>1. 0 \in 0 .. n /\ \A i \in 1 .. n : i \in 0 .. n /\ i # 0
    BY <1>1
  <2>. QED
    BY <1>6, <2>1
<1>. QED
  BY <1>5, <1>7

\* What was told of a window: es is a list of events, and the window agrees
\* with the transcript of them.
Told(s, es) == es \in Seq(Events) /\ Agreed(s, Transcript(es))

LEMMA ToldOne ==
  ASSUME NEW s, NEW es, Told(s, es), NEW e \in Events, NEW s2, Agreed(s2, Event(Transcript(es), e))
  PROVE  Told(s2, Append(es, e))
<1>1. es \in Seq(Events)
  BY DEF Told
<1>2. Append(es, e) \in Seq(Events) /\ Transcript(Append(es, e)) = Event(Transcript(es), e)
  BY <1>1, TranscriptGrows
<1>. QED
  BY <1>2 DEF Told

LEMMA ToldRow ==
  ASSUME NEW s, NEW es, Told(s, es), NEW text \in Rowed
  PROVE  Row(text) \in Events /\ Told(Push(s, text), Append(es, Row(text)))
<1>1. Row(text).text = text
  BY DEF Row
<1>2. Row(text).row
  BY Zenon DEF Row
<1>3. Row(text) \in Events
  BY DEF Row, Events, Rowed
<1>4. Agreed(Push(s, text), Event(Transcript(es), Row(text)))
  BY <1>1, <1>2, RowAgrees DEF Told
<1>. QED
  BY <1>3, <1>4, ToldOne

\* What is no row.
Letter(ch) == [row |-> FALSE, text |-> ch]

LEMMA LetterIs ==
  ASSUME NEW ch \in Chars \cup {"CLEAR", "END"}
  PROVE  Letter(ch) \in Events /\ ~Letter(ch).row /\ Letter(ch).text = ch
<1>1. ~Letter(ch).row
  BY Zenon DEF Letter
<1>2. Letter(ch).text = ch /\ Letter(ch) \in Events
  BY DEF Letter, Events
<1>. QED
  BY <1>1, <1>2

LEMMA PrintedOne ==
  ASSUME NEW ch
  PROVE  Printed(<<ch>>) = <<Letter(ch)>>
<1>. DEFINE e == Letter(ch)
<1>1. Printed(<<ch>>) = [i \in DOMAIN <<ch>> |-> Letter(<<ch>>[i])]
  BY DEF Printed, Letter
<1>. HIDE DEF e
<1>2. [i \in DOMAIN <<ch>> |-> Letter(<<ch>>[i])] = <<Letter(ch)>>
  OBVIOUS
<1>. QED
  BY <1>1, <1>2

LEMMA ToldCleared ==
  ASSUME NEW s, NEW es, Told(s, es)
  PROVE  Told(Clear(s), Append(es, Letter("CLEAR")))
<1>1. Letter("CLEAR") \in Events /\ ~Letter("CLEAR").row /\ Letter("CLEAR").text = "CLEAR"
  BY LetterIs
<1>. QED
  BY <1>1, ClearedAgrees, ToldOne DEF Told

LEMMA ToldEnded ==
  ASSUME NEW s, NEW es, Told(s, es)
  PROVE  Told(Newline(s), Append(es, Letter("END")))
<1>1. Letter("END") \in Events /\ ~Letter("END").row /\ Letter("END").text = "END"
  BY LetterIs
<1>. QED
  BY <1>1, EndedAgrees, ToldOne DEF Told

LEMMA PrintedIs ==
  ASSUME NEW text \in Seq(Chars)
  PROVE  /\ Printed(text) \in Seq(Events) /\ Len(Printed(text)) = Len(text)
         /\ \A i \in 1 .. Len(text) : Printed(text)[i] = Letter(text[i])
<1>1. Printed(text) = [i \in 1 .. Len(text) |-> Letter(text[i])]
  BY DEF Printed, Letter
<1>2. \A i \in 1 .. Len(text) : Letter(text[i]) \in Events
  BY LetterIs
<1>. QED
  BY <1>1, <1>2

\* A list with the first elements of another behind it grows by one at a time.
LEMMA ConcatGrows ==
  ASSUME NEW S, NEW a \in Seq(S), NEW b \in Seq(S), NEW k \in 1 .. Len(b)
  PROVE  a \o SubSeq(b, 1, k) = Append(a \o SubSeq(b, 1, k - 1), b[k])
<1>. DEFINE c == SubSeq(b, 1, k - 1)
<1>1. c \in Seq(S) /\ b[k] \in S /\ SubSeq(b, 1, k) = Append(c, b[k])
  OBVIOUS
<1>. HIDE DEF c
<1>2. Append(c, b[k]) = c \o <<b[k]>> /\ <<b[k]>> \in Seq(S)
  BY <1>1, AppendIsConcat
<1>3. a \o (c \o <<b[k]>>) = (a \o c) \o <<b[k]>>
  BY <1>1, <1>2, ConcatAssociative
<1>4. a \o c \in Seq(S)
  BY <1>1, ConcatProperties
<1>5. (a \o c) \o <<b[k]>> = Append(a \o c, b[k])
  BY <1>1, <1>4, AppendIsConcat
<1>. QED
  BY <1>1, <1>2, <1>3, <1>5 DEF c

\* The output of a program is told as it is drawn.
LEMMA ToldPrinted ==
  ASSUME NEW s, NEW es, Told(s, es), NEW text \in Seq(Chars)
  PROVE  Told(AppendOutput(s, text), es \o Printed(text))
<1>. DEFINE n == Len(text)
            p == Printed(text)
<1>1. n \in Nat /\ es \in Seq(Events) /\ p \in Seq(Events) /\ Len(p) = n
      /\ \A i \in 1 .. n : p[i] = Letter(text[i]) /\ text[i] \in Chars
  BY PrintedIs DEF Told
<1>2. s \in Drawable
  BY DEF Told, Agreed, Paired, Drawable
<1>3. PICK g : /\ g[0] = s /\ AppendOutput(s, text) = g[n]
               /\ \A i \in 1 .. n : g[i] = OutputChar(g[i - 1], text[i])
  BY <1>2, OutputIs
<1>. DEFINE Good == {i \in 0 .. n : Told(g[i], es \o SubSeq(p, 1, i))}
<1>. HIDE DEF p
<1>4. 0 \in Good
  <2>1. SubSeq(p, 1, 0) = <<>> /\ es \o <<>> = es /\ 0 \in 0 .. n
    BY <1>1, ConcatEmptySeq
  <2>. QED
    BY <1>3, <2>1
<1>5. \A i \in 1 .. n : i - 1 \in Good => i \in Good
  <2>. SUFFICES ASSUME NEW i \in 1 .. n, i - 1 \in Good PROVE i \in Good
    OBVIOUS
  <2>. DEFINE now == es \o SubSeq(p, 1, i - 1)
              e == Letter(text[i])
  <2>1. Told(g[i - 1], now) /\ i \in 0 .. n /\ text[i] \in Chars
    BY <1>1
  <2>2. es \o SubSeq(p, 1, i) = Append(now, e)
    BY <1>1, ConcatGrows
  <2>. HIDE DEF now, e
  <2>3. e \in Events /\ ~e.row /\ e.text = text[i]
    BY <2>1, LetterIs DEF e
  <2>4. g[i] = OutputChar(g[i - 1], text[i])
    BY <1>3
  <2>5. Agreed(g[i], Event(Transcript(now), e))
    BY <2>1, <2>3, <2>4, OutputAgrees DEF Told
  <2>6. Told(g[i], Append(now, e))
    BY <2>1, <2>3, <2>5, ToldOne
  <2>. QED
    BY <2>1, <2>2, <2>6
<1>6. n \in Good
  <2>1. \A i \in 0 .. n : i \in Good
    <3>. HIDE DEF Good, n
    <3>. QED
      BY <1>1, <1>4, <1>5, Climbs
  <2>. QED
    BY <1>1, <2>1
<1>7. SubSeq(p, 1, n) = p
  BY <1>1
<1>. QED
  BY <1>3, <1>6, <1>7 DEF p

----------------------------------------------------------------------------
(* Terminal: what is shown is the end of the transcript. *)

LEMMA InvIsTold == TerminalInv <=> line \in Seq(Chars) /\ Told(Screen, shown)
<1>1. ASSUME TerminalInv PROVE line \in Seq(Chars) /\ Told(Screen, shown)
  <2>1. /\ Screen \in Screens /\ line \in Seq(Chars) /\ shown \in Seq(Events)
        /\ Window(Screen, Transcript(shown)) /\ Escape(Screen, Transcript(shown))
    BY <1>1 DEF TerminalInv, Agrees
  <2>2. Transcript(shown) \in Transcripts
    <3>. DEFINE n == Len(shown)
    <3>1. PICK g \in [0 .. n -> Readable] : Transcript(shown) = g[n]
      BY <2>1, TranscriptIs
    <3>2. n \in 0 .. n
      BY <2>1
    <3>. HIDE DEF n
    <3>. QED
      BY <3>1, <3>2 DEF Readable
  <2>. QED
    BY <2>1, <2>2 DEF Told, Agreed, Paired
<1>2. ASSUME line \in Seq(Chars) /\ Told(Screen, shown) PROVE TerminalInv
  BY <1>2 DEF TerminalInv, Agrees, Told, Agreed, Paired
<1>. QED
  BY <1>1, <1>2

LEMMA ToldIsScreen ==
  ASSUME NEW s, NEW es, Told(s, es)
  PROVE  s \in Screens /\ es \in Seq(Events)
BY DEF Told, Agreed, Paired

\* The texts the terminal writes itself.
LEMMA MessagesAreRows ==
  /\ <<>> \in Rowed /\ <<"s">> \in Rowed /\ <<"C">> \in Rowed /\ <<"t">> \in Rowed /\ <<"f">> \in Rowed
  /\ <<"t", "s">> \in Rowed /\ Prompt \in Rowed
<1>1. "$" \in Chars /\ "s" \in Chars /\ "C" \in Chars /\ "t" \in Chars /\ "f" \in Chars
  BY CharsAssumption
<1>. QED
  BY <1>1 DEF Rowed, Prompt

\* Enter: the prompt and the line are a row.
LEMMA EnteredIsTold ==
  ASSUME TerminalInv
  PROVE  /\ Row(Prompt \o line) \in Events
         /\ Told(Entered, Append(shown, Row(Prompt \o line)))
<1>1. line \in Rowed /\ Told(Screen, shown)
  BY InvIsTold DEF Rowed
<1>2. Prompt \o line \in Rowed
  BY <1>1, MessagesAreRows, ConcatProperties DEF Rowed
<1>. QED
  BY <1>1, <1>2, ToldRow DEF Entered

\* What is shown and told behind the entered line keeps them in agreement.
LEMMA SubmitKeeps ==
  ASSUME TerminalInv, NEW s, NEW events \in Seq(Events), Submit(s, events),
         Told(s, Append(shown, Row(Prompt \o line)) \o events)
  PROVE  TerminalInv'
<1>. DEFINE r == Row(Prompt \o line)
<1>1. r \in Events /\ shown \in Seq(Events) /\ <<r>> \in Seq(Events)
  BY EnteredIsTold, InvIsTold, ToldIsScreen
<1>2. shown \o (<<r>> \o events) = Append(shown, r) \o events
  <2>. HIDE DEF r
  <2>1. (shown \o <<r>>) \o events = shown \o (<<r>> \o events)
    BY <1>1, ConcatAssociative
  <2>2. shown \o <<r>> = Append(shown, r)
    BY <1>1, AppendIsConcat
  <2>. QED
    BY <2>1, <2>2
<1>3. s \in Screens
  BY ToldIsScreen
<1>4. Screen' = s /\ shown' = shown \o (<<r>> \o events) /\ line' = <<>>
  <2>1. /\ rows' = s.rows /\ col' = s.col /\ open' = s.open /\ ansi' = s.ansi /\ params' = s.params
        /\ shown' = shown \o (<<r>> \o events) /\ line' = <<>>
    BY DEF Submit, Becomes
  <2>2. Screen' = [rows |-> s.rows, col |-> s.col, open |-> s.open, ansi |-> s.ansi, params |-> s.params]
    BY <2>1 DEF Screen
  <2>3. s = [rows |-> s.rows, col |-> s.col, open |-> s.open, ansi |-> s.ansi, params |-> s.params]
    BY <1>3 DEF Screens
  <2>. QED
    BY <2>1, <2>2, <2>3
<1>. DEFINE es == Append(shown, r) \o events
<1>5. es \in Seq(Events) /\ Agrees(s, Transcript(es))
  BY DEF Told, Agreed, Paired, Agrees
<1>6. shown' = es
  BY <1>2, <1>4
<1>. HIDE DEF es, r
<1>7. line' \in Seq(Chars) /\ Screen' = s
  BY <1>4
<1>8. Screen' \in Screens /\ shown' \in Seq(Events) /\ Agrees(Screen', Transcript(shown'))
  BY <1>3, <1>5, <1>6, <1>7
<1>. QED
  BY <1>7, <1>8 DEF TerminalInv

LEMMA SubmitRowKeeps ==
  ASSUME TerminalInv, NEW text \in Rowed, Submit(Push(Entered, text), <<Row(text)>>)
  PROVE  TerminalInv'
<1>. DEFINE q == Append(shown, Row(Prompt \o line))
<1>1. Told(Entered, q) /\ q \in Seq(Events)
  BY EnteredIsTold, ToldIsScreen
<1>. HIDE DEF q
<1>2. Row(text) \in Events /\ Told(Push(Entered, text), Append(q, Row(text)))
  BY <1>1, ToldRow
<1>3. Append(q, Row(text)) = q \o <<Row(text)>> /\ <<Row(text)>> \in Seq(Events)
  BY <1>1, <1>2, AppendIsConcat
<1>. QED
  BY <1>2, <1>3, SubmitKeeps DEF q

LEMMA KeyKeeps ==
  ASSUME TerminalInv, NEW ch \in Keys, Key(ch)
  PROVE  TerminalInv'
<1>1. line \in Seq(Chars) /\ ch \in Chars /\ Upper \in [Keys \ {"BS"} -> Chars]
  BY CharsAssumption DEF TerminalInv
<1>2. line' \in Seq(Chars)
  <2>1. CASE ch = "BS"
    <3>1. line # <<>> => SubSeq(line, 1, Len(line) - 1) \in Seq(Chars)
      BY <1>1
    <3>. QED
      BY <1>1, <2>1, <3>1 DEF Key
  <2>2. CASE ch # "BS"
    <3>1. Upper[ch] \in Chars
      BY <1>1, <2>2
    <3>2. Append(line, ch) \in Seq(Chars) /\ Append(line, Upper[ch]) \in Seq(Chars)
      BY <1>1, <3>1
    <3>. QED
      BY <1>1, <2>2, <3>2 DEF Key
  <2>. QED
    BY <2>1, <2>2
<1>3. Screen' = Screen /\ shown' = shown
  BY DEF Key, screen, Screen
<1>. QED
  BY <1>2, <1>3 DEF TerminalInv

LEMMA ClearKeeps ==
  ASSUME TerminalInv, RunClear
  PROVE  TerminalInv'
<1>. DEFINE q == Append(shown, Row(Prompt \o line))
            e == Letter("CLEAR")
<1>1. Told(Entered, q) /\ q \in Seq(Events)
  BY EnteredIsTold, ToldIsScreen
<1>2. e \in Events /\ Printed(<<"CLEAR">>) = <<e>>
  BY LetterIs, PrintedOne
<1>. HIDE DEF q
<1>3. Told(Clear(Entered), Append(q, e))
  BY <1>1, ToldCleared
<1>. HIDE DEF e
<1>4. Append(q, e) = q \o <<e>> /\ <<e>> \in Seq(Events)
  BY <1>1, <1>2, AppendIsConcat
<1>5. Submit(Clear(Entered), <<e>>)
  BY <1>2 DEF RunClear
<1>. QED
  BY <1>3, <1>4, <1>5, SubmitKeeps DEF q

\* What is read of a capture has the characters of the output.
LEMMA CaptureIs ==
  ASSUME NEW output \in Seq(Chars)
  PROVE  /\ UpToNul(output) \in Seq(Chars) /\ UpToNul(<<>>) = <<>>
         /\ Len(output) > CaptureMax => SubSeq(output, 1, CaptureMax) \in Seq(Chars)
<1>1. ASSUME NEW t \in Seq(Chars) PROVE UpToNul(t) \in Seq(Chars)
  <2>. DEFINE nul == {i \in DOMAIN t : t[i] = "NUL"}
              k == CHOOSE i \in nul : \A j \in nul : i <= j
  <2>1. CASE nul = {}
    BY <2>1 DEF UpToNul
  <2>2. CASE nul # {}
    <3>1. nul \in SUBSET Nat /\ nul \subseteq 1 .. Len(t)
      OBVIOUS
    <3>2. \E i \in nul : \A j \in nul : i <= j
      <4>. HIDE DEF nul
      <4>. QED
        BY <2>2, <3>1, LeastNumber
    <3>3. k \in nul
      <4>. HIDE DEF nul
      <4>. QED
        BY <3>2
    <3>4. UpToNul(t) = SubSeq(t, 1, k - 1)
      BY <2>2 DEF UpToNul
    <3>5. k \in 1 .. Len(t)
      BY <3>1, <3>3
    <3>. HIDE DEF k, nul
    <3>6. \A i \in 1 .. k - 1 : i \in 1 .. Len(t)
      BY <3>5
    <3>7. SubSeq(t, 1, k - 1) \in Seq(Chars)
      BY <3>5, <3>6
    <3>. QED
      BY <3>4, <3>7
  <2>. QED
    BY <2>1, <2>2
<1>2. UpToNul(<<>>) = <<>>
  <2>1. {i \in DOMAIN <<>> : <<>>[i] = "NUL"} = {}
    OBVIOUS
  <2>. QED
    BY <2>1 DEF UpToNul
<1>3. Len(output) > CaptureMax => SubSeq(output, 1, CaptureMax) \in Seq(Chars)
  <2>1. CaptureMax \in Nat
    BY ScreenAssumption
  <2>. QED
    BY <2>1
<1>. QED
  BY <1>1, <1>2, <1>3

\* A status of 0 says nothing, every other one is a row.
LEMMA StatusIsTold ==
  ASSUME NEW s, NEW es, Told(s, es), NEW status
  PROVE  StatusRow(status) \in Seq(Events) /\ Told(EmitStatus(s, status), es \o StatusRow(status))
<1>1. es \in Seq(Events)
  BY ToldIsScreen
<1>2. CASE status = 0
  <2>1. StatusRow(status) = <<>> /\ EmitStatus(s, status) = s /\ es \o <<>> = es
    BY <1>1, <1>2, ConcatEmptySeq DEF StatusRow, EmitStatus
  <2>. QED
    BY <2>1
<1>3. CASE status # 0
  <2>. DEFINE text == IF status = -1 THEN <<"f">> ELSE <<"t", "s">>
              row == Row(text)
  <2>1. StatusRow(status) = <<row>> /\ EmitStatus(s, status) = Push(s, text)
    BY <1>3 DEF StatusRow, EmitStatus
  <2>2. text \in Rowed
    BY MessagesAreRows
  <2>. HIDE DEF text
  <2>3. row \in Events /\ Told(Push(s, text), Append(es, row))
    BY <2>2, ToldRow
  <2>. HIDE DEF row
  <2>4. Append(es, row) = es \o <<row>> /\ <<row>> \in Seq(Events)
    BY <1>1, <2>3, AppendIsConcat
  <2>. QED
    BY <2>1, <2>3, <2>4
<1>. QED
  BY <1>2, <1>3

\* The session a program has closed is a row too.
LEMMA ClosedIsTold ==
  ASSUME NEW s, NEW es, Told(s, es), NEW closed \in BOOLEAN
  PROVE  ClosedRow(closed) \in Seq(Events) /\ Told(EmitClosed(s, closed), es \o ClosedRow(closed))
<1>1. es \in Seq(Events)
  BY ToldIsScreen
<1>2. CASE ~closed
  <2>1. ClosedRow(closed) = <<>> /\ EmitClosed(s, closed) = s /\ es \o <<>> = es
    BY <1>1, <1>2, ConcatEmptySeq DEF ClosedRow, EmitClosed
  <2>. QED
    BY <2>1
<1>3. CASE closed
  <2>. DEFINE row == Row(<<"s">>)
  <2>1. ClosedRow(closed) = <<row>> /\ EmitClosed(s, closed) = Push(s, <<"s">>)
    BY <1>3 DEF ClosedRow, EmitClosed
  <2>2. row \in Events /\ Told(Push(s, <<"s">>), Append(es, row))
    BY MessagesAreRows, ToldRow
  <2>. HIDE DEF row
  <2>3. Append(es, row) = es \o <<row>> /\ <<row>> \in Seq(Events)
    BY <1>1, <2>2, AppendIsConcat
  <2>. QED
    BY <2>1, <2>2, <2>3
<1>. QED
  BY <1>2, <1>3

\* Three lists of events may be put together from either side.
Joined(a, b, c) == (a \o b) \o c = a \o (b \o c)

LEMMA AreJoined ==
  ASSUME NEW a \in Seq(Events), NEW b \in Seq(Events), NEW c \in Seq(Events)
  PROVE  Joined(a, b, c)
BY ConcatAssociative DEF Joined

\* A program that ran.
LEMMA ProgramKeeps ==
  ASSUME TerminalInv, NEW output \in Outputs, NEW status \in {0, 1, -1}, NEW closes \in BOOLEAN,
         RunProgram(output, status, closes)
  PROVE  TerminalInv'
<1>. DEFINE q == Append(shown, Row(Prompt \o line))
            text == UpToNul(IF Len(output) > CaptureMax THEN SubSeq(output, 1, CaptureMax) ELSE output)
            first == IF status = -1 THEN <<Row(<<"t">>)>> ELSE <<>>
            end == IF output = <<>> THEN <<>> ELSE Printed(<<"END">>)
            begun == IF status = -1 THEN Push(Entered, <<"t">>) ELSE Entered
            ended == IF output = <<>> THEN begun ELSE Newline(AppendOutput(begun, text))
            p == Printed(text)
            closed == closes /\ status # -1
            shut == ClosedRow(closed)
            final == StatusRow(status)
<1>1. Submit(EmitStatus(EmitClosed(ended, closed), status), first \o p \o end \o shut \o final)
  BY DEF RunProgram
<1>2. Told(Entered, q) /\ q \in Seq(Events)
  BY EnteredIsTold, ToldIsScreen
<1>3. output \in Seq(Chars)
  BY CharsAssumption
<1>4. text \in Seq(Chars) /\ (output = <<>> => text = <<>>)
  <2>1. output = <<>> => ~(Len(output) > CaptureMax)
    BY ScreenAssumption
  <2>2. CASE Len(output) > CaptureMax
    <3>1. SubSeq(output, 1, CaptureMax) \in Seq(Chars)
      BY <1>3, <2>2, CaptureIs
    <3>. QED
      BY <2>1, <2>2, <3>1, CaptureIs
  <2>3. CASE ~(Len(output) > CaptureMax)
    BY <1>3, <2>3, CaptureIs
  <2>. QED
    BY <2>2, <2>3
<1>. HIDE DEF q, text
<1>5. first \in Seq(Events) /\ Told(begun, q \o first)
  <2>1. CASE status = -1
    <3>. DEFINE row == Row(<<"t">>)
    <3>1. row \in Events /\ Told(Push(Entered, <<"t">>), Append(q, row))
      BY <1>2, MessagesAreRows, ToldRow
    <3>. HIDE DEF row
    <3>2. Append(q, row) = q \o <<row>> /\ <<row>> \in Seq(Events)
      BY <1>2, <3>1, AppendIsConcat
    <3>. QED
      BY <2>1, <3>1, <3>2 DEF row
  <2>2. CASE status # -1
    <3>1. q \o <<>> = q /\ <<>> \in Seq(Events)
      BY <1>2, ConcatEmptySeq
    <3>. QED
      BY <1>2, <2>2, <3>1
  <2>. QED
    BY <2>1, <2>2
<1>. HIDE DEF first, begun
<1>6. p \in Seq(Events) /\ end \in Seq(Events) /\ Told(ended, ((q \o first) \o p) \o end)
  <2>. DEFINE a == q \o first
  <2>1. a \in Seq(Events) /\ Told(begun, a)
    BY <1>5, ToldIsScreen
  <2>. HIDE DEF a
  <2>2. p \in Seq(Events) /\ Len(p) = Len(text)
    BY <1>4, PrintedIs
  <2>. HIDE DEF p
  <2>3. a \o p \in Seq(Events)
    BY <2>1, <2>2, ConcatProperties
  <2>4. CASE output = <<>>
    <3>1. p = <<>>
      <4>1. text = <<>>
        BY <1>4, <2>4
      <4>2. Len(p) = 0
        BY <2>2, <4>1
      <4>. QED
        BY <2>2, <4>2, EmptySeq
    <3>2. a \o p = a /\ a \o <<>> = a /\ <<>> \in Seq(Events)
      BY <2>1, <3>1, ConcatEmptySeq
    <3>. QED
      BY <2>1, <2>2, <2>4, <3>2 DEF a
  <2>5. CASE output # <<>>
    <3>. DEFINE e == Letter("END")
                b == a \o p
                drawn == AppendOutput(begun, text)
    <3>1. Told(drawn, b)
      BY <1>4, <2>1, ToldPrinted DEF p
    <3>2. e \in Events /\ Printed(<<"END">>) = <<e>>
      BY LetterIs, PrintedOne
    <3>. HIDE DEF b, drawn
    <3>3. Told(Newline(drawn), Append(b, e))
      BY <3>1, ToldEnded
    <3>. HIDE DEF e
    <3>4. Append(b, e) = b \o <<e>> /\ <<e>> \in Seq(Events)
      BY <2>3, <3>2, AppendIsConcat DEF b
    <3>5. ended = Newline(drawn) /\ end = <<e>>
      BY <2>5, <3>2 DEF drawn
    <3>. HIDE DEF ended, end
    <3>. QED
      BY <2>2, <3>3, <3>4, <3>5 DEF a, b
  <2>. QED
    BY <2>4, <2>5
<1>. HIDE DEF p, end, ended
<1>7. shut \in Seq(Events) /\ Told(EmitClosed(ended, closed), (((q \o first) \o p) \o end) \o shut)
  BY <1>6, ClosedIsTold
<1>. HIDE DEF closed, shut
<1>8. /\ final \in Seq(Events)
      /\ Told(EmitStatus(EmitClosed(ended, closed), status), ((((q \o first) \o p) \o end) \o shut) \o final)
  BY <1>7, StatusIsTold
<1>. HIDE DEF final
<1>9. /\ first \o p \in Seq(Events) /\ (first \o p) \o end \in Seq(Events)
      /\ ((first \o p) \o end) \o shut \in Seq(Events)
      /\ (((first \o p) \o end) \o shut) \o final \in Seq(Events)
  BY <1>5, <1>6, <1>7, <1>8, ConcatProperties
<1>10. ((((q \o first) \o p) \o end) \o shut) \o final = q \o ((((first \o p) \o end) \o shut) \o final)
  <2>. DEFINE two == first \o p
              three == two \o end
              four == three \o shut
  <2>1. /\ q \in Seq(Events) /\ first \in Seq(Events) /\ p \in Seq(Events)
        /\ end \in Seq(Events) /\ shut \in Seq(Events) /\ final \in Seq(Events)
    BY <1>2, <1>5, <1>6, <1>7, <1>8
  <2>2. two \in Seq(Events) /\ three \in Seq(Events) /\ four \in Seq(Events)
    BY <1>9
  <2>. HIDE DEF two, three, four
  <2>3. /\ Joined(q, first, p) /\ Joined(q, two, end)
        /\ Joined(q, three, shut) /\ Joined(q, four, final)
    BY <2>1, <2>2, AreJoined
  <2>. QED
    BY <2>3 DEF Joined, two, three, four
<1>. QED
  BY <1>1, <1>8, <1>9, <1>10, SubmitKeeps DEF q

LEMMA NotStartedKeeps ==
  ASSUME TerminalInv, NotStarted
  PROVE  TerminalInv'
<1>. DEFINE q == Append(shown, Row(Prompt \o line))
<1>1. Told(Entered, q)
  BY EnteredIsTold
<1>. HIDE DEF q
<1>2. StatusRow(-1) \in Seq(Events) /\ Told(EmitStatus(Entered, -1), q \o StatusRow(-1))
  BY <1>1, StatusIsTold
<1>. QED
  BY <1>2, SubmitKeeps DEF q, NotStarted

\* The window, its open row and the escape sequence under way belong to the
\* transcript of everything given to the window (xde_terminal_append_output,
\* xde_terminal_push, xde_terminal_submit_line).
THEOREM WindowFollows == TerminalSpec => []TerminalInv
<1>1. TerminalInit => TerminalInv
  <2>. SUFFICES ASSUME TerminalInit PROVE TerminalInv
    OBVIOUS
  <2>1. Screen = Blank
    BY DEF TerminalInit, Screen, Blank
  <2>2. line = <<>> /\ shown = <<>> /\ <<>> \in Seq(Chars) /\ <<>> \in Seq(Events)
    BY DEF TerminalInit
  <2>. QED
    BY <2>1, <2>2, InvIsTold, NothingYet, TranscriptBegins DEF Told
<1>2. TerminalInv /\ [TerminalNext]_terminalVars => TerminalInv'
  <2>. SUFFICES ASSUME TerminalInv, [TerminalNext]_terminalVars PROVE TerminalInv'
    OBVIOUS
  <2>1. ASSUME NEW ch \in Keys, Key(ch) PROVE TerminalInv'
    BY <2>1, KeyKeeps
  <2>2. CASE SubmitNothing
    BY <2>2, MessagesAreRows, SubmitRowKeeps DEF SubmitNothing
  <2>3. CASE SubmitClosed
    BY <2>3, MessagesAreRows, SubmitRowKeeps DEF SubmitClosed
  <2>4. CASE RunClear
    BY <2>4, ClearKeeps
  <2>5. CASE RunCaps
    BY <2>5, MessagesAreRows, SubmitRowKeeps DEF RunCaps
  <2>6. CASE RunExit
    BY <2>6, MessagesAreRows, SubmitRowKeeps DEF RunExit
  <2>7. CASE RunUnknown
    BY <2>7, MessagesAreRows, SubmitRowKeeps DEF RunUnknown
  <2>8. ASSUME NEW output \in Outputs, NEW status \in {0, 1, -1}, NEW closes \in BOOLEAN,
               RunProgram(output, status, closes)
        PROVE  TerminalInv'
    BY <2>8, ProgramKeeps
  <2>9. CASE NotStarted
    BY <2>9, NotStartedKeeps
  <2>10. CASE UNCHANGED terminalVars
    <3>1. line' = line /\ shown' = shown /\ Screen' = Screen
      BY <2>10 DEF terminalVars, screen, Screen
    <3>. QED
      BY <3>1 DEF TerminalInv
  <2>. QED
    BY <2>1, <2>2, <2>3, <2>4, <2>5, <2>6, <2>7, <2>8, <2>9, <2>10 DEF TerminalNext
<1>. QED
  BY <1>1, <1>2, PTL DEF TerminalSpec

\* The window shows the last rows of everything given to it since the last
\* clear, whatever the programs print and wherever an escape sequence is cut
\* (xde_terminal_append_output, xde_terminal_push).
THEOREM WindowShowsTheEnd == TerminalSpec => []ScreenIsTail
<1>1. TerminalInv => ScreenIsTail
  BY DEF TerminalInv, ScreenIsTail, Agrees, Window, Screen
<1>. QED
  BY <1>1, WindowFollows, PTL
=============================================================================
