---------------------------- MODULE DesktopProofs ----------------------------
(***************************************************************************)
(* Proofs about Desktop, for every screen, number of slots and set of      *)
(* programs.  A handler is a composition of requests to the window manager *)
(* and of assignments, so each of these gets a lemma that says what it     *)
(* keeps of Sound and of Fresh; a handler's lemma chains them.             *)
(***************************************************************************)
EXTENDS Desktop, FiniteSetTheorems, WellFoundedInduction, TLAPS

----------------------------------------------------------------------------
(* Queues. *)

LEMMA AppendedEvents ==
  ASSUME NEW q \in Seq(Events), NEW e \in Events, NEW k, NEW K
  PROVE  /\ Append(q, e) \in Seq(Events)
         /\ Ends(Append(q, e), k, K) => e.kind = k \/ (Ends(q, k, K) /\ e.kind \notin K)
         /\ Lacks(Append(q, e), K) <=> Lacks(q, K) /\ e.kind \notin K
<1>1. /\ Append(q, e) \in Seq(Events) /\ Len(q) \in Nat
      /\ Len(Append(q, e)) = Len(q) + 1 /\ Append(q, e)[Len(q) + 1] = e
      /\ \A n \in 1 .. Len(q) : Append(q, e)[n] = q[n]
  OBVIOUS
<1>2. ASSUME Ends(Append(q, e), k, K), e.kind # k
      PROVE  Ends(q, k, K) /\ e.kind \notin K
  <2>1. PICK n \in 1 .. Len(q) + 1 : /\ Append(q, e)[n].kind = k
                                     /\ \A m \in n + 1 .. Len(q) + 1 : Append(q, e)[m].kind \notin K
    BY <1>1, <1>2 DEF Ends
  <2>2. n \in 1 .. Len(q)
    BY <1>1, <1>2, <2>1
  <2>. QED
    BY <1>1, <2>1, <2>2 DEF Ends
<1>3. Lacks(Append(q, e), K) <=> Lacks(q, K) /\ e.kind \notin K
  BY <1>1 DEF Lacks
<1>. QED
  BY <1>1, <1>2, <1>3

LEMMA TakenEvent ==
  ASSUME NEW q \in Seq(Events), q # <<>>, NEW k, NEW K
  PROVE  /\ Tail(q) \in Seq(Events) /\ Head(q) \in Events
         /\ Ends(Tail(q), k, K) => Ends(q, k, K)
         /\ Lacks(Tail(q), K) => Ends(q, Head(q).kind, K)
         /\ Lacks(Tail(q), K) /\ Head(q).kind \notin K => Lacks(q, K)
<1>1. /\ Tail(q) \in Seq(Events) /\ Head(q) \in Events /\ Len(q) \in Nat \ {0}
      /\ Len(Tail(q)) = Len(q) - 1 /\ Head(q) = q[1]
      /\ \A n \in 1 .. Len(q) - 1 : Tail(q)[n] = q[n + 1]
  OBVIOUS
<1>2. \A m \in 2 .. Len(q) : m - 1 \in 1 .. Len(q) - 1 /\ Tail(q)[m - 1] = q[m]
  BY <1>1
<1>3. ASSUME Ends(Tail(q), k, K) PROVE Ends(q, k, K)
  <2>1. PICK n \in 1 .. Len(q) - 1 : /\ Tail(q)[n].kind = k
                                     /\ \A m \in n + 1 .. Len(q) - 1 : Tail(q)[m].kind \notin K
    BY <1>1, <1>3 DEF Ends
  <2>2. n + 1 \in 1 .. Len(q) /\ q[n + 1].kind = k
    BY <1>1, <2>1
  <2>3. \A m \in n + 1 + 1 .. Len(q) : m - 1 \in n + 1 .. Len(q) - 1 /\ Tail(q)[m - 1] = q[m]
    BY <1>1, <1>2
  <2>. QED
    BY <2>1, <2>2, <2>3 DEF Ends
<1>4. ASSUME Lacks(Tail(q), K) PROVE \A m \in 2 .. Len(q) : q[m].kind \notin K
  BY <1>1, <1>2, <1>4 DEF Lacks
<1>5. Lacks(Tail(q), K) => Ends(q, Head(q).kind, K)
  BY <1>1, <1>4 DEF Ends
<1>6. Lacks(Tail(q), K) /\ Head(q).kind \notin K => Lacks(q, K)
  BY <1>1, <1>4 DEF Lacks
<1>. QED
  BY <1>1, <1>3, <1>5, <1>6

LEMMA NoEvents ==
  ASSUME NEW k, NEW K
  PROVE  <<>> \in Seq(Events) /\ ~Ends(<<>>, k, K) /\ Lacks(<<>>, K)
BY DEF Ends, Lacks

----------------------------------------------------------------------------
(* The button: between two presses in one window there is a release. *)

LEMMA KindsOf ==
  /\ Gained \in Events /\ Gained.kind = "gained" /\ Lost \in Events /\ Lost.kind = "lost"
  /\ Release \in Events /\ Release.kind = "release" /\ Key \in Events /\ Key.kind = "key"
  /\ \A x, y \in Nat : Press(x, y) \in Events /\ Press(x, y).kind = "press"
                       /\ Press(x, y).x = x /\ Press(x, y).y = y
  /\ \A p \in Spots : MoveTo(p) \in Events /\ MoveTo(p).kind = "move"
  /\ \A e \in Events : /\ e.kind \in {"gained", "lost", "release", "key", "press", "move"}
                       /\ e.kind = "press" => e.x \in Nat /\ e.y \in Nat
                       /\ e.kind = "move" => e.x \in 0 .. SurfaceW /\ e.y \in 0 .. SurfaceH
BY DEF Gained, Lost, Release, Key, Press, MoveTo, Events, Spots

LEMMA HandSame ==
  ASSUME NEW c, NEW q, NEW held, OneHand(c, q, held), NEW b, NEW g,
         b.dragging => c.dragging, g = b.id <=> held = c.id
  PROVE  OneHand(b, q, g)
<1>1. \A n : Pressed(b, q, g, n) => Pressed(c, q, held, n)
  BY DEF Pressed
<1>. QED
  BY <1>1 DEF OneHand

LEMMA HandAppend ==
  ASSUME NEW c, NEW q \in Seq(Events), NEW held, OneHand(c, q, held), NEW e \in Events, NEW g,
         \/ e.kind \notin {"press", "release"} /\ g = held
         \/ e.kind = "press" /\ held # c.id /\ g = c.id
         \/ e.kind = "release"
  PROVE  OneHand(c, Append(q, e), g)
<1> DEFINE r == Append(q, e)
           L == Len(q)
<1>1. /\ L \in Nat /\ Len(r) = L + 1 /\ r[L + 1] = e /\ \A n \in 1 .. L : r[n] = q[n]
  OBVIOUS
<1>. HIDE DEF r, L
<1>2. ASSUME NEW m \in 0 .. L + 2, NEW n \in 0 .. L + 2, m < n,
             Pressed(c, r, g, m), Pressed(c, r, g, n)
      PROVE  \E k \in m + 1 .. n - 1 : r[k].kind = "release"
  <2>0. ASSUME NEW z \in 0 .. L + 2, Pressed(c, r, g, z)
        PROVE  \/ z = 0 /\ c.dragging
               \/ z \in 1 .. L + 1 /\ r[z].kind = "press"
               \/ z = L + 2 /\ g # c.id
    BY <1>1, <2>0 DEF Pressed
  <2>1. /\ (m = 0 /\ c.dragging) \/ (m \in 1 .. L + 1 /\ r[m].kind = "press")
        /\ (n \in 1 .. L + 1 /\ r[n].kind = "press") \/ (n = L + 2 /\ g # c.id)
    <3>1. m # L + 2 /\ n # 0
      BY <1>1, <1>2
    <3>2. (m = 0 /\ c.dragging) \/ (m \in 1 .. L + 1 /\ r[m].kind = "press")
      BY <1>2, <2>0, <3>1
    <3>3. (n \in 1 .. L + 1 /\ r[n].kind = "press") \/ (n = L + 2 /\ g # c.id)
      BY <1>2, <2>0, <3>1
    <3>. QED
      BY <3>2, <3>3
  <2>2. m \in 1 .. L => Pressed(c, q, held, m)
    BY <1>1, <2>1 DEF Pressed, L
  <2>3. m = 0 => Pressed(c, q, held, m)
    BY <2>1 DEF Pressed
  <2>4. CASE n \in 1 .. L
    <3>1. Pressed(c, q, held, n)
      BY <1>1, <2>1, <2>4 DEF Pressed, L
    <3>2. m \in 0 .. L + 1 /\ n \in 0 .. L + 1 /\ Pressed(c, q, held, m)
      BY <1>1, <1>2, <2>2, <2>3, <2>4
    <3>3. PICK k \in m + 1 .. n - 1 : q[k].kind = "release"
      BY <1>2, <3>1, <3>2 DEF OneHand, L
    <3>. QED
      BY <1>1, <1>2, <2>4, <3>3
  <2>5. CASE n = L + 1
    <3>1. e.kind = "press" /\ held # c.id
      BY <1>1, <2>1, <2>5
    <3>2. Pressed(c, q, held, n) /\ Pressed(c, q, held, m)
      BY <1>1, <1>2, <2>2, <2>3, <2>5, <3>1 DEF Pressed, L
    <3>3. m \in 0 .. L + 1 /\ n \in 0 .. L + 1
      BY <1>1, <1>2, <2>5
    <3>4. PICK k \in m + 1 .. n - 1 : q[k].kind = "release"
      BY <1>2, <3>2, <3>3 DEF OneHand, L
    <3>. QED
      BY <1>1, <1>2, <2>5, <3>4
  <2>6. CASE n = L + 2
    <3>1. g # c.id
      BY <1>1, <2>1, <2>6
    <3>2. CASE e.kind = "release"
      <4>1. m # L + 1
        BY <1>1, <2>1, <3>2
      <4>. QED
        BY <1>1, <1>2, <2>6, <3>2, <4>1
    <3>3. CASE e.kind \notin {"press", "release"} /\ g = held
      <4>1. m # L + 1 /\ m \in 0 .. L + 1 /\ L + 1 \in 0 .. L + 1 /\ m < L + 1
        BY <1>1, <1>2, <2>1, <2>6, <3>3
      <4>2. Pressed(c, q, held, m) /\ Pressed(c, q, held, L + 1)
        BY <1>1, <2>2, <2>3, <3>1, <3>3, <4>1 DEF Pressed, L
      <4>3. PICK k \in m + 1 .. L + 1 - 1 : q[k].kind = "release"
        BY <4>1, <4>2 DEF OneHand, L
      <4>. QED
        BY <1>1, <1>2, <2>6, <4>3
    <3>. QED
      BY <3>1, <3>2, <3>3
  <2>. QED
    BY <1>1, <1>2, <2>4, <2>5, <2>6
<1>3. Len(r) + 1 = L + 2
  BY <1>1
<1>. QED
  BY <1>2, <1>3 DEF OneHand, r

LEMMA HandTaken ==
  ASSUME NEW c, NEW q \in Seq(Events), NEW held, OneHand(c, q, held), q # <<>>
  PROVE  /\ Head(q).kind = "press" => ~c.dragging
         /\ \A b : /\ b.id = c.id
                   /\ b.dragging => \/ Head(q).kind = "press"
                                    \/ Head(q).kind # "release" /\ c.dragging
                   => OneHand(b, Tail(q), held)
<1> DEFINE r == Tail(q)
           L == Len(q)
<1>1. /\ L \in Nat \ {0} /\ Len(r) = L - 1 /\ Head(q) = q[1]
      /\ \A n \in 1 .. L - 1 : r[n] = q[n + 1]
  OBVIOUS
<1>. HIDE DEF r
<1>2. ASSUME Head(q).kind = "press", c.dragging PROVE FALSE
  <2>1. Pressed(c, q, held, 0) /\ Pressed(c, q, held, 1) /\ 0 < 1
    BY <1>1, <1>2 DEF Pressed
  <2>2. 0 \in 0 .. L + 1 /\ 1 \in 0 .. L + 1
    BY <1>1
  <2>3. \E k \in 0 + 1 .. 1 - 1 : q[k].kind = "release"
    BY <2>1, <2>2 DEF OneHand
  <2>. QED
    BY <2>3
<1>3. ASSUME NEW b, b.id = c.id,
             b.dragging => \/ Head(q).kind = "press"
                           \/ Head(q).kind # "release" /\ c.dragging
      PROVE  OneHand(b, r, held)
  <2>1. ASSUME NEW m \in 0 .. L, NEW n \in 0 .. L, m < n,
               Pressed(b, r, held, m), Pressed(b, r, held, n)
        PROVE  \E k \in m + 1 .. n - 1 : r[k].kind = "release"
    <3>0. ASSUME NEW z \in 1 .. L, Pressed(b, r, held, z) PROVE Pressed(c, q, held, z + 1)
      <4>1. \/ z \in 1 .. L - 1 /\ r[z].kind = "press"
            \/ z = L /\ held # c.id
        BY <1>1, <1>3, <3>0 DEF Pressed
      <4>2. z \in 1 .. L - 1 => z + 1 \in 1 .. L /\ r[z] = q[z + 1]
        BY <1>1
      <4>. QED
        BY <1>1, <4>1, <4>2 DEF Pressed
    <3>1. n \in 1 .. L /\ n + 1 \in 0 .. L + 1 /\ Pressed(c, q, held, n + 1)
      <4>1. n \in 1 .. L /\ n + 1 \in 0 .. L + 1
        BY <1>1, <2>1
      <4>. QED
        BY <2>1, <3>0, <4>1
    <3>2. ASSUME NEW k \in 2 .. n, q[k].kind = "release"
          PROVE  k - 1 \in 1 .. n - 1 /\ r[k - 1].kind = "release"
      <4>1. k - 1 \in 1 .. L - 1 /\ k - 1 + 1 = k /\ k - 1 \in 1 .. n - 1
        BY <1>1, <3>1
      <4>2. r[k - 1] = q[k - 1 + 1]
        BY <1>1, <4>1
      <4>. QED
        BY <3>2, <4>1, <4>2
    <3>3. CASE m # 0
      <4>0. m \in 1 .. L /\ m + 1 \in 0 .. L + 1 /\ m + 1 < n + 1
        BY <1>1, <2>1, <3>3
      <4>1. m + 1 \in 0 .. L + 1 /\ m + 1 < n + 1 /\ Pressed(c, q, held, m + 1)
        BY <2>1, <3>0, <4>0
      <4>2. PICK k \in m + 1 + 1 .. n + 1 - 1 : q[k].kind = "release"
        BY <3>1, <4>1 DEF OneHand
      <4>3. k - 1 \in m + 1 .. n - 1
        BY <1>1, <2>1, <4>2
      <4>. QED
        BY <1>1, <2>1, <3>2, <3>3, <4>2, <4>3
    <3>4. CASE m = 0 /\ Head(q).kind = "press"
      <4>1. 1 \in 0 .. L + 1 /\ 1 < n + 1 /\ Pressed(c, q, held, 1)
        BY <1>1, <3>1, <3>4 DEF Pressed
      <4>2. PICK k \in 1 + 1 .. n + 1 - 1 : q[k].kind = "release"
        BY <3>1, <4>1 DEF OneHand
      <4>. QED
        BY <1>1, <3>1, <3>2, <3>4, <4>2
    <3>5. CASE m = 0 /\ Head(q).kind # "release" /\ c.dragging
      <4>1. 0 \in 0 .. L + 1 /\ 0 < n + 1 /\ Pressed(c, q, held, 0)
        BY <1>1, <3>1, <3>5 DEF Pressed
      <4>2. PICK k \in 0 + 1 .. n + 1 - 1 : q[k].kind = "release"
        BY <3>1, <4>1 DEF OneHand
      <4>3. k \in 2 .. n
        BY <1>1, <3>1, <3>5, <4>2
      <4>. QED
        BY <1>1, <3>1, <3>2, <3>5, <4>2, <4>3
    <3>6. m = 0 => b.dragging
      BY <1>1, <2>1 DEF Pressed
    <3>. QED
      BY <1>3, <3>3, <3>4, <3>5, <3>6
  <2>2. Len(r) + 1 = L
    BY <1>1
  <2>. QED
    BY <2>1, <2>2 DEF OneHand
<1>. QED
  BY <1>2, <1>3 DEF r

----------------------------------------------------------------------------
(* What a client believes of the focus. *)

\* What happens elsewhere does not matter.
LEMMA StillAgrees ==
  ASSUME NEW c, NEW q, NEW f, NEW held, Agrees(c, q, f, held), NEW b, NEW g,
         b.id = c.id, b.focused = c.focused, b.dragging => c.dragging, g = c.id <=> f = c.id
  PROVE  Agrees(b, q, g, held)
BY HandSame DEF Agrees

LEMMA HeldAgrees ==
  ASSUME NEW c, NEW q, NEW f, NEW held, Agrees(c, q, f, held), NEW h, h = c.id <=> held = c.id
  PROVE  Agrees(c, q, f, h)
BY HandSame DEF Agrees

LEMMA GainAgrees ==
  ASSUME NEW c, NEW q \in Seq(Events), NEW f, NEW g, NEW held, Agrees(c, q, f, held), g = c.id
  PROVE  Agrees(c, Append(q, Gained), g, held)
<1>1. /\ Gained \in Events /\ Gained.kind = "gained"
  BY KindsOf
<1>2. ~Ends(Append(q, Gained), "lost", FocusKinds) /\ ~Lacks(Append(q, Gained), FocusKinds)
  <2>1. "gained" \in FocusKinds /\ "gained" # "lost"
    BY DEF FocusKinds
  <2>2. ~Ends(Append(q, Gained), "lost", FocusKinds)
    BY <1>1, <2>1, AppendedEvents
  <2>3. ~Lacks(Append(q, Gained), FocusKinds)
    BY <1>1, <2>1, AppendedEvents
  <2>. QED
    BY <2>2, <2>3
<1>3. OneHand(c, Append(q, Gained), held)
  BY <1>1, HandAppend DEF Agrees
<1>. QED
  BY <1>2, <1>3 DEF Agrees

LEMMA LossAgrees ==
  ASSUME NEW c, NEW q \in Seq(Events), NEW f, NEW g, NEW held, Agrees(c, q, f, held), g # c.id
  PROVE  Agrees(c, Append(q, Lost), g, held)
<1>1. /\ Lost \in Events /\ Lost.kind = "lost"
  BY KindsOf
<1>2. /\ ~Ends(Append(q, Lost), "gained", FocusKinds) /\ ~Lacks(Append(q, Lost), FocusKinds)
      /\ ~Ends(Append(q, Lost), "press", {"lost"}) /\ ~Lacks(Append(q, Lost), {"lost"})
  <2>1. "lost" \in FocusKinds /\ "gained" # "lost" /\ "press" # "lost" /\ "lost" \in {"lost"}
    BY DEF FocusKinds
  <2>2. ~Ends(Append(q, Lost), "gained", FocusKinds) /\ ~Lacks(Append(q, Lost), FocusKinds)
    BY <1>1, <2>1, AppendedEvents
  <2>3. ~Ends(Append(q, Lost), "press", {"lost"}) /\ ~Lacks(Append(q, Lost), {"lost"})
    BY <1>1, <2>1, AppendedEvents
  <2>. QED
    BY <2>2, <2>3
<1>3. OneHand(c, Append(q, Lost), held)
  BY <1>1, HandAppend DEF Agrees
<1>. QED
  BY <1>2, <1>3 DEF Agrees

\* The user's events: h is the window the button is held in afterwards.
LEMMA OtherAgrees ==
  ASSUME NEW c, NEW q \in Seq(Events), NEW f, NEW held, Agrees(c, q, f, held), NEW e \in Events, NEW h,
         e.kind \notin FocusKinds,
         \/ e.kind \notin {"press", "release"} /\ h = held
         \/ e.kind = "press" /\ f = c.id /\ held # c.id /\ h = c.id
         \/ e.kind = "release"
  PROVE  Agrees(c, Append(q, e), f, h)
<1>1. /\ Ends(Append(q, e), "gained", FocusKinds) => Ends(q, "gained", FocusKinds)
      /\ Ends(Append(q, e), "lost", FocusKinds) => Ends(q, "lost", FocusKinds)
      /\ Ends(Append(q, e), "press", {"lost"}) => Ends(q, "press", {"lost"}) \/ e.kind = "press"
      /\ Lacks(Append(q, e), FocusKinds) => Lacks(q, FocusKinds)
      /\ Lacks(Append(q, e), {"lost"}) => Lacks(q, {"lost"})
  BY AppendedEvents DEF FocusKinds
<1>2. OneHand(c, Append(q, e), h)
  BY HandAppend DEF Agrees
<1>. QED
  BY <1>1, <1>2 DEF Agrees

\* The event at the head is handled: what it says is the focus, unless a later
\* event says otherwise; a press comes when nothing is dragged, and when the
\* window still has the focus afterwards, it may begin a drag.
LEMMA HandledAgrees ==
  ASSUME NEW c, NEW q \in Seq(Events), NEW f, NEW held, Agrees(c, q, f, held), q # <<>>, NEW b,
         b.id = c.id,
         \/ Head(q).kind = "gained" /\ b.focused = TRUE /\ b.dragging = c.dragging
         \/ Head(q).kind = "lost" /\ b.focused = FALSE /\ b.dragging = FALSE
         \/ Head(q).kind = "release" /\ b.focused = c.focused /\ b.dragging = FALSE
         \/ Head(q).kind = "press" /\ b.focused = c.focused
         \/ /\ Head(q).kind \notin {"gained", "lost", "press", "release"}
            /\ b.focused = c.focused
            /\ b.dragging => c.dragging
  PROVE  /\ Agrees(b, Tail(q), f, held)
         /\ Head(q).kind = "press" => ~c.dragging
<1>1. /\ Ends(Tail(q), "gained", FocusKinds) => Ends(q, "gained", FocusKinds)
      /\ Ends(Tail(q), "lost", FocusKinds) => Ends(q, "lost", FocusKinds)
      /\ Ends(Tail(q), "press", {"lost"}) => Ends(q, "press", {"lost"})
  BY TakenEvent
<1>2. /\ Lacks(Tail(q), FocusKinds) => Ends(q, Head(q).kind, FocusKinds)
      /\ Lacks(Tail(q), {"lost"}) => Ends(q, Head(q).kind, {"lost"})
      /\ Lacks(Tail(q), FocusKinds) /\ Head(q).kind \notin FocusKinds => Lacks(q, FocusKinds)
      /\ Lacks(Tail(q), {"lost"}) /\ Head(q).kind # "lost" => Lacks(q, {"lost"})
  BY TakenEvent
<1>3. Head(q).kind = "press" => ~c.dragging
  BY HandTaken DEF Agrees
<1>4. OneHand(b, Tail(q), held)
  <2>1. OneHand(c, q, held)
    BY DEF Agrees
  <2>2. b.dragging => \/ Head(q).kind = "press"
                      \/ Head(q).kind # "release" /\ c.dragging
    OBVIOUS
  <2>. QED
    BY <2>1, <2>2, HandTaken
<1>5. /\ Ends(Tail(q), "gained", FocusKinds) => f = b.id
      /\ Ends(Tail(q), "lost", FocusKinds) => f # b.id
      /\ Ends(Tail(q), "press", {"lost"}) => f = b.id
  BY <1>1 DEF Agrees
<1>6. ASSUME Lacks(Tail(q), FocusKinds) PROVE b.focused <=> f = b.id
  <2>1. CASE Head(q).kind = "gained" /\ b.focused = TRUE
    BY <1>2, <1>6, <2>1 DEF Agrees
  <2>2. CASE Head(q).kind = "lost" /\ b.focused = FALSE
    BY <1>2, <1>6, <2>2 DEF Agrees
  <2>3. CASE Head(q).kind \notin FocusKinds /\ b.focused = c.focused
    BY <1>2, <1>6, <2>3 DEF Agrees
  <2>4. Head(q).kind \notin {"gained", "lost"} <=> Head(q).kind \notin FocusKinds
    BY DEF FocusKinds
  <2>. QED
    BY <2>1, <2>2, <2>3, <2>4
<1>7. ASSUME b.dragging, Lacks(Tail(q), {"lost"}) PROVE f = b.id
  <2>1. CASE Head(q).kind = "press"
    BY <1>2, <1>7, <2>1 DEF Agrees
  <2>2. CASE c.dragging /\ Head(q).kind # "lost"
    BY <1>2, <1>7, <2>2 DEF Agrees
  <2>. QED
    BY <1>7, <2>1, <2>2
<1>. QED
  BY <1>3, <1>4, <1>5, <1>6, <1>7 DEF Agrees

----------------------------------------------------------------------------
(* The requests to the window manager. *)

LEMMA SendEffect ==
  ASSUME NEW d, Typed(d), NEW w, NEW e \in Events, NEW s, s = Send(d, w, e)
  PROVE  /\ Typed(s)
         /\ s.slots = d.slots /\ s.focus = d.focus /\ s.drawn = d.drawn
         /\ s.selected = d.selected /\ s.put = d.put /\ DOMAIN s.wins = DOMAIN d.wins
         /\ \A v \in DOMAIN d.wins :
              /\ s.wins[v].geom = d.wins[v].geom
              /\ s.wins[v].queue = IF v = w /\ v \notin {Desk, Bar}
                                   THEN Append(d.wins[v].queue, e) ELSE d.wins[v].queue
<1>1. /\ d = [slots |-> d.slots, wins |-> d.wins, focus |-> d.focus, drawn |-> d.drawn,
              selected |-> d.selected, put |-> d.put]
      /\ d.wins \in [DOMAIN d.wins -> Windows]
  BY DEF Typed
<1>2. CASE w \in DOMAIN d.wins \ {Desk, Bar}
  <2>1. s = [slots |-> d.slots,
             wins |-> [d.wins EXCEPT ![w].queue = Append(@, e)],
             focus |-> d.focus, drawn |-> d.drawn, selected |-> d.selected, put |-> d.put]
    BY <1>1, <1>2 DEF Send
  <2>2. /\ s.slots = d.slots /\ s.focus = d.focus /\ s.drawn = d.drawn
        /\ s.selected = d.selected /\ s.put = d.put
        /\ s.wins = [d.wins EXCEPT ![w].queue = Append(@, e)]
    BY <2>1
  <2>3. DOMAIN s.wins = DOMAIN d.wins
    BY <2>2
  <2>4. d.wins[w].geom \in Geoms /\ d.wins[w].queue \in Seq(Events) /\ d.wins[w] \in Windows
    BY <1>1, <1>2 DEF Windows
  <2>5. Append(d.wins[w].queue, e) \in Seq(Events)
    BY <2>4
  <2>6. s.wins[w] = [geom |-> d.wins[w].geom, queue |-> Append(d.wins[w].queue, e)]
    BY <1>2, <2>2, <2>4 DEF Windows
  <2>7. \A v \in DOMAIN d.wins : v # w => s.wins[v] = d.wins[v]
    BY <2>2
  <2>8. s.wins \in [DOMAIN s.wins -> Windows]
    <3>1. s.wins[w] \in Windows
      BY <2>4, <2>5, <2>6 DEF Windows
    <3>. QED
      BY <1>1, <2>2, <2>7, <3>1
  <2>9. s = [slots |-> s.slots, wins |-> s.wins, focus |-> s.focus, drawn |-> s.drawn,
             selected |-> s.selected, put |-> s.put]
    BY <2>1
  <2>10. Typed(s)
    BY <2>2, <2>3, <2>8, <2>9 DEF Typed
  <2>11. \A v \in DOMAIN d.wins :
            /\ s.wins[v].geom = d.wins[v].geom
            /\ s.wins[v].queue = IF v = w /\ v \notin {Desk, Bar}
                                 THEN Append(d.wins[v].queue, e) ELSE d.wins[v].queue
    <3>1. /\ s.wins[w].geom = d.wins[w].geom
          /\ s.wins[w].queue = Append(d.wins[w].queue, e)
      BY <2>6
    <3>. QED
      BY <1>2, <2>7, <3>1
  <2>. QED
    BY <2>2, <2>3, <2>10, <2>11
<1>3. CASE w \notin DOMAIN d.wins \ {Desk, Bar}
  BY <1>3 DEF Send
<1>. QED
  BY <1>2, <1>3

LEMMA FocusEffect ==
  ASSUME NEW d, Typed(d), NEW w \in DOMAIN d.wins, NEW n, n = Focus(d, w)
  PROVE  /\ Typed(n)
         /\ n.slots = d.slots /\ n.focus = w /\ n.drawn = d.drawn
         /\ n.selected = d.selected /\ n.put = d.put /\ DOMAIN n.wins = DOMAIN d.wins
         /\ \A v \in DOMAIN d.wins :
              /\ n.wins[v].geom = d.wins[v].geom
              /\ d.focus = w \/ v \in {Desk, Bar} \/ v \notin {w, d.focus}
                   => n.wins[v].queue = d.wins[v].queue
              /\ d.focus # w /\ v \notin {Desk, Bar} /\ v = w
                   => n.wins[v].queue = Append(d.wins[v].queue, Gained)
              /\ d.focus # w /\ v \notin {Desk, Bar} /\ v = d.focus
                   => n.wins[v].queue = Append(d.wins[v].queue, Lost)
<1>1. CASE d.focus = w
  BY <1>1 DEF Focus, Typed
<1>2. CASE d.focus # w
  <2> DEFINE a == [d EXCEPT !.focus = w]
             b == Send(a, d.focus, Lost)
             c == Send(b, w, Gained)
  <2>1. /\ d = [slots |-> d.slots, wins |-> d.wins, focus |-> d.focus, drawn |-> d.drawn,
                selected |-> d.selected, put |-> d.put]
    BY DEF Typed
  <2>2. a = [slots |-> d.slots, wins |-> d.wins, focus |-> w, drawn |-> d.drawn,
             selected |-> d.selected, put |-> d.put]
    BY <2>1
  <2>3. /\ a.slots = d.slots /\ a.wins = d.wins /\ a.focus = w /\ a.drawn = d.drawn
        /\ a.selected = d.selected /\ a.put = d.put
    BY <2>2
  <2>4. a = [slots |-> a.slots, wins |-> a.wins, focus |-> a.focus, drawn |-> a.drawn,
             selected |-> a.selected, put |-> a.put]
    BY <2>2
  <2>5. n = c
    BY <1>2 DEF Focus
  <2>. HIDE DEF a
  <2>6. Typed(a)
    BY <2>3, <2>4 DEF Typed
  <2>7. Lost \in Events /\ Gained \in Events
    BY KindsOf
  <2>8. /\ Typed(b)
        /\ b.slots = a.slots /\ b.focus = a.focus /\ b.drawn = a.drawn
        /\ b.selected = a.selected /\ b.put = a.put /\ DOMAIN b.wins = DOMAIN a.wins
        /\ \A v \in DOMAIN a.wins :
             /\ b.wins[v].geom = a.wins[v].geom
             /\ b.wins[v].queue = IF v = d.focus /\ v \notin {Desk, Bar}
                                  THEN Append(a.wins[v].queue, Lost) ELSE a.wins[v].queue
    BY <2>6, <2>7, SendEffect
  <2>. HIDE DEF b
  <2>9. /\ Typed(c)
        /\ c.slots = b.slots /\ c.focus = b.focus /\ c.drawn = b.drawn
        /\ c.selected = b.selected /\ c.put = b.put /\ DOMAIN c.wins = DOMAIN b.wins
        /\ \A v \in DOMAIN b.wins :
             /\ c.wins[v].geom = b.wins[v].geom
             /\ c.wins[v].queue = IF v = w /\ v \notin {Desk, Bar}
                                  THEN Append(b.wins[v].queue, Gained) ELSE b.wins[v].queue
    BY <2>7, <2>8, SendEffect
  <2>. HIDE DEF c
  <2>10. /\ Typed(n)
         /\ n.slots = d.slots /\ n.focus = w /\ n.drawn = d.drawn
         /\ n.selected = d.selected /\ n.put = d.put /\ DOMAIN n.wins = DOMAIN d.wins
    BY <2>3, <2>5, <2>8, <2>9
  <2>11. ASSUME NEW v \in DOMAIN d.wins
         PROVE  /\ n.wins[v].geom = d.wins[v].geom
                /\ v \in {Desk, Bar} \/ v \notin {w, d.focus} => n.wins[v].queue = d.wins[v].queue
                /\ v \notin {Desk, Bar} /\ v = w
                     => n.wins[v].queue = Append(d.wins[v].queue, Gained)
                /\ v \notin {Desk, Bar} /\ v = d.focus
                     => n.wins[v].queue = Append(d.wins[v].queue, Lost)
    <3>1. v \in DOMAIN a.wins /\ v \in DOMAIN b.wins /\ a.wins[v] = d.wins[v]
      BY <2>3, <2>8
    <3>2. /\ b.wins[v].geom = a.wins[v].geom
          /\ b.wins[v].queue = IF v = d.focus /\ v \notin {Desk, Bar}
                               THEN Append(a.wins[v].queue, Lost) ELSE a.wins[v].queue
      BY <2>8, <3>1
    <3>3. /\ c.wins[v].geom = b.wins[v].geom
          /\ c.wins[v].queue = IF v = w /\ v \notin {Desk, Bar}
                               THEN Append(b.wins[v].queue, Gained) ELSE b.wins[v].queue
      BY <2>9, <3>1
    <3>. QED
      BY <1>2, <2>5, <3>1, <3>2, <3>3
  <2>. QED
    BY <1>2, <2>10, <2>11
<1>. QED
  BY <1>1, <1>2

----------------------------------------------------------------------------
(* The taskbar. *)

LEMMA LeastNumber ==
  ASSUME NEW T \in SUBSET Nat, T # {}
  PROVE  \E n \in T : \A m \in T : n <= m
<1>1. PICK n \in T : \A m \in T : ~(<<m, n>> \in OpToRel(<, Nat))
  BY WFMin, NatLessThanWellFounded
<1>2. \A m \in T : ~(m < n)
  BY <1>1 DEF OpToRel
<1>. QED
  BY <1>2

\* There is a button at every place up to the number of clients it is for.
LEMMA ButtonExists ==
  ASSUME NEW T \in SUBSET Slots, NEW k \in 1 .. Cardinality(T)
  PROVE  \E i \in T : Cardinality({j \in T : j <= i}) = k
<1> DEFINE Up(i) == {j \in T : j <= i}
           W == {i \in Nat : Cardinality(Up(i)) >= k}
<1>1. SlotMax \in Nat /\ T \subseteq 1 .. SlotMax
  BY BoundAssumption DEF Slots
<1>2. IsFiniteSet(T)
  <2>1. IsFiniteSet(1 .. SlotMax)
    BY <1>1, FS_Interval
  <2>. QED
    BY <1>1, <2>1, FS_Subset
<1>0. \A j \in T : j \in Nat /\ 1 <= j /\ j <= SlotMax
  BY <1>1
<1>3. \A i \in Nat : IsFiniteSet(Up(i)) /\ Cardinality(Up(i)) \in Nat
  BY <1>2, FS_Subset, FS_CardinalityType
<1>4. Cardinality(T) \in Nat /\ k \in Nat /\ k >= 1
  BY <1>2, FS_CardinalityType
<1>5. Up(SlotMax) = T
  BY <1>0
<1>6. SlotMax \in W
  BY <1>1, <1>4, <1>5
<1>7. PICK i \in W : \A j \in W : i <= j
  <2>1. W \in SUBSET Nat
    OBVIOUS
  <2>. HIDE DEF W
  <2>. QED
    BY <1>6, <2>1, LeastNumber
<1>8. Up(0) = {}
  BY <1>0
<1>9. i \in Nat \ {0}
  BY <1>4, <1>8, FS_EmptySet
<1>10. i - 1 \in Nat /\ i - 1 \notin W
  BY <1>7, <1>9
<1>11. Cardinality(Up(i - 1)) < k
  BY <1>3, <1>4, <1>10
<1>12. Cardinality(Up(i)) >= k
  BY <1>7
<1>13. i \in T
  <2>1. ASSUME i \notin T PROVE Up(i) = Up(i - 1)
    <3>1. \A j \in T : j <= i <=> j <= i - 1
      BY <1>0, <1>9, <2>1
    <3>. QED
      BY <3>1
  <2>. HIDE DEF Up
  <2>. QED
    BY <1>3, <1>4, <1>9, <1>10, <1>11, <1>12, <2>1
<1>14. Up(i) = Up(i - 1) \cup {i} /\ i \notin Up(i - 1)
  <2>1. \A j \in T : j <= i <=> j <= i - 1 \/ j = i
    BY <1>1, <1>9
  <2>2. ~(i <= i - 1)
    BY <1>9
  <2>. QED
    BY <1>13, <2>1, <2>2
<1>15. Cardinality(Up(i)) = Cardinality(Up(i - 1)) + 1
  <2>. HIDE DEF Up
  <2>. QED
    BY <1>3, <1>10, <1>14, FS_AddElement
<1>16. Cardinality(Up(i)) = k
  <2>. HIDE DEF Up
  <2>. QED
    BY <1>3, <1>4, <1>9, <1>10, <1>11, <1>12, <1>15
<1>. QED
  BY <1>13, <1>16

LEMMA ButtonSlotIs ==
  ASSUME NEW d, NEW k, Button(d, k) # {}
  PROVE  ButtonSlot(d, k) \in Tasks(d)
BY DEF ButtonSlot, Button

\* What the taskbar shows is told by the clients' types and flags alone.
LEMMA ShownSame ==
  ASSUME NEW d, NEW n,
         \A i \in Slots : /\ d.slots[i] = NoClient <=> n.slots[i] = NoClient
                          /\ d.slots[i] # NoClient => /\ d.slots[i].type = n.slots[i].type
                                                      /\ Face(d.slots[i]) = Face(n.slots[i])
  PROVE  Shown(n) = Shown(d)
<1>1. Tasks(n) = Tasks(d)
  BY DEF Tasks
<1>2. \A k : Button(n, k) = Button(d, k)
  BY <1>1 DEF Button
<1>3. \A k : ButtonSlot(n, k) = ButtonSlot(d, k)
  BY <1>2 DEF ButtonSlot
<1>4. {i \in Slots : n.slots[i] # NoClient /\ n.slots[i].type = "launcher"}
        = {i \in Slots : d.slots[i] # NoClient /\ d.slots[i].type = "launcher"}
  OBVIOUS
<1>5. IndexByType(n, "launcher") = IndexByType(d, "launcher")
  BY <1>4 DEF IndexByType
<1>6. ASSUME NEW k \in 1 .. Cardinality(Tasks(d))
      PROVE  Face(n.slots[ButtonSlot(n, k)]) = Face(d.slots[ButtonSlot(d, k)])
  <2>1. Button(d, k) # {}
    <3>1. Tasks(d) \in SUBSET Slots
      BY DEF Tasks
    <3>2. \E i \in Tasks(d) : Cardinality({j \in Tasks(d) : j <= i}) = k
      BY <3>1, ButtonExists
    <3>. QED
      BY <3>2 DEF Button
  <2>2. ButtonSlot(d, k) \in Slots /\ d.slots[ButtonSlot(d, k)] # NoClient
    BY <2>1, ButtonSlotIs DEF Tasks
  <2>. QED
    BY <1>3, <2>2
<1>. QED
  BY <1>1, <1>5, <1>6 DEF Shown

----------------------------------------------------------------------------
(* What is kept of Sound and Fresh. *)

LEMMA ClientFacts ==
  ASSUME NEW d, Typed(d), NEW i \in Clientele(d)
  PROVE  /\ i \in Slots /\ d.slots[i] # NoClient /\ d.slots[i] \in Clients
         /\ d.slots[i].id \in 3 .. SlotMax + 2 /\ d.slots[i].id \notin {Desk, Bar}
         /\ d.slots[i].id # NoWin /\ d.slots[i].id \in Nat /\ d.slots[i].geom \in Geoms
         /\ Matched(d) => /\ d.slots[i].id \in DOMAIN d.wins
                          /\ d.wins[d.slots[i].id].geom = d.slots[i].geom
                          /\ d.wins[d.slots[i].id] \in Windows
                          /\ d.wins[d.slots[i].id].queue \in Seq(Events)
<1>1. /\ i \in Slots /\ d.slots[i] # NoClient /\ d.slots[i] \in Clients
  BY DEF Typed, Clientele
<1>2. d.slots[i].id \in 3 .. SlotMax + 2 /\ d.slots[i].geom \in Geoms
  BY <1>1 DEF Clients
<1>3. d.slots[i].id \notin {Desk, Bar} /\ d.slots[i].id # NoWin /\ d.slots[i].id \in Nat
  BY <1>2, BoundAssumption, NoneAssumption DEF Desk, Bar
<1>4. ASSUME Matched(d)
      PROVE  /\ d.slots[i].id \in DOMAIN d.wins
             /\ d.wins[d.slots[i].id].geom = d.slots[i].geom
             /\ d.wins[d.slots[i].id] \in Windows
             /\ d.wins[d.slots[i].id].queue \in Seq(Events)
  <2>1. d.slots[i].id \in DOMAIN d.wins /\ d.wins[d.slots[i].id].geom = d.slots[i].geom
    BY <1>4 DEF Matched
  <2>2. d.wins[d.slots[i].id] \in Windows
    BY <2>1 DEF Typed
  <2>. QED
    BY <2>1, <2>2 DEF Windows
<1>. QED
  BY <1>1, <1>2, <1>3, <1>4

\* The part of Sound that does not mention queues or the focus.
LEMMA SameTable ==
  ASSUME NEW d, NEW n, n.slots = d.slots, n.put = d.put, DOMAIN n.wins = DOMAIN d.wins,
         \A w \in DOMAIN d.wins : n.wins[w].geom = d.wins[w].geom,
         Typed(d), Matched(d), Consistent(d)
  PROVE  Matched(n) /\ Consistent(n) /\ Clientele(n) = Clientele(d) /\ Shown(n) = Shown(d)
<1>1. Clientele(n) = Clientele(d)
  BY DEF Clientele
<1>2. Shown(n) = Shown(d)
  BY ShownSame
<1>3. Matched(n)
  <2>1. \A i \in Clientele(d) : d.slots[i].id \in DOMAIN d.wins
    BY ClientFacts
  <2>. QED
    BY <1>1, <2>1 DEF Matched
<1>4. Consistent(n)
  BY <1>1 DEF Consistent
<1>. QED
  BY <1>1, <1>2, <1>3, <1>4

LEMMA FocusKeeps ==
  ASSUME NEW d, NEW X, NEW held, Sound(d, X, held), NEW w \in DOMAIN d.wins, NEW n, n = Focus(d, w)
  PROVE  /\ Sound(n, X, held) /\ n.slots = d.slots /\ n.focus = w /\ DOMAIN n.wins = DOMAIN d.wins
         /\ n.drawn = d.drawn /\ n.put = d.put
         /\ Fresh(d) => Fresh(n)
         /\ d.focus # w /\ w \notin {Desk, Bar} => Fresh(n)
<1>1. Typed(d) /\ Matched(d) /\ Consistent(d) /\ Attentive(d, X, held)
  BY DEF Sound
<1>2. /\ Typed(n)
      /\ n.slots = d.slots /\ n.focus = w /\ n.drawn = d.drawn
      /\ n.selected = d.selected /\ n.put = d.put /\ DOMAIN n.wins = DOMAIN d.wins
  BY <1>1, FocusEffect
<1>3. ASSUME NEW v \in DOMAIN d.wins
      PROVE  /\ n.wins[v].geom = d.wins[v].geom
             /\ d.focus = w \/ v \in {Desk, Bar} \/ v \notin {w, d.focus}
                  => n.wins[v].queue = d.wins[v].queue
             /\ d.focus # w /\ v \notin {Desk, Bar} /\ v = w
                  => n.wins[v].queue = Append(d.wins[v].queue, Gained)
             /\ d.focus # w /\ v \notin {Desk, Bar} /\ v = d.focus
                  => n.wins[v].queue = Append(d.wins[v].queue, Lost)
  BY <1>1, FocusEffect
<1>4. Matched(n) /\ Consistent(n) /\ Clientele(n) = Clientele(d) /\ Shown(n) = Shown(d)
  BY <1>1, <1>2, <1>3, SameTable
<1>5. Attentive(n, X, held)
  <2>1. ASSUME NEW i \in Clientele(d) \ X, d.slots[i].type # "launcher"
        PROVE  Agrees(d.slots[i], n.wins[d.slots[i].id].queue, w, held)
    <3> DEFINE c == d.slots[i]
               q == d.wins[c.id].queue
    <3>1. Agrees(c, q, d.focus, held)
      BY <1>1, <2>1 DEF Attentive
    <3>2. /\ c.id \in DOMAIN d.wins /\ c.id \notin {Desk, Bar} /\ q \in Seq(Events)
      BY <1>1, <2>1, ClientFacts
    <3>3. CASE d.focus = w \/ c.id \notin {w, d.focus}
      <4>1. n.wins[c.id].queue = q
        BY <1>3, <3>2, <3>3
      <4>. QED
        BY <3>1, <3>3, <4>1, StillAgrees
    <3>4. CASE d.focus # w /\ c.id = w
      <4>1. n.wins[c.id].queue = Append(q, Gained)
        BY <1>3, <3>2, <3>4
      <4>. QED
        BY <3>1, <3>2, <3>4, <4>1, GainAgrees
    <3>5. CASE d.focus # w /\ c.id = d.focus
      <4>1. n.wins[c.id].queue = Append(q, Lost)
        BY <1>3, <3>2, <3>5
      <4>. QED
        BY <3>1, <3>2, <3>5, <4>1, LossAgrees
    <3>. QED
      BY <3>3, <3>4, <3>5
  <2>. QED
    BY <1>2, <1>4, <2>1 DEF Attentive
<1>6. \A v \in DOMAIN d.wins : d.wins[v].queue \in Seq(Events)
  BY <1>1 DEF Typed, Windows
<1>7. ASSUME NEW v \in DOMAIN d.wins, ~Lacks(d.wins[v].queue, FocusKinds)
      PROVE  ~Lacks(n.wins[v].queue, FocusKinds)
  <2>1. Gained \in Events /\ Lost \in Events
    BY KindsOf
  <2>2. /\ ~Lacks(Append(d.wins[v].queue, Gained), FocusKinds)
        /\ ~Lacks(Append(d.wins[v].queue, Lost), FocusKinds)
    BY <1>6, <1>7, <2>1, AppendedEvents
  <2>. QED
    BY <1>3, <1>7, <2>2
<1>8. Coming(d) => Coming(n)
  BY <1>2, <1>7 DEF Coming
<1>9. ASSUME d.focus # w, w \notin {Desk, Bar} PROVE Coming(n)
  <2>1. Gained \in Events /\ Gained.kind \in FocusKinds
    BY KindsOf DEF FocusKinds
  <2>2. ~Lacks(Append(d.wins[w].queue, Gained), FocusKinds)
    BY <1>6, <2>1, AppendedEvents
  <2>. QED
    BY <1>2, <1>3, <1>9, <2>2 DEF Coming
<1>. QED
  BY <1>1, <1>2, <1>4, <1>5, <1>8, <1>9 DEF Sound, Fresh

LEMMA DrawKeeps ==
  ASSUME NEW d, NEW X, NEW held, Sound(d, X, held), NEW n, n = DrawTaskbar(d)
  PROVE  /\ Sound(n, X, held) /\ n.drawn = Shown(n) /\ Fresh(n)
         /\ n.slots = d.slots /\ n.wins = d.wins /\ n.focus = d.focus /\ n.put = d.put
<1>1. Typed(d) /\ Matched(d) /\ Consistent(d) /\ Attentive(d, X, held)
  BY DEF Sound
<1>2. /\ n = [slots |-> d.slots, wins |-> d.wins, focus |-> d.focus, drawn |-> Shown(d),
              selected |-> d.selected, put |-> d.put]
  BY <1>1 DEF Typed, DrawTaskbar
<1>3. /\ n.slots = d.slots /\ n.wins = d.wins /\ n.focus = d.focus
      /\ n.drawn = Shown(d) /\ n.selected = d.selected /\ n.put = d.put
      /\ n = [slots |-> n.slots, wins |-> n.wins, focus |-> n.focus, drawn |-> n.drawn,
              selected |-> n.selected, put |-> n.put]
  BY <1>2
<1>4. Typed(n)
  BY <1>1, <1>3 DEF Typed
<1>5. Matched(n) /\ Consistent(n) /\ Clientele(n) = Clientele(d) /\ Shown(n) = Shown(d)
  BY <1>1, <1>3, SameTable
<1>6. Attentive(n, X, held)
  BY <1>1, <1>3, <1>5 DEF Attentive
<1>. QED
  BY <1>3, <1>4, <1>5, <1>6 DEF Sound, Fresh

LEMMA CloseKeeps ==
  ASSUME NEW d, NEW X, NEW held, Sound(d, X, held), NEW i \in Clientele(d), NEW n, n = CloseClient(d, i)
  PROVE  /\ Sound(n, X, held) /\ n.slots = [d.slots EXCEPT ![i] = NoClient]
         /\ DOMAIN n.wins = DOMAIN d.wins \ {d.slots[i].id}
         /\ \A w \in DOMAIN n.wins : n.wins[w] = d.wins[w]
         /\ n.focus = IF d.focus = d.slots[i].id THEN NoWin ELSE d.focus
<1>1. Typed(d) /\ Matched(d) /\ Consistent(d) /\ Attentive(d, X, held)
  BY DEF Sound
<1> DEFINE c == d.slots[i]
           W == DOMAIN d.wins \ {c.id}
           nw == [v \in W |-> d.wins[v]]
           nf == IF d.focus = c.id THEN NoWin ELSE d.focus
<1>2. d = [slots |-> d.slots, wins |-> d.wins, focus |-> d.focus, drawn |-> d.drawn,
           selected |-> d.selected, put |-> d.put]
  BY <1>1 DEF Typed
<1>3. n = [slots |-> [d.slots EXCEPT ![i] = NoClient], wins |-> nw, focus |-> nf,
           drawn |-> d.drawn, selected |-> d.selected, put |-> [d.put EXCEPT ![i] = Unknown]]
  BY <1>2 DEF CloseClient, Destroy
<1>4. /\ n.slots = [d.slots EXCEPT ![i] = NoClient] /\ n.wins = nw /\ n.focus = nf
      /\ n.drawn = d.drawn /\ n.selected = d.selected /\ n.put = [d.put EXCEPT ![i] = Unknown]
      /\ n = [slots |-> n.slots, wins |-> n.wins, focus |-> n.focus, drawn |-> n.drawn,
              selected |-> n.selected, put |-> n.put]
  BY <1>3
<1>5. c.id # NoWin /\ c.id \notin {Desk, Bar} /\ i \in Slots
  BY <1>1, ClientFacts
<1>6. d.slots \in [Slots -> Clients \cup {NoClient}] /\ d.put \in [Slots -> Geoms \cup {Unknown}]
  BY <1>1 DEF Typed
<1>7. DOMAIN n.wins = W /\ \A w \in W : n.wins[w] = d.wins[w]
  BY <1>4
<1>8. Typed(n)
  <2>1. n.wins \in [DOMAIN n.wins -> Windows]
    BY <1>1, <1>4 DEF Typed
  <2>2. n.focus \in DOMAIN n.wins \cup {NoWin}
    BY <1>1, <1>4, <1>7 DEF Typed
  <2>3. n.slots \in [Slots -> Clients \cup {NoClient}] /\ n.put \in [Slots -> Geoms \cup {Unknown}]
    BY <1>4, <1>5, <1>6
  <2>4. n.selected \in Icons
    BY <1>1, <1>4 DEF Typed
  <2>. QED
    BY <1>4, <2>1, <2>2, <2>3, <2>4 DEF Typed
<1>9. /\ Clientele(n) = Clientele(d) \ {i}
      /\ \A j \in Clientele(n) : n.slots[j] = d.slots[j] /\ n.put[j] = d.put[j]
  BY <1>4, <1>5, <1>6 DEF Clientele
<1>10. \A j \in Clientele(n) : d.slots[j].id \in W
  BY <1>1, <1>9, ClientFacts DEF Matched
<1>11. Matched(n)
  <2>1. DOMAIN n.wins = {Desk, Bar} \cup {n.slots[j].id : j \in Clientele(n)}
    <3>1. DOMAIN d.wins = {Desk, Bar} \cup {d.slots[j].id : j \in Clientele(d)}
      BY <1>1 DEF Matched
    <3>2. {Desk, Bar} \subseteq W
      BY <1>5, <3>1
    <3>3. \A w \in W : w \in {Desk, Bar} \/ \E j \in Clientele(n) : w = n.slots[j].id
      BY <1>9, <3>1
    <3>4. {n.slots[j].id : j \in Clientele(n)} \subseteq W
      BY <1>9, <1>10
    <3>. QED
      BY <1>7, <3>2, <3>3, <3>4
  <2>2. \A j \in Clientele(n) : /\ j \in Clientele(d) /\ n.slots[j] = d.slots[j]
                                /\ n.wins[d.slots[j].id] = d.wins[d.slots[j].id]
    BY <1>7, <1>9, <1>10
  <2>3. \A j, k \in Clientele(n) : j # k => /\ n.slots[j].id # n.slots[k].id
                                           /\ n.slots[j].type # n.slots[k].type
    BY <1>1, <2>2 DEF Matched
  <2>4. \A j \in Clientele(n) : n.slots[j].geom = n.wins[n.slots[j].id].geom
    BY <1>1, <2>2 DEF Matched
  <2>. QED
    BY <2>1, <2>3, <2>4 DEF Matched
<1>12. Consistent(n)
  BY <1>1, <1>9 DEF Consistent
<1>13. Attentive(n, X, held)
  <2>1. ASSUME NEW j \in Clientele(n) \ X, n.slots[j].type # "launcher"
        PROVE  Agrees(n.slots[j], n.wins[n.slots[j].id].queue, n.focus, held)
    <3> DEFINE b == d.slots[j]
    <3>1. Agrees(b, d.wins[b.id].queue, d.focus, held)
      BY <1>1, <1>9, <2>1 DEF Attentive
    <3>2. n.slots[j] = b /\ n.wins[b.id] = d.wins[b.id]
      BY <1>7, <1>9, <1>10, <2>1
    <3>3. b.id # NoWin /\ b.id # c.id
      BY <1>1, <1>9, <1>10, <2>1, ClientFacts
    <3>4. n.focus = b.id <=> d.focus = b.id
      BY <1>4, <3>3
    <3>. QED
      BY <3>1, <3>2, <3>4, StillAgrees
  <2>. QED
    BY <2>1 DEF Attentive
<1>. QED
  BY <1>4, <1>7, <1>8, <1>11, <1>12, <1>13 DEF Sound

\* The slot a type is in.
LEMMA IndexFacts ==
  ASSUME NEW d, NEW type
  PROVE  /\ IndexByType(d, type) = 0 <=>
              \A i \in Slots : d.slots[i] = NoClient \/ d.slots[i].type # type
         /\ IndexByType(d, type) # 0 =>
              /\ IndexByType(d, type) \in Clientele(d)
              /\ d.slots[IndexByType(d, type)].type = type
<1> DEFINE I == {i \in Slots : d.slots[i] # NoClient /\ d.slots[i].type = type}
<1>1. I \in SUBSET Nat /\ 0 \notin I
  BY BoundAssumption DEF Slots
<1>2. IndexByType(d, type) = Least(I)
  BY DEF IndexByType
<1>3. I # {} => Least(I) \in I
  <2>. HIDE DEF I
  <2>. QED
    BY <1>1, LeastNumber DEF Least
<1>4. I = {} => Least(I) = 0
  BY DEF Least
<1>. QED
  BY <1>1, <1>2, <1>3, <1>4 DEF Clientele

\* The client in slot j is in n what it is in d.
Untouched(d, n, j) ==
    /\ n.slots[j] = d.slots[j] /\ d.slots[j].id \in DOMAIN n.wins
    /\ n.wins[d.slots[j].id] = d.wins[d.slots[j].id]
    /\ n.focus = d.slots[j].id <=> d.focus = d.slots[j].id

LEMMA MenuKeeps ==
  ASSUME NEW d, NEW X, NEW held, Sound(d, X, held), NEW n, n = CloseMenu(d)
  PROVE  /\ Sound(n, X, held)
         /\ Fresh(d) => Fresh(n)
         /\ \A j \in Slots : n.slots[j] # NoClient => n.slots[j] = d.slots[j] /\ n.slots[j].type # "launcher"
         /\ \A j \in Clientele(d) : d.slots[j].type # "launcher" => Untouched(d, n, j)
<1> DEFINE k == IndexByType(d, "launcher")
<1>1. Typed(d) /\ Matched(d) /\ Consistent(d) /\ Attentive(d, X, held)
  BY DEF Sound
<1>2. CASE k = 0
  <2>1. n = d
    BY <1>2 DEF CloseMenu
  <2>2. \A j \in Slots : d.slots[j] # NoClient => d.slots[j].type # "launcher"
    BY <1>2, IndexFacts
  <2>3. ASSUME NEW j \in Clientele(d) PROVE Untouched(d, n, j)
    <3>1. d.slots[j].id \in DOMAIN d.wins
      BY <1>1, ClientFacts
    <3>. QED
      BY <2>1, <3>1 DEF Untouched
  <2>. QED
    BY <1>1, <2>1, <2>2, <2>3
<1>3. CASE k # 0
  <2> DEFINE m == CloseClient(d, k)
  <2>1. k \in Clientele(d) /\ d.slots[k].type = "launcher" /\ n = DrawTaskbar(m)
    BY <1>3, IndexFacts DEF CloseMenu
  <2>2. /\ Sound(m, X, held) /\ m.slots = [d.slots EXCEPT ![k] = NoClient]
        /\ DOMAIN m.wins = DOMAIN d.wins \ {d.slots[k].id}
        /\ \A w \in DOMAIN m.wins : m.wins[w] = d.wins[w]
        /\ m.focus = IF d.focus = d.slots[k].id THEN NoWin ELSE d.focus
    BY <2>1, CloseKeeps
  <2>. HIDE DEF m, k
  <2>3. /\ Sound(n, X, held) /\ Fresh(n)
        /\ n.slots = m.slots /\ n.wins = m.wins /\ n.focus = m.focus
    BY <2>1, <2>2, DrawKeeps
  <2>4. d.slots \in [Slots -> Clients \cup {NoClient}] /\ k \in Slots
    BY <1>1, <2>1 DEF Typed, Clientele
  <2>5. ASSUME NEW j \in Slots, n.slots[j] # NoClient
        PROVE  n.slots[j] = d.slots[j] /\ n.slots[j].type # "launcher"
    <3>1. j # k /\ n.slots[j] = d.slots[j]
      BY <2>2, <2>3, <2>4, <2>5
    <3>2. j \in Clientele(d)
      BY <2>5, <3>1 DEF Clientele
    <3>. QED
      BY <1>1, <2>1, <3>1, <3>2 DEF Matched
  <2>6. ASSUME NEW j \in Clientele(d), d.slots[j].type # "launcher"
        PROVE  Untouched(d, n, j)
    <3>1. j # k /\ j \in Clientele(d)
      BY <2>1, <2>6 DEF Clientele
    <3>2. d.slots[j].id # d.slots[k].id
      BY <1>1, <2>1, <3>1 DEF Matched
    <3>3. d.slots[j].id \in DOMAIN d.wins /\ d.slots[j].id # NoWin
      BY <1>1, <3>1, ClientFacts
    <3>4. n.slots[j] = d.slots[j]
      BY <2>2, <2>3, <2>4, <3>1
    <3>. QED
      BY <2>2, <2>3, <3>2, <3>3, <3>4 DEF Untouched
  <2>. QED
    BY <2>3, <2>5, <2>6
<1>. QED
  BY <1>2, <1>3

\* The desktop d with c as the client in slot i, at u as the user's place.
Adjust(d, i, c, u, x) ==
    [slots |-> [d.slots EXCEPT ![i] = c],
     wins |-> [d.wins EXCEPT ![c.id] = [geom |-> c.geom, queue |-> d.wins[c.id].queue]],
     focus |-> d.focus, drawn |-> x, selected |-> d.selected, put |-> [d.put EXCEPT ![i] = u]]

\* The client c can take the place of that in slot i, with u as the user's place.
Fits(d, i, c, u, held) ==
    /\ i \in Clientele(d) /\ c \in Clients /\ c.id = d.slots[i].id /\ c.type = d.slots[i].type
    /\ u \in Geoms \cup {Unknown} /\ ClientOK(c, u)
    /\ c.type = "launcher" \/ Agrees(c, d.wins[c.id].queue, d.focus, held)

LEMMA AdjustKeeps ==
  ASSUME NEW d, NEW X, NEW held, Sound(d, X, held), NEW i, NEW c, NEW u, Fits(d, i, c, u, held),
         NEW x, NEW n, n = Adjust(d, i, c, u, x)
  PROVE  /\ Sound(n, X \ {i}, held)
         /\ Coming(d) => Coming(n)
         /\ Face(c) = Face(d.slots[i]) => Shown(n) = Shown(d)
<1>0. /\ i \in Clientele(d) /\ c \in Clients /\ c.id = d.slots[i].id /\ c.type = d.slots[i].type
      /\ u \in Geoms \cup {Unknown} /\ ClientOK(c, u)
      /\ c.type = "launcher" \/ Agrees(c, d.wins[c.id].queue, d.focus, held)
  BY DEF Fits
<1>1. Typed(d) /\ Matched(d) /\ Consistent(d) /\ Attentive(d, X, held)
  BY DEF Sound
<1>2. /\ n.slots = [d.slots EXCEPT ![i] = c]
      /\ n.wins = [d.wins EXCEPT ![c.id] = [geom |-> c.geom, queue |-> d.wins[c.id].queue]]
      /\ n.focus = d.focus /\ n.drawn = x /\ n.selected = d.selected
      /\ n.put = [d.put EXCEPT ![i] = u]
      /\ n = [slots |-> n.slots, wins |-> n.wins, focus |-> n.focus, drawn |-> n.drawn,
              selected |-> n.selected, put |-> n.put]
  BY DEF Adjust
<1>3. /\ i \in Slots /\ d.slots[i] # NoClient
      /\ c.id \in DOMAIN d.wins /\ d.wins[c.id] \in Windows /\ c.geom \in Geoms
      /\ d.wins[c.id].queue \in Seq(Events) /\ c # NoClient
  BY <1>0, <1>1, ClientFacts, NoneAssumption DEF Clients
<1>4. /\ d.slots \in [Slots -> Clients \cup {NoClient}] /\ d.put \in [Slots -> Geoms \cup {Unknown}]
      /\ d.wins \in [DOMAIN d.wins -> Windows]
  BY <1>0, <1>1 DEF Typed
<1>5. /\ DOMAIN n.wins = DOMAIN d.wins
      /\ n.wins[c.id] = [geom |-> c.geom, queue |-> d.wins[c.id].queue]
      /\ \A w \in DOMAIN d.wins : w # c.id => n.wins[w] = d.wins[w]
  BY <1>0, <1>2, <1>3, <1>4
<1>6. n.slots[i] = c /\ \A j \in Slots : j # i => n.slots[j] = d.slots[j] /\ n.put[j] = d.put[j]
  BY <1>0, <1>2, <1>3, <1>4
<1>7. n.put[i] = u
  BY <1>0, <1>2, <1>3, <1>4
<1>8. \A w \in DOMAIN d.wins : n.wins[w].queue = d.wins[w].queue
  BY <1>0, <1>5
<1>9. Clientele(n) = Clientele(d)
  BY <1>0, <1>3, <1>6 DEF Clientele
<1>10. Typed(n)
  <2>1. n.wins \in [DOMAIN n.wins -> Windows]
    <3> DEFINE y == [geom |-> c.geom, queue |-> d.wins[c.id].queue]
    <3>1. y \in Windows
      BY <1>0, <1>3 DEF Windows
    <3>2. n.wins = [d.wins EXCEPT ![c.id] = y]
      BY <1>0, <1>2
    <3>. HIDE DEF y
    <3>. QED
      BY <1>0, <1>4, <3>1, <3>2
  <2>2. n.slots \in [Slots -> Clients \cup {NoClient}] /\ n.put \in [Slots -> Geoms \cup {Unknown}]
    BY <1>0, <1>2, <1>4
  <2>3. n.focus \in DOMAIN n.wins \cup {NoWin} /\ n.selected \in Icons
    BY <1>0, <1>1, <1>2, <1>5 DEF Typed
  <2>. QED
    BY <1>0, <1>2, <2>1, <2>2, <2>3 DEF Typed
<1>11. \A j \in Clientele(d) : /\ n.slots[j].id = d.slots[j].id /\ n.slots[j].type = d.slots[j].type
                               /\ j \in Slots
  BY <1>0, <1>3, <1>6 DEF Clientele
<1>12. Matched(n)
  <2>1. {n.slots[j].id : j \in Clientele(n)} = {d.slots[j].id : j \in Clientele(d)}
    BY <1>0, <1>9, <1>11
  <2>2. DOMAIN n.wins = {Desk, Bar} \cup {n.slots[j].id : j \in Clientele(n)}
    BY <1>0, <1>1, <1>5, <2>1 DEF Matched
  <2>3. \A j, k \in Clientele(n) : j # k => /\ n.slots[j].id # n.slots[k].id
                                           /\ n.slots[j].type # n.slots[k].type
    BY <1>0, <1>1, <1>9, <1>11 DEF Matched
  <2>4. ASSUME NEW j \in Clientele(n) PROVE n.slots[j].geom = n.wins[n.slots[j].id].geom
    <3>1. CASE j = i
      BY <1>0, <1>5, <1>6, <3>1
    <3>2. CASE j # i
      <4>1. d.slots[j].id # c.id /\ d.slots[j].id \in DOMAIN d.wins
        BY <1>0, <1>1, <1>9, <3>2, ClientFacts DEF Matched
      <4>. QED
        BY <1>0, <1>1, <1>5, <1>6, <1>9, <1>11, <3>2, <4>1 DEF Matched
    <3>. QED
      BY <3>1, <3>2
  <2>. QED
    BY <2>2, <2>3, <2>4 DEF Matched
<1>13. Consistent(n)
  BY <1>0, <1>1, <1>6, <1>7, <1>9, <1>11 DEF Consistent
<1>14. Attentive(n, X \ {i}, held)
  <2>1. ASSUME NEW j \in Clientele(n) \ (X \ {i}), n.slots[j].type # "launcher"
        PROVE  Agrees(n.slots[j], n.wins[n.slots[j].id].queue, n.focus, held)
    <3>1. CASE j = i
      BY <1>0, <1>2, <1>3, <1>6, <1>8, <2>1, <3>1
    <3>2. CASE j # i
      <4>1. j \in Clientele(d) \ X /\ n.slots[j] = d.slots[j]
        BY <1>0, <1>6, <1>9, <1>11, <2>1, <3>2
      <4>2. Agrees(d.slots[j], d.wins[d.slots[j].id].queue, d.focus, held) /\ d.slots[j].id \in DOMAIN d.wins
        BY <1>0, <1>1, <2>1, <4>1, ClientFacts DEF Attentive
      <4>. QED
        BY <1>0, <1>2, <1>8, <4>1, <4>2
    <3>. QED
      BY <3>1, <3>2
  <2>. QED
    BY <2>1 DEF Attentive
<1>15. Coming(d) => Coming(n)
  BY <1>0, <1>5, <1>8 DEF Coming
<1>16. ASSUME Face(c) = Face(d.slots[i]) PROVE Shown(n) = Shown(d)
  <2>1. \A j \in Slots : /\ d.slots[j] = NoClient <=> n.slots[j] = NoClient
                         /\ d.slots[j] # NoClient => /\ d.slots[j].type = n.slots[j].type
                                                     /\ Face(d.slots[j]) = Face(n.slots[j])
    BY <1>0, <1>3, <1>6, <1>16
  <2>. QED
    BY <2>1, ShownSame
<1>. QED
  BY <1>0, <1>2, <1>5, <1>8, <1>10, <1>12, <1>13, <1>14, <1>15, <1>16 DEF Sound

----------------------------------------------------------------------------
(* Moving, resizing and asking where a window is change one client.        *)

LEMMA AdjustTyped ==
  ASSUME NEW d, Typed(d), NEW i \in Slots, NEW c \in Clients, c.id \in DOMAIN d.wins,
         NEW u \in Geoms \cup {Unknown}, NEW x, NEW n, n = Adjust(d, i, c, u, x)
  PROVE  /\ Typed(n) /\ n.slots = [d.slots EXCEPT ![i] = c] /\ n.slots[i] = c
         /\ DOMAIN n.wins = DOMAIN d.wins
         /\ n.wins[c.id].geom = c.geom
         /\ n.put[i] = u /\ n.drawn = x
<1>2. /\ n.slots = [d.slots EXCEPT ![i] = c]
      /\ n.wins = [d.wins EXCEPT ![c.id] = [geom |-> c.geom, queue |-> d.wins[c.id].queue]]
      /\ n.focus = d.focus /\ n.drawn = x /\ n.selected = d.selected
      /\ n.put = [d.put EXCEPT ![i] = u]
      /\ n = [slots |-> n.slots, wins |-> n.wins, focus |-> n.focus, drawn |-> n.drawn,
              selected |-> n.selected, put |-> n.put]
  BY DEF Adjust
<1>3. /\ d.slots \in [Slots -> Clients \cup {NoClient}] /\ d.put \in [Slots -> Geoms \cup {Unknown}]
      /\ d.wins \in [DOMAIN d.wins -> Windows] /\ d.focus \in DOMAIN d.wins \cup {NoWin}
      /\ d.selected \in Icons
  BY DEF Typed
<1> DEFINE y == [geom |-> c.geom, queue |-> d.wins[c.id].queue]
<1>4. y \in Windows
  <2>1. d.wins[c.id].queue \in Seq(Events) /\ c.geom \in Geoms
    BY <1>3 DEF Windows, Clients
  <2>. QED
    BY <2>1 DEF Windows
<1>5. n.wins = [d.wins EXCEPT ![c.id] = y] /\ n.wins[c.id] = y
  BY <1>2, <1>3
<1>6. n.wins \in [DOMAIN n.wins -> Windows] /\ DOMAIN n.wins = DOMAIN d.wins
  <2>. HIDE DEF y
  <2>. QED
    BY <1>3, <1>4, <1>5
<1>7. n.slots \in [Slots -> Clients \cup {NoClient}] /\ n.put \in [Slots -> Geoms \cup {Unknown}]
  BY <1>2, <1>3
<1>8. Typed(n)
  BY <1>2, <1>3, <1>6, <1>7 DEF Typed
<1>. QED
  BY <1>2, <1>3, <1>5, <1>6, <1>8

\* Only the client changes, and not its place.
LEMMA AdjustIs ==
  ASSUME NEW d, Typed(d), Matched(d), NEW i \in Clientele(d), NEW c \in Clients,
         c.id = d.slots[i].id, c.geom = d.slots[i].geom, NEW u
  PROVE  /\ [d EXCEPT !.slots[i] = c, !.put[i] = u] = Adjust(d, i, c, u, d.drawn)
         /\ [d EXCEPT !.slots[i] = c] = Adjust(d, i, c, d.put[i], d.drawn)
<1>0. d = [slots |-> d.slots, wins |-> d.wins, focus |-> d.focus, drawn |-> d.drawn,
           selected |-> d.selected, put |-> d.put]
  BY DEF Typed
<1>1. /\ d.wins \in [DOMAIN d.wins -> Windows] /\ d.put \in [Slots -> Geoms \cup {Unknown}]
  BY DEF Typed
<1>2. /\ d.wins[c.id].geom = c.geom /\ d.wins[c.id] \in Windows /\ c.id \in DOMAIN d.wins /\ i \in Slots
  BY ClientFacts
<1>3. [geom |-> c.geom, queue |-> d.wins[c.id].queue] = d.wins[c.id]
  BY <1>2 DEF Windows
<1>4. [d.wins EXCEPT ![c.id] = d.wins[c.id]] = d.wins
  BY <1>1
<1>5. [d.put EXCEPT ![i] = d.put[i]] = d.put
  BY <1>1
<1>6. ASSUME NEW v
      PROVE  Adjust(d, i, c, v, d.drawn) =
               [slots |-> [d.slots EXCEPT ![i] = c], wins |-> d.wins, focus |-> d.focus,
                drawn |-> d.drawn, selected |-> d.selected, put |-> [d.put EXCEPT ![i] = v]]
  BY <1>3, <1>4 DEF Adjust
<1>7. ASSUME NEW n, n = [d EXCEPT !.slots[i] = c, !.put[i] = u]
      PROVE  n = [slots |-> [d.slots EXCEPT ![i] = c], wins |-> d.wins, focus |-> d.focus,
                  drawn |-> d.drawn, selected |-> d.selected, put |-> [d.put EXCEPT ![i] = u]]
  BY <1>0, <1>7
<1>8. [d EXCEPT !.slots[i] = c] =
        [slots |-> [d.slots EXCEPT ![i] = c], wins |-> d.wins, focus |-> d.focus,
         drawn |-> d.drawn, selected |-> d.selected, put |-> d.put]
  BY <1>0
<1>. QED
  BY <1>5, <1>6, <1>7, <1>8

LEMMA AdjustFields ==
  ASSUME NEW d, Typed(d), Matched(d), NEW i \in Clientele(d), NEW c \in Clients,
         c.id = d.slots[i].id, c.geom = d.slots[i].geom, NEW u, NEW n,
         n = [slots |-> [d.slots EXCEPT ![i] = c], wins |-> d.wins, focus |-> d.focus,
              drawn |-> d.drawn, selected |-> d.selected, put |-> [d.put EXCEPT ![i] = u]]
  PROVE  n = Adjust(d, i, c, u, d.drawn)
<1>1. d.wins \in [DOMAIN d.wins -> Windows]
  BY DEF Typed
<1>2. /\ d.wins[c.id].geom = c.geom /\ d.wins[c.id] \in Windows /\ c.id \in DOMAIN d.wins
  BY ClientFacts
<1>3. [geom |-> c.geom, queue |-> d.wins[c.id].queue] = d.wins[c.id]
  BY <1>2 DEF Windows
<1>4. [d.wins EXCEPT ![c.id] = d.wins[c.id]] = d.wins
  BY <1>1
<1>. QED
  BY <1>3, <1>4 DEF Adjust

\* The window w at h.
Placing(s, w, h) ==
    [slots |-> s.slots, wins |-> [s.wins EXCEPT ![w] = [geom |-> h, queue |-> s.wins[w].queue]],
     focus |-> s.focus, drawn |-> s.drawn, selected |-> s.selected, put |-> s.put]

LEMMA PlacingFacts ==
  ASSUME NEW s, Typed(s), NEW w \in DOMAIN s.wins, NEW h \in Geoms
  PROVE  /\ Typed(Placing(s, w, h)) /\ DOMAIN Placing(s, w, h).wins = DOMAIN s.wins
         /\ Placing(s, w, h).wins[w].geom = h
         /\ \A k : Placing(Placing(s, w, h), w, k) = Placing(s, w, k)
         /\ Placing(s, w, s.wins[w].geom) = s
<1> DEFINE n == Placing(s, w, h)
           y == [geom |-> h, queue |-> s.wins[w].queue]
<1>1. /\ s.wins \in [DOMAIN s.wins -> Windows]
      /\ s = [slots |-> s.slots, wins |-> s.wins, focus |-> s.focus, drawn |-> s.drawn,
              selected |-> s.selected, put |-> s.put]
  BY DEF Typed
<1>2. s.wins[w] \in Windows
  BY <1>1
<1>3. y \in Windows /\ y.geom = h /\ y.queue = s.wins[w].queue
  BY <1>2 DEF Windows
<1>4. /\ n.wins = [s.wins EXCEPT ![w] = y] /\ n.slots = s.slots /\ n.focus = s.focus
      /\ n.drawn = s.drawn /\ n.selected = s.selected /\ n.put = s.put
      /\ n = [slots |-> n.slots, wins |-> n.wins, focus |-> n.focus, drawn |-> n.drawn,
              selected |-> n.selected, put |-> n.put]
  BY DEF Placing
<1>5. Placing(s, w, s.wins[w].geom) = s
  <2>1. [geom |-> s.wins[w].geom, queue |-> s.wins[w].queue] = s.wins[w]
    BY <1>2 DEF Windows
  <2>2. [s.wins EXCEPT ![w] = s.wins[w]] = s.wins
    BY <1>1
  <2>. QED
    BY <1>1, <2>1, <2>2 DEF Placing
<1>. HIDE DEF y
<1>6. n.wins \in [DOMAIN n.wins -> Windows] /\ DOMAIN n.wins = DOMAIN s.wins /\ n.wins[w] = y
  BY <1>1, <1>3, <1>4
<1>7. Typed(n)
  <2>. HIDE DEF n
  <2>. QED
    BY <1>4, <1>6 DEF Typed
<1>8. ASSUME NEW k PROVE Placing(n, w, k) = Placing(s, w, k)
  <2> DEFINE z == [geom |-> k, queue |-> s.wins[w].queue]
  <2>1. Placing(n, w, k) = [slots |-> n.slots, wins |-> [n.wins EXCEPT ![w] = z], focus |-> n.focus,
                            drawn |-> n.drawn, selected |-> n.selected, put |-> n.put]
    BY <1>3, <1>6 DEF Placing
  <2>2. Placing(s, w, k) = [slots |-> s.slots, wins |-> [s.wins EXCEPT ![w] = z], focus |-> s.focus,
                            drawn |-> s.drawn, selected |-> s.selected, put |-> s.put]
    BY DEF Placing
  <2>. HIDE DEF n, z
  <2>3. [n.wins EXCEPT ![w] = z] = [s.wins EXCEPT ![w] = z]
    BY <1>1, <1>4
  <2>. QED
    BY <1>4, <2>1, <2>2, <2>3
<1>. QED
  BY <1>3, <1>5, <1>6, <1>7, <1>8

LEMMA MoveIs ==
  ASSUME NEW s, Typed(s), NEW w \in DOMAIN s.wins, NEW g, NEW h \in Geoms
  PROVE  /\ h.x = g.x /\ h.y = g.y /\ h.w = s.wins[w].geom.w /\ h.h = s.wins[w].geom.h
              => Move(s, w, g) = Placing(s, w, h)
         /\ h.w = g.w /\ h.h = g.h /\ h.x = s.wins[w].geom.x /\ h.y = s.wins[w].geom.y
              => Resize(s, w, g) = Placing(s, w, h)
<1>1. s.wins \in [DOMAIN s.wins -> Windows] /\ s.wins[w].geom \in Geoms
  BY DEF Typed, Windows
<1>2. /\ s.wins[w] = [geom |-> s.wins[w].geom, queue |-> s.wins[w].queue]
      /\ s = [slots |-> s.slots, wins |-> s.wins, focus |-> s.focus, drawn |-> s.drawn,
              selected |-> s.selected, put |-> s.put]
  BY <1>1 DEF Typed, Windows
<1>3. ASSUME h.x = g.x, h.y = g.y, h.w = s.wins[w].geom.w, h.h = s.wins[w].geom.h
      PROVE  Move(s, w, g) = Placing(s, w, h)
  <2>1. h = [s.wins[w].geom EXCEPT !.x = g.x, !.y = g.y]
    BY <1>1, <1>3 DEF Geoms
  <2>. QED
    BY <1>2, <2>1 DEF Move, Placing
<1>4. ASSUME h.w = g.w, h.h = g.h, h.x = s.wins[w].geom.x, h.y = s.wins[w].geom.y
      PROVE  Resize(s, w, g) = Placing(s, w, h)
  <2>1. h = [s.wins[w].geom EXCEPT !.w = g.w, !.h = g.h]
    BY <1>1, <1>4 DEF Geoms
  <2>. QED
    BY <1>2, <2>1 DEF Resize, Placing
<1>. QED
  BY <1>3, <1>4

\* A window that is told to be at g ends there, or in part where it was.
LEMMA Requested ==
  ASSUME NEW s, Typed(s), NEW w \in DOMAIN s.wins, NEW g \in Geoms, NEW ok \in Answers,
         NEW r, r = IF ok.resize THEN Resize(s, w, g) ELSE s,
         NEW m, m = IF ok.move THEN Move(r, w, g) ELSE r
  PROVE  \E h \in Geoms : /\ m = Placing(s, w, h)
                          /\ ok.resize /\ ok.move => h = g
                          /\ g = s.wins[w].geom => h = g
<1> DEFINE old == s.wins[w].geom
           k == [x |-> old.x, y |-> old.y, w |-> g.w, h |-> g.h]
<1>1. old \in Geoms
  BY DEF Typed, Windows
<1>2. k \in Geoms /\ k.x = old.x /\ k.y = old.y /\ k.w = g.w /\ k.h = g.h
  BY <1>1 DEF Geoms
<1>3. g = old => k = old
  <2>1. ASSUME g = old, NEW z, z = k PROVE z = old
    <3>. HIDE DEF old
    <3>. QED
      BY <1>1, <2>1 DEF Geoms
  <2>. QED
    BY <2>1
<1>. HIDE DEF k
<1>4. PICK a \in Geoms : /\ r = Placing(s, w, a)
                         /\ ok.resize => a = k
                         /\ g = old => a = old
  <2>1. Resize(s, w, g) = Placing(s, w, k)
    BY <1>2, MoveIs
  <2>2. Placing(s, w, old) = s
    BY <1>1, PlacingFacts
  <2>3. CASE ok.resize
    BY <1>2, <1>3, <2>1, <2>3
  <2>4. CASE ~ok.resize
    BY <1>1, <2>2, <2>4
  <2>. QED
    BY <2>3, <2>4
<1>5. /\ Typed(r) /\ DOMAIN r.wins = DOMAIN s.wins /\ r.wins[w].geom = a
      /\ \A z : Placing(r, w, z) = Placing(s, w, z)
  BY <1>4, PlacingFacts
<1>6. CASE ok.move
  <2> DEFINE h == [x |-> g.x, y |-> g.y, w |-> a.w, h |-> a.h]
  <2>1. h \in Geoms /\ h.x = g.x /\ h.y = g.y /\ h.w = a.w /\ h.h = a.h
    BY DEF Geoms
  <2>2. g = old => h = g
    <3>1. ASSUME g = old, NEW z, z = h PROVE z = g
      <4>. HIDE DEF old
      <4>. QED
        BY <1>4, <3>1 DEF Geoms
    <3>. QED
      BY <3>1
  <2>3. ok.resize => h = g
    <3>1. ASSUME ok.resize, NEW z, z = h PROVE z = g
      <4>. HIDE DEF old
      <4>. QED
        BY <1>2, <1>4, <3>1 DEF Geoms
    <3>. QED
      BY <3>1
  <2>. HIDE DEF h
  <2>4. w \in DOMAIN r.wins
    BY <1>5
  <2>5. Move(r, w, g) = Placing(r, w, h)
    BY <1>5, <2>1, <2>4, MoveIs
  <2>6. m = Placing(s, w, h)
    BY <1>5, <1>6, <2>5
  <2>. QED
    BY <2>1, <2>2, <2>3, <2>6
<1>7. CASE ~ok.move
  BY <1>4, <1>7
<1>. QED
  BY <1>6, <1>7

\* xde_sync_client_from_wm after such a request, in the desktop whose client c
\* and place u were set before it.
LEMMA SyncIs ==
  ASSUME NEW d, Typed(d), NEW i \in Slots, NEW c \in Clients, c.id \in DOMAIN d.wins,
         NEW u \in Geoms \cup {Unknown}, NEW h \in Geoms,
         NEW s, s = Adjust(d, i, c, u, d.drawn), NEW m, m = Placing(s, c.id, h),
         NEW n, n = SyncFromWm(m, i)
  PROVE  n = Adjust(d, i, [c EXCEPT !.geom = h], u, d.drawn)
<1> DEFINE b == [c EXCEPT !.geom = h]
           f == [geom |-> c.geom, queue |-> d.wins[c.id].queue]
           g == [geom |-> h, queue |-> d.wins[c.id].queue]
<1>1. /\ d.slots \in [Slots -> Clients \cup {NoClient}] /\ d.put \in [Slots -> Geoms \cup {Unknown}]
      /\ d.wins \in [DOMAIN d.wins -> Windows]
  BY DEF Typed
<1>2. b.id = c.id /\ b.geom = h
  BY DEF Clients
<1>3. /\ s.slots = [d.slots EXCEPT ![i] = c] /\ s.wins = [d.wins EXCEPT ![c.id] = f]
      /\ s.focus = d.focus /\ s.drawn = d.drawn /\ s.selected = d.selected
      /\ s.put = [d.put EXCEPT ![i] = u]
  BY DEF Adjust
<1>4. s.wins[c.id].queue = d.wins[c.id].queue
  BY <1>1, <1>3
<1>5. m = [slots |-> s.slots, wins |-> [s.wins EXCEPT ![c.id] = g], focus |-> s.focus,
           drawn |-> s.drawn, selected |-> s.selected, put |-> s.put]
  BY <1>4 DEF Placing
<1>. HIDE DEF f
<1>6. [s.wins EXCEPT ![c.id] = g] = [d.wins EXCEPT ![c.id] = g]
  <2>. HIDE DEF g
  <2>. QED
    BY <1>1, <1>3
<1>7. m = [slots |-> [d.slots EXCEPT ![i] = c], wins |-> [d.wins EXCEPT ![c.id] = g],
           focus |-> d.focus, drawn |-> d.drawn, selected |-> d.selected,
           put |-> [d.put EXCEPT ![i] = u]]
  BY <1>3, <1>5, <1>6
<1>8. m.slots = [d.slots EXCEPT ![i] = c] /\ m.wins = [d.wins EXCEPT ![c.id] = g]
  BY <1>7
<1>9. m.slots[i] = c /\ m.wins[c.id].geom = h
  <2>1. m.wins[c.id] = g
    <3>. HIDE DEF g
    <3>. QED
      BY <1>1, <1>8
  <2>. QED
    BY <1>1, <1>8, <2>1
<1>10. n = [m EXCEPT !.slots[i].geom = h]
  BY <1>9 DEF SyncFromWm
<1>11. [m.slots EXCEPT ![i].geom = h] = [d.slots EXCEPT ![i] = b]
  <2>1. [m.slots EXCEPT ![i].geom = h] = [m.slots EXCEPT ![i] = b]
    BY <1>9
  <2>. HIDE DEF b
  <2>. QED
    BY <1>1, <1>8, <2>1
<1>12. n = [slots |-> [d.slots EXCEPT ![i] = b], wins |-> [d.wins EXCEPT ![c.id] = g],
            focus |-> d.focus, drawn |-> d.drawn, selected |-> d.selected,
            put |-> [d.put EXCEPT ![i] = u]]
  <2>1. m = [slots |-> m.slots, wins |-> m.wins, focus |-> d.focus, drawn |-> d.drawn,
             selected |-> d.selected, put |-> [d.put EXCEPT ![i] = u]]
    BY <1>7
  <2>2. n = [slots |-> [m.slots EXCEPT ![i].geom = h], wins |-> m.wins, focus |-> d.focus,
             drawn |-> d.drawn, selected |-> d.selected, put |-> [d.put EXCEPT ![i] = u]]
    BY <1>10, <2>1
  <2>. HIDE DEF b, g
  <2>. QED
    BY <1>8, <1>11, <2>2
<1>. QED
  BY <1>2, <1>12 DEF Adjust

\* Wherever the window manager leaves the client c when it is asked for g, it is sound.
Settles(c, u, g, ok) ==
    \A h \in Geoms : (/\ ok.resize /\ ok.move => h = g
                      /\ g = c.geom => h = g) => ClientOK([c EXCEPT !.geom = h], u)

LEMMA SettledKeeps ==
  ASSUME NEW d, NEW X, NEW held, Sound(d, X, held), NEW i \in Clientele(d), NEW c \in Clients,
         c.id = d.slots[i].id, c.type = d.slots[i].type, c.geom = d.slots[i].geom,
         NEW u \in Geoms \cup {Unknown},
         c.type = "launcher" \/ Agrees(c, d.wins[c.id].queue, d.focus, held),
         NEW g \in Geoms, NEW ok \in Answers, Settles(c, u, g, ok),
         NEW s, s = Adjust(d, i, c, u, d.drawn),
         NEW r, r = IF ok.resize THEN Resize(s, c.id, g) ELSE s,
         NEW m, m = IF ok.move THEN Move(r, c.id, g) ELSE r,
         NEW n, n = SyncFromWm(m, i)
  PROVE  /\ Sound(n, X \ {i}, held) /\ DOMAIN n.wins = DOMAIN d.wins /\ n.focus = d.focus
         /\ \E h \in Geoms : /\ n.slots = [d.slots EXCEPT ![i] = [c EXCEPT !.geom = h]]
                             /\ n = Adjust(d, i, [c EXCEPT !.geom = h], u, d.drawn)
                             /\ ok.resize /\ ok.move => h = g
                             /\ g = c.geom => h = g
         /\ Coming(d) => Coming(n)
<1>1. Typed(d) /\ Matched(d)
  BY DEF Sound
<1>2. i \in Slots /\ c.id \in DOMAIN d.wins /\ d.wins[c.id].geom = c.geom
  BY <1>1, ClientFacts
<1>3. Typed(s) /\ DOMAIN s.wins = DOMAIN d.wins /\ s.wins[c.id].geom = c.geom
  <2>1. \A x : Typed(Adjust(d, i, c, u, x))
    BY <1>1, <1>2, AdjustTyped
  <2>2. d.wins \in [DOMAIN d.wins -> Windows]
    BY <1>1 DEF Typed
  <2>3. s.wins = [d.wins EXCEPT ![c.id] = [geom |-> c.geom, queue |-> d.wins[c.id].queue]]
    BY DEF Adjust
  <2>. QED
    BY <1>2, <2>1, <2>2, <2>3
<1>4. c.id \in DOMAIN s.wins /\ s.wins[c.id].geom = c.geom
  BY <1>2, <1>3
<1>5. PICK h \in Geoms : /\ m = Placing(s, c.id, h)
                         /\ ok.resize /\ ok.move => h = g
                         /\ g = s.wins[c.id].geom => h = g
  BY <1>3, <1>4, Requested
<1> DEFINE b == [c EXCEPT !.geom = h]
<1>6. n = Adjust(d, i, b, u, d.drawn)
  BY <1>1, <1>2, <1>5, SyncIs
<1>7. /\ b \in Clients /\ b.id = c.id /\ b.type = c.type /\ b.focused = c.focused
      /\ b.dragging = c.dragging
  BY DEF Clients
<1>8. ClientOK(b, u)
  BY <1>4, <1>5 DEF Settles
<1>. HIDE DEF b
<1>9. b.type = "launcher" \/ Agrees(b, d.wins[b.id].queue, d.focus, held)
  BY <1>7, StillAgrees
<1>10. Sound(n, X \ {i}, held) /\ (Coming(d) => Coming(n))
  <2>1. Fits(d, i, b, u, held)
    BY <1>7, <1>8, <1>9 DEF Fits
  <2>. QED
    BY <1>6, <2>1, AdjustKeeps
<1>11. \A x : LET k == Adjust(d, i, b, u, x)
             IN  k.slots = [d.slots EXCEPT ![i] = b] /\ k.focus = d.focus /\ DOMAIN k.wins = DOMAIN d.wins
  BY DEF Adjust
<1>12. n.slots = [d.slots EXCEPT ![i] = b] /\ n.focus = d.focus /\ DOMAIN n.wins = DOMAIN d.wins
  BY <1>6, <1>11
<1>13. /\ n.slots = [d.slots EXCEPT ![i] = [c EXCEPT !.geom = h]]
       /\ n = Adjust(d, i, [c EXCEPT !.geom = h], u, d.drawn)
  BY <1>6, <1>12 DEF b
<1>14. (ok.resize /\ ok.move => h = g) /\ (g = c.geom => h = g)
  BY <1>4, <1>5
<1>. QED
  BY <1>10, <1>12, <1>13, <1>14

----------------------------------------------------------------------------
(* What a client can be told to do. *)

\* The client in slot i agrees with the focus, unless it is the start menu.
Attends(d, i, held) ==
    d.slots[i].type = "launcher" \/ Agrees(d.slots[i], d.wins[d.slots[i].id].queue, d.focus, held)

LEMMA AttendsAll ==
  ASSUME NEW d, NEW X, NEW held, NEW i, Sound(d, X, held)
  PROVE  /\ i \in Clientele(d) \ X => Attends(d, i, held)
         /\ (i \in Clientele(d) => Attends(d, i, held)) => Sound(d, X \ {i}, held)
BY DEF Sound, Attentive, Attends

\* Only fields of the client in slot i are set.
LEMMA SetKeeps ==
  ASSUME NEW d, NEW X, NEW held, Sound(d, X, held), NEW i \in Clientele(d), NEW c \in Clients,
         c.id = d.slots[i].id, c.type = d.slots[i].type, c.geom = d.slots[i].geom,
         ClientOK(c, d.put[i]), c.type = "launcher" \/ Agrees(c, d.wins[c.id].queue, d.focus, held),
         NEW n
  PROVE  n = [d EXCEPT !.slots[i] = c] =>
         /\ Sound(n, X \ {i}, held) /\ n.slots = [d.slots EXCEPT ![i] = c] /\ n.put = d.put
         /\ n.wins = d.wins /\ n.focus = d.focus
<1>1. Typed(d) /\ Matched(d) /\ d.put[i] \in Geoms \cup {Unknown}
  BY ClientFacts DEF Sound, Typed
<1>2. ASSUME n = Adjust(d, i, c, d.put[i], d.drawn) PROVE Sound(n, X \ {i}, held)
  <2>1. Fits(d, i, c, d.put[i], held)
    BY <1>1 DEF Fits
  <2>. QED
    BY <1>2, <2>1, AdjustKeeps
<1>3. [d EXCEPT !.slots[i] = c] = Adjust(d, i, c, d.put[i], d.drawn)
  BY <1>1, AdjustIs
<1>4. HAVE n = [d EXCEPT !.slots[i] = c]
<1>5. /\ n.slots = [d.slots EXCEPT ![i] = c] /\ n.wins = d.wins /\ n.focus = d.focus /\ n.put = d.put
  BY <1>1, <1>4 DEF Typed
<1>. QED
  BY <1>2, <1>3, <1>4, <1>5

\* What the taskbar shows of the client stays.
LEMMA SetFresh ==
  ASSUME NEW d, Typed(d), Fresh(d), NEW i \in Clientele(d), NEW c \in Clients,
         c.type = d.slots[i].type, c.focused = d.slots[i].focused, c.min = d.slots[i].min, NEW n
  PROVE  n = [d EXCEPT !.slots[i] = c] => Fresh(n)
<1>1. HAVE n = [d EXCEPT !.slots[i] = c]
<1>2. n.slots = [d.slots EXCEPT ![i] = c] /\ n.wins = d.wins /\ n.drawn = d.drawn
  BY <1>1 DEF Typed
<1>3. Shown(n) = Shown(d)
  <2>1. /\ d.slots[i] # NoClient /\ c # NoClient /\ i \in Slots
        /\ d.slots \in [Slots -> Clients \cup {NoClient}]
    BY ClientFacts, NoneAssumption DEF Typed
  <2>2. n.slots[i] = c /\ \A j \in Slots : j # i => n.slots[j] = d.slots[j]
    BY <1>2, <2>1
  <2>3. Face(c) = Face(d.slots[i])
    BY DEF Face
  <2>. QED
    BY <2>1, <2>2, <2>3, ShownSame
<1>4. Coming(d) => Coming(n)
  BY <1>2 DEF Coming
<1>. QED
  BY <1>2, <1>3, <1>4 DEF Fresh

LEMMA ShowKeeps ==
  ASSUME NEW d, NEW held, Sound(d, {}, held), NEW i \in Clientele(d), NEW ok \in Answers,
         NEW n, n = ShowClient(d, i, ok)
  PROVE  Sound(n, {}, held)
<1> DEFINE c == d.slots[i]
           b == [c EXCEPT !.min = FALSE]
           s == [d EXCEPT !.slots[i].min = FALSE]
           r == IF ok.resize THEN Resize(s, c.id, c.geom) ELSE s
           m == IF ok.move THEN Move(r, c.id, c.geom) ELSE r
           t == IF c.min THEN SyncFromWm(m, i) ELSE d
<1>1. Typed(d) /\ Matched(d) /\ Consistent(d)
  BY DEF Sound
<1>2. /\ c \in Clients /\ i \in Slots /\ c.geom \in Geoms /\ c.id \in DOMAIN d.wins
      /\ d.put[i] \in Geoms \cup {Unknown} /\ ClientOK(c, d.put[i])
  BY <1>1, ClientFacts DEF Typed, Consistent
<1>3. n = Focus(t, c.id)
  BY DEF ShowClient
<1>4. /\ b \in Clients /\ b.id = c.id /\ b.type = c.type /\ b.geom = c.geom /\ b.focused = c.focused
      /\ b.dragging = c.dragging /\ b.max = c.max /\ b.restore = c.restore /\ b.grip = c.grip
  BY <1>2 DEF Clients
<1>5. c.type = "launcher" \/ Agrees(c, d.wins[c.id].queue, d.focus, held)
  BY AttendsAll DEF Attends
<1>6. s = Adjust(d, i, b, d.put[i], d.drawn)
  <2>1. s = [d EXCEPT !.slots[i] = b]
    OBVIOUS
  <2>. HIDE DEF s, b
  <2>. QED
    BY <1>1, <1>4, <2>1, AdjustIs
<1>. HIDE DEF b, s
<1>7. b.type = "launcher" \/ Agrees(b, d.wins[b.id].queue, d.focus, held)
  BY <1>4, <1>5, StillAgrees
<1>8. Settles(b, d.put[i], c.geom, ok)
  <2>1. ASSUME NEW h \in Geoms, ok.resize /\ ok.move => h = c.geom, c.geom = b.geom => h = c.geom
        PROVE  ClientOK([b EXCEPT !.geom = h], d.put[i])
    <3>1. /\ [b EXCEPT !.geom = h].max = c.max /\ [b EXCEPT !.geom = h].restore = c.restore
          /\ [b EXCEPT !.geom = h].dragging = c.dragging /\ [b EXCEPT !.geom = h].type = c.type
          /\ [b EXCEPT !.geom = h].grip = c.grip /\ [b EXCEPT !.geom = h].geom = c.geom
      BY <1>4, <2>1 DEF Clients
    <3>. QED
      BY <1>2, <3>1 DEF ClientOK
  <2>. QED
    BY <2>1 DEF Settles
<1>9. CASE c.min
  <2>1. /\ r = IF ok.resize THEN Resize(s, b.id, c.geom) ELSE s
        /\ m = IF ok.move THEN Move(r, b.id, c.geom) ELSE r
        /\ t = SyncFromWm(m, i)
    BY <1>4, <1>9
  <2>. HIDE DEF r, m, t
  <2>2. Sound(t, {} \ {i}, held) /\ DOMAIN t.wins = DOMAIN d.wins
    BY <1>2, <1>4, <1>6, <1>7, <1>8, <2>1, SettledKeeps
  <2>3. {} \ {i} = {}
    OBVIOUS
  <2>. QED
    BY <1>2, <1>3, <2>2, <2>3, FocusKeeps
<1>10. CASE ~c.min
  <2>1. t = d
    BY <1>10
  <2>. HIDE DEF t
  <2>. QED
    BY <1>2, <1>3, <2>1, FocusKeeps
<1>. QED
  BY <1>9, <1>10

LEMMA FixedPlaces == Corner \in Geoms /\ Full \in Geoms
BY ScreenAssumption DEF Corner, Full, Rect, Geoms, TASKBAR_H

LEMMA MinimizeKeeps ==
  ASSUME NEW d, NEW X, NEW held, Sound(d, X, held), NEW i \in Clientele(d), Attends(d, i, held),
         NEW ok \in Answers, NEW n, n = Minimize(d, i, ok)
  PROVE  Sound(n, X \ {i}, held) /\ Fresh(n)
<1> DEFINE c == d.slots[i]
           b == [c EXCEPT !.min = TRUE, !.dragging = FALSE, !.grip = Unknown]
           s == [d EXCEPT !.slots[i] = [@ EXCEPT !.min = TRUE, !.dragging = FALSE, !.grip = Unknown],
                          !.put[i] = Unknown]
           r == IF ok.resize THEN Resize(s, c.id, Corner) ELSE s
           m == IF ok.move THEN Move(r, c.id, Corner) ELSE r
           t == SyncFromWm(m, i)
<1>1. Typed(d) /\ Matched(d) /\ Consistent(d)
  BY DEF Sound
<1>2. /\ c \in Clients /\ i \in Slots /\ ClientOK(c, d.put[i])
  BY <1>1, ClientFacts DEF Typed, Consistent
<1>3. n = DrawTaskbar(t)
  BY DEF Minimize
<1>4. /\ b \in Clients /\ b.id = c.id /\ b.type = c.type /\ b.geom = c.geom /\ b.focused = c.focused
      /\ b.dragging = FALSE /\ b.max = c.max /\ b.restore = c.restore
  BY <1>2 DEF Clients
<1>5. s = Adjust(d, i, b, Unknown, d.drawn)
  <2>1. d.slots \in [Slots -> Clients \cup {NoClient}] /\ d.put \in [Slots -> Geoms \cup {Unknown}]
        /\ d = [slots |-> d.slots, wins |-> d.wins, focus |-> d.focus, drawn |-> d.drawn,
                selected |-> d.selected, put |-> d.put]
    BY <1>1 DEF Typed
  <2>2. ASSUME NEW z, z = [d EXCEPT !.slots[i] = b, !.put[i] = Unknown]
        PROVE  z = [slots |-> [d.slots EXCEPT ![i] = b], wins |-> d.wins, focus |-> d.focus,
                    drawn |-> d.drawn, selected |-> d.selected, put |-> [d.put EXCEPT ![i] = Unknown]]
    <3>. HIDE DEF b
    <3>. QED
      BY <2>1, <2>2
  <2>3. s = [d EXCEPT !.slots[i] = b, !.put[i] = Unknown]
    OBVIOUS
  <2>. HIDE DEF s, b
  <2>. QED
    BY <1>1, <1>4, <2>2, <2>3, AdjustFields
<1>. HIDE DEF b, s
<1>6. b.type = "launcher" \/ Agrees(b, d.wins[b.id].queue, d.focus, held)
  BY <1>4, StillAgrees DEF Attends
<1>7. Settles(b, Unknown, Corner, ok)
  <2>1. ASSUME NEW h \in Geoms PROVE ClientOK([b EXCEPT !.geom = h], Unknown)
    <3>1. /\ [b EXCEPT !.geom = h].max = c.max /\ [b EXCEPT !.geom = h].restore = c.restore
          /\ [b EXCEPT !.geom = h].dragging = FALSE
      BY <1>4 DEF Clients
    <3>. QED
      BY <1>2, <3>1 DEF ClientOK
  <2>. QED
    BY <2>1 DEF Settles
<1>8. /\ r = IF ok.resize THEN Resize(s, b.id, Corner) ELSE s
      /\ m = IF ok.move THEN Move(r, b.id, Corner) ELSE r
      /\ t = SyncFromWm(m, i)
  BY <1>4
<1>. HIDE DEF r, m, t
<1>9. Sound(t, X \ {i}, held)
  BY <1>2, <1>4, <1>5, <1>6, <1>7, <1>8, FixedPlaces, SettledKeeps
<1>. QED
  BY <1>3, <1>9, DrawKeeps

LEMMA MaximizeKeeps ==
  ASSUME NEW d, NEW X, NEW held, Sound(d, X, held), NEW i \in Clientele(d), Attends(d, i, held),
         ~d.slots[i].dragging, NEW ok \in Answers, NEW n, n = Maximize(d, i, ok)
  PROVE  Sound(n, X \ {i}, held) /\ Fresh(n)
<1> DEFINE c == d.slots[i]
           b == [c EXCEPT !.max = ~c.max, !.restore = IF c.max THEN Unknown ELSE c.geom]
           u == IF c.max /\ ~(ok.resize /\ ok.move) THEN Unknown ELSE d.put[i]
           g == IF c.max THEN c.restore ELSE Full
           s == [d EXCEPT !.slots[i] = [@ EXCEPT !.max = ~c.max,
                                                 !.restore = IF c.max THEN Unknown ELSE c.geom],
                          !.put[i] = IF c.max /\ ~(ok.resize /\ ok.move) THEN Unknown ELSE @]
           r == Resize(s, c.id, g)
           m == IF ok.move THEN Move(r, c.id, g) ELSE r
<1>1. Typed(d) /\ Matched(d) /\ Consistent(d)
  BY DEF Sound
<1>2. /\ c \in Clients /\ i \in Slots /\ ClientOK(c, d.put[i]) /\ c.geom \in Geoms
      /\ d.put[i] \in Geoms \cup {Unknown}
  BY <1>1, ClientFacts DEF Typed, Consistent
<1>3. n = DrawTaskbar(IF ok.resize THEN SyncFromWm(m, i) ELSE s)
  BY DEF Maximize
<1>4. c.restore \in Geoms \cup {Unknown} /\ c.max \in BOOLEAN /\ c.geom # Unknown
  BY <1>2, NoneAssumption DEF Clients
<1>5. /\ b \in Clients /\ b.id = c.id /\ b.type = c.type /\ b.geom = c.geom /\ b.focused = c.focused
      /\ b.dragging = FALSE /\ b.max = ~c.max /\ b.restore = IF c.max THEN Unknown ELSE c.geom
  <2>1. (IF c.max THEN Unknown ELSE c.geom) \in Geoms \cup {Unknown}
    BY <1>2
  <2>2. c.dragging = FALSE
    BY <1>2 DEF Clients
  <2>. QED
    BY <1>2, <1>4, <2>1, <2>2 DEF Clients
<1>6. u \in Geoms \cup {Unknown} /\ g \in Geoms
  BY <1>2, <1>4, FixedPlaces DEF ClientOK
<1>7. s = Adjust(d, i, b, u, d.drawn)
  <2>1. d.slots \in [Slots -> Clients \cup {NoClient}] /\ d.put \in [Slots -> Geoms \cup {Unknown}]
        /\ d = [slots |-> d.slots, wins |-> d.wins, focus |-> d.focus, drawn |-> d.drawn,
                selected |-> d.selected, put |-> d.put]
    BY <1>1 DEF Typed
  <2>2. ASSUME NEW z, z = [d EXCEPT !.slots[i] = b, !.put[i] = u]
        PROVE  z = [slots |-> [d.slots EXCEPT ![i] = b], wins |-> d.wins, focus |-> d.focus,
                    drawn |-> d.drawn, selected |-> d.selected, put |-> [d.put EXCEPT ![i] = u]]
    <3>. HIDE DEF b, u
    <3>. QED
      BY <2>1, <2>2
  <2>3. s = [d EXCEPT !.slots[i] = b, !.put[i] = u]
    OBVIOUS
  <2>. HIDE DEF s, b, u
  <2>. QED
    BY <1>1, <1>5, <2>2, <2>3, AdjustFields
<1>8. c.type = "launcher" \/ Agrees(c, d.wins[c.id].queue, d.focus, held)
  BY DEF Attends
<1>. HIDE DEF b, s
<1>9. b.type = "launcher" \/ Agrees(b, d.wins[b.id].queue, d.focus, held)
  BY <1>5, <1>8, StillAgrees
<1>10. CASE ok.resize
  <2> DEFINE t == SyncFromWm(m, i)
  <2>1. Settles(b, u, g, ok)
    <3>1. ASSUME NEW h \in Geoms, ok.resize /\ ok.move => h = g
          PROVE  ClientOK([b EXCEPT !.geom = h], u)
      <4> DEFINE k == [b EXCEPT !.geom = h]
      <4>1. k.max = ~c.max /\ k.restore = (IF c.max THEN Unknown ELSE c.geom) /\ k.dragging = FALSE /\ k.geom = h
        BY <1>5 DEF Clients
      <4>. HIDE DEF k
      <4>2. k.max <=> k.restore # Unknown
        BY <1>4, <4>1
      <4>3. u # Unknown => u = IF k.max THEN k.restore ELSE k.geom
        BY <1>2, <1>4, <3>1, <4>1 DEF ClientOK
      <4>. QED
        BY <4>1, <4>2, <4>3 DEF ClientOK, k
    <3>. QED
      BY <3>1 DEF Settles
  <2>2. /\ r = IF ok.resize THEN Resize(s, b.id, g) ELSE s
        /\ m = IF ok.move THEN Move(r, b.id, g) ELSE r
        /\ t = SyncFromWm(m, i)
    BY <1>5, <1>10
  <2>. HIDE DEF r, m, t, u, g
  <2>3. Sound(t, X \ {i}, held)
    BY <1>2, <1>5, <1>6, <1>7, <1>9, <2>1, <2>2, SettledKeeps
  <2>. QED
    BY <1>3, <1>10, <2>3, DrawKeeps DEF t
<1>11. CASE ~ok.resize
  <2>1. ClientOK(b, u)
    <3>1. b.max <=> b.restore # Unknown
      BY <1>4, <1>5
    <3>2. u # Unknown => u = IF b.max THEN b.restore ELSE b.geom
      BY <1>2, <1>4, <1>5, <1>11 DEF ClientOK
    <3>. QED
      BY <1>5, <3>1, <3>2 DEF ClientOK
  <2>. HIDE DEF u
  <2>2. Fits(d, i, b, u, held)
    BY <1>5, <1>6, <1>9, <2>1 DEF Fits
  <2>3. Sound(s, X \ {i}, held)
    BY <1>7, <2>2, AdjustKeeps
  <2>. QED
    BY <1>3, <1>11, <2>3, DrawKeeps
<1>. QED
  BY <1>10, <1>11

----------------------------------------------------------------------------
(* The handlers. *)

\* The event e was taken from the queue of the client in slot i.
Facing(d, i, e, held) ==
    /\ i \in Clientele(d) /\ e \in Events
    /\ \/ d.slots[i].type = "launcher"
       \/ \E q \in Seq(Events) : /\ q # <<>> /\ Head(q) = e /\ Tail(q) = d.wins[d.slots[i].id].queue
                                 /\ Agrees(d.slots[i], q, d.focus, held)

\* The client b is what the event e may make of the client c.
Follows(c, e, b) ==
    /\ b.id = c.id
    /\ \/ e.kind = "gained" /\ b.focused = TRUE /\ b.dragging = c.dragging
       \/ e.kind = "lost" /\ b.focused = FALSE /\ b.dragging = FALSE
       \/ e.kind = "release" /\ b.focused = c.focused /\ b.dragging = FALSE
       \/ e.kind = "press" /\ b.focused = c.focused
       \/ /\ e.kind \notin {"gained", "lost", "press", "release"}
          /\ b.focused = c.focused
          /\ b.dragging => c.dragging

LEMMA FacingAgrees ==
  ASSUME NEW d, NEW i, NEW e, NEW held, Facing(d, i, e, held), NEW b, Follows(d.slots[i], e, b)
  PROVE  \/ d.slots[i].type = "launcher"
         \/ /\ Agrees(b, d.wins[b.id].queue, d.focus, held)
            /\ e.kind = "press" => ~d.slots[i].dragging
<1>1. SUFFICES ASSUME d.slots[i].type # "launcher"
               PROVE  /\ Agrees(b, d.wins[b.id].queue, d.focus, held)
                      /\ e.kind = "press" => ~d.slots[i].dragging
  OBVIOUS
<1>2. PICK q \in Seq(Events) : /\ q # <<>> /\ Head(q) = e /\ Tail(q) = d.wins[d.slots[i].id].queue
                               /\ Agrees(d.slots[i], q, d.focus, held)
  BY <1>1 DEF Facing
<1>. QED
  BY <1>2, HandledAgrees DEF Follows

LEMMA FacingFacts ==
  ASSUME NEW d, NEW X, NEW held, Sound(d, X, held), NEW i, NEW e, Facing(d, i, e, held)
  PROVE  /\ Typed(d) /\ Matched(d) /\ i \in Clientele(d) /\ i \in Slots /\ e \in Events
         /\ d.slots[i] \in Clients /\ ClientOK(d.slots[i], d.put[i]) /\ d.slots[i].geom \in Geoms
         /\ d.put[i] \in Geoms \cup {Unknown}
         /\ d.slots[i].type = "launcher" => ~d.slots[i].dragging
<1>1. /\ Typed(d) /\ Matched(d) /\ i \in Clientele(d) /\ i \in Slots /\ e \in Events
      /\ d.slots[i] \in Clients /\ ClientOK(d.slots[i], d.put[i]) /\ d.slots[i].geom \in Geoms
  BY ClientFacts DEF Sound, Facing, Consistent
<1>2. d.put[i] \in Geoms \cup {Unknown}
  BY <1>1 DEF Typed
<1>. QED
  BY <1>1, <1>2 DEF ClientOK

\* An event that sets fields of the client only.
LEMMA SetFacing ==
  ASSUME NEW d, NEW held, NEW i, NEW e, Sound(d, {i}, held), Facing(d, i, e, held),
         NEW b \in Clients, b.type = d.slots[i].type, b.geom = d.slots[i].geom,
         Follows(d.slots[i], e, b), ClientOK(b, d.put[i]), NEW t
  PROVE  t = [d EXCEPT !.slots[i] = b] =>
         /\ Sound(t, {}, held) /\ t.slots = [d.slots EXCEPT ![i] = b] /\ t.put = d.put
         /\ t.wins = d.wins /\ t.focus = d.focus
<1>1. i \in Clientele(d) /\ b.id = d.slots[i].id
  BY FacingFacts DEF Follows
<1>2. b.type = "launcher" \/ Agrees(b, d.wins[b.id].queue, d.focus, held)
  BY FacingAgrees
<1>3. {i} \ {i} = {}
  OBVIOUS
<1>4. HAVE t = [d EXCEPT !.slots[i] = b]
<1>5. Sound(t, {i} \ {i}, held)
  BY <1>1, <1>2, <1>4, SetKeeps
<1>6. t.slots = [d.slots EXCEPT ![i] = b] /\ t.put = d.put /\ t.wins = d.wins /\ t.focus = d.focus
  BY <1>1, <1>2, <1>4, SetKeeps
<1>. QED
  BY <1>3, <1>5, <1>6

\* An event that does not change its client.
LEMMA IdleFacing ==
  ASSUME NEW d, NEW held, NEW i, NEW e, Sound(d, {i}, held), Facing(d, i, e, held),
         Follows(d.slots[i], e, d.slots[i])
  PROVE  Sound(d, {}, held)
<1>1. Attends(d, i, held)
  BY FacingAgrees DEF Attends
<1>2. {i} \ {i} = {}
  OBVIOUS
<1>. QED
  BY <1>1, <1>2, AttendsAll

LEMMA GainKeeps ==
  ASSUME NEW d, NEW held, NEW i, NEW e, Sound(d, {i}, held), Facing(d, i, e, held), e.kind = "gained",
         NEW n, n = OnFocus(d, i, TRUE)
  PROVE  Sound(n, {}, held) /\ Fresh(n)
<1> DEFINE c == d.slots[i]
           b == [c EXCEPT !.focused = TRUE]
           t == [d EXCEPT !.slots[i] = [@ EXCEPT !.focused = TRUE]]
<1>1. c \in Clients /\ ClientOK(c, d.put[i])
  BY FacingFacts
<1>2. /\ b \in Clients /\ b.id = c.id /\ b.type = c.type /\ b.geom = c.geom /\ b.max = c.max
      /\ b.restore = c.restore /\ b.dragging = c.dragging /\ b.grip = c.grip /\ b.focused = TRUE
  BY <1>1 DEF Clients
<1>3. t = [d EXCEPT !.slots[i] = b] /\ n = DrawTaskbar(t)
  BY DEF OnFocus
<1>. HIDE DEF b, t
<1>4. ClientOK(b, d.put[i]) /\ Follows(c, e, b)
  BY <1>1, <1>2 DEF ClientOK, Follows
<1>5. Sound(t, {}, held)
  BY <1>2, <1>3, <1>4, SetFacing
<1>. QED
  BY <1>3, <1>5, DrawKeeps

LEMMA LossKeeps ==
  ASSUME NEW d, NEW held, NEW i, NEW e, Sound(d, {i}, held), Facing(d, i, e, held), e.kind = "lost",
         NEW n, n = OnFocus(d, i, FALSE)
  PROVE  Sound(n, {}, held) /\ Fresh(n)
<1> DEFINE c == d.slots[i]
           b == [c EXCEPT !.focused = FALSE, !.dragging = FALSE, !.grip = Unknown]
           t == [d EXCEPT !.slots[i] = [@ EXCEPT !.focused = FALSE, !.dragging = FALSE, !.grip = Unknown]]
<1>1. c \in Clients /\ ClientOK(c, d.put[i])
  BY FacingFacts
<1>2. /\ b \in Clients /\ b.id = c.id /\ b.type = c.type /\ b.geom = c.geom /\ b.max = c.max
      /\ b.restore = c.restore /\ b.dragging = FALSE /\ b.focused = FALSE
  BY <1>1 DEF Clients
<1>3. n = DrawTaskbar(t)
  BY DEF OnFocus
<1>4. t = [d EXCEPT !.slots[i] = b]
  OBVIOUS
<1>. HIDE DEF b, t
<1>5. ClientOK(b, d.put[i]) /\ Follows(c, e, b)
  BY <1>1, <1>2 DEF ClientOK, Follows
<1>6. Sound(t, {}, held)
  BY <1>2, <1>4, <1>5, SetFacing
<1>. QED
  BY <1>3, <1>6, DrawKeeps

\* To ask where the window of a client is changes nothing while nothing was requested.
LEMMA SyncIdle ==
  ASSUME NEW d, Typed(d), Matched(d), NEW i \in Clientele(d)
  PROVE  SyncFromWm(d, i) = d
<1> DEFINE c == d.slots[i]
<1>1. /\ d.slots \in [Slots -> Clients \cup {NoClient}] /\ i \in Slots /\ c \in Clients
      /\ d.wins[c.id].geom = c.geom
      /\ d = [slots |-> d.slots, wins |-> d.wins, focus |-> d.focus, drawn |-> d.drawn,
              selected |-> d.selected, put |-> d.put]
  BY ClientFacts DEF Typed
<1>2. ASSUME NEW b, b = [c EXCEPT !.geom = c.geom] PROVE b = c
  <2>. HIDE DEF c
  <2>. QED
    BY <1>1, <1>2 DEF Clients
<1>3. [d.slots EXCEPT ![i] = c] = d.slots
  BY <1>1
<1>4. ASSUME NEW z, z = [d EXCEPT !.slots[i] = c] PROVE z = d
  <2>. HIDE DEF c
  <2>1. z = [slots |-> d.slots, wins |-> d.wins, focus |-> d.focus, drawn |-> d.drawn,
             selected |-> d.selected, put |-> d.put]
    BY <1>1, <1>3, <1>4
  <2>. QED
    BY <1>1, <2>1
<1>5. SyncFromWm(d, i) = [d EXCEPT !.slots[i] = [c EXCEPT !.geom = c.geom]]
  BY <1>1 DEF SyncFromWm
<1>. QED
  BY <1>2, <1>4, <1>5

LEMMA ReleaseKeeps ==
  ASSUME NEW d, NEW held, NEW i, NEW e, Sound(d, {i}, held), Facing(d, i, e, held), Fresh(d),
         e.kind = "release", NEW n, n = OnRelease(d, i)
  PROVE  Sound(n, {}, held) /\ Fresh(n)
<1> DEFINE c == d.slots[i]
           b == [c EXCEPT !.dragging = FALSE, !.grip = Unknown]
           t == LetGo(d, i)
<1>1. c \in Clients /\ ClientOK(c, d.put[i]) /\ Typed(d) /\ i \in Clientele(d)
  BY FacingFacts
<1>2. CASE ~c.dragging
  <2>1. c.dragging = FALSE
    BY <1>1, <1>2 DEF Clients
  <2>2. Follows(c, e, c) /\ n = d
    BY <1>2, <2>1 DEF Follows, OnRelease
  <2>. QED
    BY <2>2, IdleFacing
<1>3. CASE c.dragging
  <2>1. /\ t = [d EXCEPT !.slots[i] = b]
        /\ b \in Clients /\ b.id = c.id /\ b.type = c.type /\ b.geom = c.geom
        /\ b.max = c.max /\ b.restore = c.restore /\ b.dragging = FALSE
        /\ b.focused = c.focused
    <3>1. t = [d EXCEPT !.slots[i] = b]
      BY DEF LetGo
    <3>. HIDE DEF t
    <3>. QED
      BY <1>1, <3>1 DEF Clients
  <2>2. n = DrawTaskbar(SyncFromWm(t, i))
    BY <1>3 DEF OnRelease
  <2>. HIDE DEF b, t
  <2>3. ClientOK(b, d.put[i]) /\ Follows(c, e, b)
    BY <1>1, <2>1 DEF ClientOK, Follows
  <2>4. Sound(t, {}, held)
    BY <2>1, <2>3, SetFacing
  <2>7. t.slots = [d.slots EXCEPT ![i] = b]
    BY <1>1, <2>1 DEF Typed
  <2>5. i \in Clientele(t)
    BY <1>1, <2>1, <2>7, NoneAssumption DEF Clientele, Typed
  <2>6. SyncFromWm(t, i) = t
    BY <2>4, <2>5, SyncIdle DEF Sound
  <2>. QED
    BY <2>2, <2>4, <2>6, DrawKeeps
<1>. QED
  BY <1>2, <1>3

LEMMA MoveKeeps ==
  ASSUME NEW d, NEW held, NEW i, NEW e, Sound(d, {i}, held), Facing(d, i, e, held), Fresh(d),
         e.kind = "move", NEW ok \in Answers, NEW n, n = OnMove(d, i, e, ok)
  PROVE  Sound(n, {}, held) /\ Fresh(n)
<1> DEFINE c == d.slots[i]
           g == [x |-> AtLeast(e.x - c.grip.x, 0), y |-> AtLeast(e.y - c.grip.y, 0)]
           v == IF ok.move THEN Move(d, c.id, g) ELSE d
           m == SyncFromWm(v, i)
           p == [m EXCEPT !.put[i] = m.slots[i].geom]
           t == LetGo(p, i)
           k == [ok EXCEPT !.move = ok.create]
<1>1. /\ c \in Clients /\ ClientOK(c, d.put[i]) /\ Typed(d) /\ Matched(d) /\ i \in Clientele(d)
      /\ i \in Slots /\ c.geom \in Geoms /\ e \in Events /\ d.put[i] \in Geoms \cup {Unknown}
  BY FacingFacts
<1>2. Follows(c, e, c)
  BY <1>1 DEF Follows
<1>3. CASE ~c.dragging
  <2>1. n = d
    BY <1>3 DEF OnMove
  <2>. QED
    BY <1>2, <2>1, IdleFacing
<1>4. CASE c.dragging
  <2>1. c.type # "launcher" /\ ~c.max /\ c.max = FALSE /\ c.restore = Unknown /\ c.grip \in Points /\ c.grip # Unknown
    BY <1>1, <1>4 DEF ClientOK, Clients
  <2>2. g.x \in 0 .. SurfaceW /\ g.y \in 0 .. SurfaceH
    <3>1. e.x \in 0 .. SurfaceW /\ e.y \in 0 .. SurfaceH
      BY <1>1, KindsOf
    <3>2. c.grip.x \in Nat /\ c.grip.y \in Nat
      BY <2>1 DEF Points
    <3>. QED
      BY <3>1, <3>2, ScreenAssumption DEF AtLeast
  <2>3. n = IF m.slots[i].geom.y <= 28 /\ ~c.max THEN Maximize(t, i, k) ELSE DrawTaskbar(p)
    BY <1>4 DEF OnMove
  <2>. HIDE DEF g
  <2>4. c.id \in DOMAIN d.wins /\ d.wins[c.id].geom = c.geom /\ d.wins[c.id].geom \in Geoms
    BY <1>1, ClientFacts
  <2>5. PICK h \in Geoms : v = Placing(d, c.id, h)
    <3>1. CASE ok.move
      <4> DEFINE f == [x |-> g.x, y |-> g.y, w |-> c.geom.w, h |-> c.geom.h]
      <4>1. f \in Geoms /\ f.x = g.x /\ f.y = g.y /\ f.w = c.geom.w /\ f.h = c.geom.h
        BY <1>1, <2>2 DEF Geoms
      <4>. HIDE DEF f
      <4>2. Move(d, c.id, g) = Placing(d, c.id, f)
        BY <1>1, <2>4, <4>1, MoveIs
      <4>. QED
        BY <3>1, <4>1, <4>2
    <3>2. CASE ~ok.move
      <4>1. Placing(d, c.id, d.wins[c.id].geom) = d
        BY <1>1, <2>4, PlacingFacts
      <4>. QED
        BY <2>4, <3>2, <4>1
    <3>. QED
      BY <3>1, <3>2
  <2> DEFINE b == [c EXCEPT !.geom = h]
  <2>6. /\ b \in Clients /\ b.id = c.id /\ b.type = c.type /\ b.focused = c.focused
        /\ b.dragging = c.dragging /\ b.grip = c.grip /\ b.geom = h /\ b.max = FALSE /\ b.restore = Unknown
    BY <1>1, <2>1 DEF Clients
  <2>7. p = Adjust(d, i, b, h, d.drawn)
    <3>1. d.slots \in [Slots -> Clients \cup {NoClient}] /\ d.put \in [Slots -> Geoms \cup {Unknown}]
      BY <1>1 DEF Typed
    <3>2. d = Adjust(d, i, c, d.put[i], d.drawn)
      <4>1. [d.slots EXCEPT ![i] = c] = d.slots /\ [d.put EXCEPT ![i] = d.put[i]] = d.put
        BY <1>1, <3>1
      <4>2. d = [slots |-> [d.slots EXCEPT ![i] = c], wins |-> d.wins, focus |-> d.focus,
                 drawn |-> d.drawn, selected |-> d.selected, put |-> [d.put EXCEPT ![i] = d.put[i]]]
        BY <1>1, <4>1 DEF Typed
      <4>. QED
        BY <1>1, <4>2, AdjustFields
    <3>. HIDE DEF v, c
    <3>3. m = Adjust(d, i, [c EXCEPT !.geom = h], d.put[i], d.drawn)
      BY <1>1, <2>4, <2>5, <3>2, SyncIs
    <3>. HIDE DEF b, m
    <3>4. m = Adjust(d, i, b, d.put[i], d.drawn)
      BY <3>3 DEF b
    <3>5. m.slots[i].geom = h
      BY <1>1, <2>6, <3>1, <3>4 DEF Adjust
    <3>6. m.put = [d.put EXCEPT ![i] = d.put[i]]
      BY <3>4 DEF Adjust
    <3>7. [m.put EXCEPT ![i] = h] = [d.put EXCEPT ![i] = h]
      BY <1>1, <3>1, <3>6
    <3>8. ASSUME NEW z, z = [m EXCEPT !.put[i] = h] PROVE z = Adjust(d, i, b, h, d.drawn)
      BY <3>4, <3>7, <3>8 DEF Adjust
    <3>. QED
      BY <3>5, <3>8
  <2>. HIDE DEF b
  <2>8. ClientOK(b, h)
    BY <1>1, <2>1, <2>6 DEF ClientOK
  <2>9. Fits(d, i, b, h, held)
    <3>1. Follows(c, e, b)
      BY <1>1, <1>2, <2>6 DEF Follows
    <3>2. b.type = "launcher" \/ Agrees(b, d.wins[b.id].queue, d.focus, held)
      BY <2>6, <3>1, FacingAgrees
    <3>. QED
      BY <1>1, <2>6, <2>8, <3>2 DEF Fits
  <2>10. {i} \ {i} = {} /\ {} \ {i} = {}
    OBVIOUS
  <2>11. Sound(p, {}, held)
    BY <2>7, <2>9, <2>10, AdjustKeeps
  <2>12. i \in Clientele(p) /\ p.slots = [d.slots EXCEPT ![i] = b] /\ p.slots[i] = b /\ p.put[i] = h
    <3>1. /\ d.slots \in [Slots -> Clients \cup {NoClient}] /\ d.put \in [Slots -> Geoms \cup {Unknown}]
          /\ b # NoClient
      BY <1>1, <2>6, NoneAssumption DEF Typed
    <3>. HIDE DEF p
    <3>2. p.slots = [d.slots EXCEPT ![i] = b] /\ p.put = [d.put EXCEPT ![i] = h]
      BY <2>7 DEF Adjust
    <3>. QED
      BY <1>1, <3>1, <3>2 DEF Clientele
  <2>13. CASE m.slots[i].geom.y <= 28 /\ ~c.max
    <3> DEFINE a == [b EXCEPT !.dragging = FALSE, !.grip = Unknown]
    <3>1. t = [p EXCEPT !.slots[i] = a]
      BY <2>12 DEF LetGo
    <3>2. /\ a \in Clients /\ a.id = b.id /\ a.type = b.type /\ a.geom = b.geom /\ a.focused = b.focused
          /\ a.dragging = FALSE /\ a.max = FALSE /\ a.restore = Unknown
      BY <2>6 DEF Clients
    <3>. HIDE DEF a, p, t
    <3>3. ClientOK(a, h)
      BY <2>6, <3>2 DEF ClientOK
    <3>4. b.type = "launcher" \/ Agrees(b, p.wins[b.id].queue, p.focus, held)
      BY <2>11, <2>12, AttendsAll DEF Attends
    <3>5. a.type = "launcher" \/ Agrees(a, p.wins[a.id].queue, p.focus, held)
      BY <3>2, <3>4, StillAgrees
    <3>6. Sound(t, {}, held)
      <4>1. /\ a.id = p.slots[i].id /\ a.type = p.slots[i].type /\ a.geom = p.slots[i].geom
            /\ ClientOK(a, p.put[i])
        BY <2>12, <3>2, <3>3
      <4>2. Sound(t, {} \ {i}, held)
        BY <2>11, <2>12, <3>1, <3>2, <3>5, <4>1, SetKeeps
      <4>. QED
        BY <2>10, <4>2
    <3>7. t.slots = [p.slots EXCEPT ![i] = a]
      BY <2>11, <3>1 DEF Sound, Typed
    <3>8. i \in Clientele(t) /\ ~t.slots[i].dragging
      BY <1>1, <2>11, <2>12, <3>2, <3>7, NoneAssumption DEF Clientele, Sound, Typed
    <3>9. Attends(t, i, held)
      BY <3>6, <3>8, AttendsAll
    <3>10. k \in Answers
      BY DEF Answers
    <3>. HIDE DEF k
    <3>11. n = Maximize(t, i, k)
      BY <2>3, <2>13
    <3>. QED
      BY <2>10, <3>6, <3>8, <3>9, <3>10, <3>11, MaximizeKeeps
  <2>14. CASE ~(m.slots[i].geom.y <= 28 /\ ~c.max)
    <3>1. n = DrawTaskbar(p)
      BY <2>3, <2>14
    <3>. HIDE DEF p
    <3>. QED
      BY <2>11, <3>1, DrawKeeps
  <2>. QED
    BY <2>13, <2>14
<1>. QED
  BY <1>3, <1>4

LEMMA PressKeeps ==
  ASSUME NEW d, NEW held, NEW i, NEW e, Sound(d, {i}, held), Facing(d, i, e, held), Fresh(d),
         d.slots[i].type # "launcher", e.kind = "press", NEW ok \in Answers, NEW n, n = OnPress(d, i, e, ok)
  PROVE  Sound(n, {}, held) /\ Fresh(n)
<1> DEFINE c == d.slots[i]
           hit == Hit(c, e)
           b == [c EXCEPT !.dragging = TRUE, !.grip = [x |-> e.x, y |-> e.y]]
           t == [d EXCEPT !.slots[i] = b]
<1>1. /\ c \in Clients /\ ClientOK(c, d.put[i]) /\ Typed(d) /\ Matched(d) /\ i \in Clientele(d)
      /\ i \in Slots /\ c.geom \in Geoms /\ e \in Events /\ d.put[i] \in Geoms \cup {Unknown}
  BY FacingFacts
<1>2. Follows(c, e, c) /\ {i} \ {i} = {}
  BY <1>1 DEF Follows
<1>3. ~c.dragging /\ Attends(d, i, held)
  BY <1>2, FacingAgrees DEF Attends
<1>4. /\ hit = "close" => n = DrawTaskbar(CloseClient(d, i))
      /\ hit = "maximize" => n = Maximize(d, i, ok)
      /\ hit = "minimize" => n = Minimize(d, i, ok)
      /\ hit = "title" /\ ~c.max => n = t
      /\ ~(hit \in {"close", "maximize", "minimize"}) /\ ~(hit = "title" /\ ~c.max) => n = d
  BY DEF OnPress
<1>5. CASE hit = "close"
  <2>1. /\ Sound(CloseClient(d, i), {i}, held)
        /\ CloseClient(d, i).slots = [d.slots EXCEPT ![i] = NoClient]
    BY <1>1, CloseKeeps
  <2>2. i \notin Clientele(CloseClient(d, i))
    BY <1>1, <2>1 DEF Clientele, Typed
  <2>3. Sound(CloseClient(d, i), {i} \ {i}, held)
    BY <2>1, <2>2, AttendsAll
  <2>. QED
    <3>1. Sound(CloseClient(d, i), {}, held)
      BY <1>2, <2>3
    <3>2. n = DrawTaskbar(CloseClient(d, i))
      BY <1>4, <1>5
    <3>. QED
      BY <3>1, <3>2, DrawKeeps
<1>6. CASE hit = "maximize"
  <2>1. n = Maximize(d, i, ok)
    BY <1>4, <1>6
  <2>. QED
    BY <1>1, <1>2, <1>3, <2>1, MaximizeKeeps
<1>7. CASE hit = "minimize"
  <2>1. n = Minimize(d, i, ok)
    BY <1>4, <1>7
  <2>. QED
    BY <1>1, <1>2, <1>3, <2>1, MinimizeKeeps
<1>8. CASE hit = "title" /\ ~c.max
  <2>1. n = t
    BY <1>4, <1>8
  <2>2. [x |-> e.x, y |-> e.y] \in Points
    BY <1>1, KindsOf DEF Points
  <2>3. /\ b \in Clients /\ b.id = c.id /\ b.type = c.type /\ b.geom = c.geom /\ b.focused = c.focused
        /\ b.dragging = TRUE /\ b.max = c.max /\ b.restore = c.restore /\ b.min = c.min
        /\ b.grip = [x |-> e.x, y |-> e.y]
    <3>1. ASSUME NEW p \in Points, NEW a, a = [c EXCEPT !.dragging = TRUE, !.grip = p]
          PROVE  /\ a \in Clients /\ a.id = c.id /\ a.type = c.type /\ a.geom = c.geom
                 /\ a.focused = c.focused /\ a.dragging = TRUE /\ a.max = c.max
                 /\ a.restore = c.restore /\ a.min = c.min /\ a.grip = p
      BY <1>1, <3>1 DEF Clients
    <3>2. \A p \in Points : LET a == [c EXCEPT !.dragging = TRUE, !.grip = p]
                           IN  /\ a \in Clients /\ a.id = c.id /\ a.type = c.type /\ a.geom = c.geom
                               /\ a.focused = c.focused /\ a.dragging = TRUE /\ a.max = c.max
                               /\ a.restore = c.restore /\ a.min = c.min /\ a.grip = p
      BY <3>1
    <3>. QED
      BY <2>2, <3>2, Zenon
  <2>4. b.grip # Unknown
    BY <2>2, <2>3, NoneAssumption
  <2>. HIDE DEF b
  <2>5. ClientOK(b, d.put[i]) /\ Follows(c, e, b)
    BY <1>1, <1>8, <2>3, <2>4 DEF ClientOK, Follows
  <2>6. Sound(t, {}, held)
    BY <2>3, <2>5, SetFacing
  <2>7. Fresh(t)
    BY <1>1, <2>3, SetFresh
  <2>. QED
    BY <2>1, <2>6, <2>7
<1>9. CASE hit \notin {"close", "maximize", "minimize"} /\ ~(hit = "title" /\ ~c.max)
  <2>1. n = d
    BY <1>4, <1>9
  <2>. QED
    BY <1>2, <2>1, IdleFacing
<1>. QED
  BY <1>5, <1>6, <1>7, <1>8, <1>9

----------------------------------------------------------------------------
(* Creating a window. *)

LEMMA FreeFacts ==
  ASSUME NEW d, NEW i, i = FirstFree(d), i # 0
  PROVE  i \in Slots /\ d.slots[i] = NoClient /\ \A j \in 1 .. i - 1 : j \in Clientele(d)
<1> DEFINE I == {j \in Slots : d.slots[j] = NoClient}
<1>1. I \in SUBSET Nat
  BY BoundAssumption DEF Slots
<1>2. i = Least(I)
  BY DEF FirstFree
<1>3. I # {}
  BY <1>2 DEF Least
<1>4. i \in I /\ \A j \in I : i <= j
  <2>. HIDE DEF I
  <2>. QED
    BY <1>1, <1>2, <1>3, LeastNumber DEF Least
<1>. QED
  BY <1>4, BoundAssumption DEF Clientele, Slots

\* There is a number that no window has.
LEMMA FreshFacts ==
  ASSUME NEW d, Typed(d), Matched(d), NEW i \in Slots, d.slots[i] = NoClient
  PROVE  FreshId(d) \in 3 .. SlotMax + 2 /\ FreshId(d) \notin DOMAIN d.wins
<1> DEFINE W == 3 .. SlotMax + 2
           f == [w \in W |-> CHOOSE j \in Clientele(d) : d.slots[j].id = w]
<1>0. SlotMax \in Nat /\ i \in 1 .. SlotMax
  BY BoundAssumption DEF Slots
<1>1. ASSUME W \subseteq DOMAIN d.wins PROVE FALSE
  <2>1. \A w \in W : \E j \in Clientele(d) : d.slots[j].id = w
    BY <1>0, <1>1 DEF Matched, Desk, Bar
  <2>2. \A w \in W : f[w] \in Clientele(d) /\ d.slots[f[w]].id = w
    BY <2>1
  <2>3. f \in [W -> Slots \ {i}]
    BY <2>2 DEF Clientele
  <2>4. IsFiniteSet(W) /\ Cardinality(W) = SlotMax
    BY <1>0, FS_Interval
  <2>5. IsFiniteSet(Slots \ {i}) /\ Cardinality(Slots \ {i}) = SlotMax - 1
    <3>1. IsFiniteSet(1 .. SlotMax) /\ Cardinality(1 .. SlotMax) = SlotMax
      BY <1>0, FS_Interval
    <3>. QED
      BY <1>0, <3>1, FS_RemoveElement DEF Slots
  <2>. HIDE DEF f, W
  <2>6. \E v, w \in W : v # w /\ f[v] = f[w]
    <3>1. Cardinality(Slots \ {i}) < Cardinality(W)
      BY <1>0, <2>4, <2>5
    <3>. QED
      BY <2>3, <2>4, <2>5, <3>1, FS_PigeonHole
  <2>. QED
    BY <2>2, <2>6
<1>2. \E w \in W : w \notin DOMAIN d.wins
  BY <1>1
<1>. QED
  BY <1>2 DEF FreshId

\* There are five types of clients, so a window is created in one of the first five slots.
LEMMA FewSlots ==
  ASSUME NEW d, Typed(d), Matched(d), NEW type \in Types, NEW i \in Slots,
         \A j \in 1 .. i - 1 : j \in Clientele(d),
         \A j \in Clientele(d) : d.slots[j].type # type
  PROVE  i <= 5
<1> DEFINE N(t) == IF t = "system" THEN 1 ELSE IF t = "files" THEN 2 ELSE IF t = "about" THEN 3
                   ELSE IF t = "launcher" THEN 4 ELSE 5
           f == [j \in 1 .. i |-> IF j = i THEN N(type) ELSE N(d.slots[j].type)]
<1>0. i \in Nat \ {0}
  BY BoundAssumption DEF Slots
<1>1. SUFFICES ASSUME ~(i <= 5) PROVE FALSE
  OBVIOUS
<1>2. \A s, t \in Types : N(s) = N(t) => s = t
  BY TypesAssumption DEF Types
<1>3. \A t : N(t) \in 1 .. 5
  OBVIOUS
<1>4. \A j \in Clientele(d) : d.slots[j].type \in Types
  BY ClientFacts DEF Clients
<1>. HIDE DEF N
<1>5. f \in [1 .. i -> 1 .. 5]
  BY <1>3
<1>6. \A n \in Nat \ {0} : IsFiniteSet(1 .. n) /\ Cardinality(1 .. n) = n
  BY FS_Interval
<1>7. PICK j, k \in 1 .. i : j # k /\ f[j] = f[k]
  <2>1. Cardinality(1 .. 5) < Cardinality(1 .. i) /\ IsFiniteSet(1 .. 5) /\ IsFiniteSet(1 .. i)
    <3>1. IsFiniteSet(1 .. 5) /\ Cardinality(1 .. 5) = 5
      <4>1. 5 \in Nat \ {0}
        OBVIOUS
      <4>. QED
        BY <1>6, <4>1, Zenon
    <3>2. IsFiniteSet(1 .. i) /\ Cardinality(1 .. i) = i
      BY <1>0, <1>6
    <3>. QED
      BY <1>0, <1>1, <3>1, <3>2
  <2>. HIDE DEF f
  <2> DEFINE S == 1 .. i
             T == 1 .. 5
  <2>2. Cardinality(T) < Cardinality(S) /\ IsFiniteSet(T) /\ IsFiniteSet(S) /\ f \in [S -> T]
    BY <1>5, <2>1
  <2>. HIDE DEF S, T
  <2>3. \E j, k \in S : j # k /\ f[j] = f[k]
    BY <2>2, FS_PigeonHole
  <2>. QED
    BY <2>3 DEF S
<1>8. \A a, b \in 1 .. i : a < b => f[a] # f[b]
  <2>1. ASSUME NEW a \in 1 .. i, NEW b \in 1 .. i, a < b PROVE f[a] # f[b]
    <3>1. a \in 1 .. i - 1 /\ f[a] = N(d.slots[a].type) /\ a \in Clientele(d)
      BY <1>0, <2>1
    <3>2. CASE b = i
      BY <1>2, <1>4, <3>1, <3>2
    <3>3. CASE b # i
      <4>1. b \in 1 .. i - 1 /\ f[b] = N(d.slots[b].type) /\ b \in Clientele(d)
        BY <1>0, <2>1, <3>3
      <4>2. d.slots[a].type # d.slots[b].type
        BY <2>1, <3>1, <4>1 DEF Matched
      <4>. QED
        BY <1>2, <1>4, <3>1, <4>1, <4>2
    <3>. QED
      BY <3>2, <3>3
  <2>. QED
    BY <2>1
<1>. QED
  <2>1. j < k \/ k < j
    BY <1>0, <1>7
  <2>. HIDE DEF f
  <2>. QED
    BY <1>7, <1>8, <2>1

LEMMA PlacedFits ==
  ASSUME NEW type, NEW want, want[1] \in Nat \ {0}, want[2] \in Nat \ {0}, NEW i \in 1 .. 5
  PROVE  Placed(type, want, i) \in Geoms
<1> DEFINE w == AtLeast(Capped(want[1], SurfaceW - 40), 220)
           h == AtLeast(Capped(want[2], SurfaceH - 96), 120)
           mw == Capped(SurfaceW, want[1])
           mh == IF SurfaceH < want[2] + TASKBAR_H THEN SurfaceH - TASKBAR_H ELSE want[2]
           y == AtLeast(SurfaceH - TASKBAR_H - mh, 0)
<1>1. w \in 1 .. SurfaceW /\ h \in 1 .. SurfaceH
  BY ScreenAssumption DEF AtLeast, Capped
<1>2. mw \in 1 .. SurfaceW /\ mh \in 1 .. SurfaceH /\ y \in 0 .. SurfaceH
  BY ScreenAssumption DEF AtLeast, Capped, TASKBAR_H
<1>3. 40 + (i - 1) * 28 \in 0 .. SurfaceW /\ 72 + (i - 1) * 24 \in 0 .. SurfaceH
  BY ScreenAssumption
<1>4. 0 \in 0 .. SurfaceW
  BY ScreenAssumption
<1>5. Placed(type, want, i) = IF type = "launcher" THEN Rect(0, y, mw, mh)
                              ELSE Rect(40 + (i - 1) * 28, 72 + (i - 1) * 24, w, h)
  BY DEF Placed
<1>. HIDE DEF w, h, mw, mh, y
<1>. QED
  BY <1>1, <1>2, <1>3, <1>4, <1>5 DEF Rect, Geoms

LEMMA NewAgrees ==
  ASSUME NEW c, NEW q, q = Append(<<>>, Gained), ~c.dragging, NEW held
  PROVE  Agrees(c, q, c.id, held)
<1>1. Len(q) = 1 /\ q[1].kind = "gained"
  BY DEF Gained
<1>2. OneHand(c, q, held)
  BY <1>1 DEF OneHand, Pressed
<1>3. ~Ends(q, "lost", FocusKinds) /\ ~Ends(q, "press", {"lost"}) /\ ~Lacks(q, FocusKinds)
  BY <1>1 DEF Ends, Lacks, FocusKinds
<1>. QED
  BY <1>2, <1>3 DEF Agrees

\* What the handler makes of d when the kernel gives the window w for slot i.
Created(d, i, w, type, g) ==
    [Create(d, w, g) EXCEPT !.slots[i] = Client(type, w, g), !.put[i] = g]
MayCreate(d, i, w, type, g) ==
    /\ i \in Slots /\ d.slots[i] = NoClient /\ w \in 3 .. SlotMax + 2 /\ w \notin DOMAIN d.wins
    /\ type \in Types /\ \A j \in Clientele(d) : d.slots[j].type # type
    /\ g \in Geoms
IsCreated(n, i, w, type, g) ==
    /\ i \in Clientele(n) /\ n.slots[i] = Client(type, w, g)
    /\ w \in DOMAIN n.wins /\ n.wins[w].queue = <<>> /\ n.focus # w

LEMMA CreateKeeps ==
  ASSUME NEW d, NEW held, Sound(d, {}, held), NEW i, NEW w, NEW type, NEW g, MayCreate(d, i, w, type, g),
         NEW n, n = Created(d, i, w, type, g)
  PROVE  Sound(n, {i}, held) /\ IsCreated(n, i, w, type, g)
<1> DEFINE c == Client(type, w, g)
           y == [geom |-> g, queue |-> <<>>]
           W == DOMAIN d.wins \cup {w}
           nw == [v \in W |-> IF v = w THEN y ELSE d.wins[v]]
<1>0. /\ i \in Slots /\ d.slots[i] = NoClient /\ w \in 3 .. SlotMax + 2 /\ w \notin DOMAIN d.wins
      /\ type \in Types /\ \A j \in Clientele(d) : d.slots[j].type # type
      /\ g \in Geoms
  BY DEF MayCreate
<1>1. Typed(d) /\ Matched(d) /\ Consistent(d) /\ Attentive(d, {}, held)
  BY <1>0 DEF Sound
<1>2. /\ d = [slots |-> d.slots, wins |-> d.wins, focus |-> d.focus, drawn |-> d.drawn,
              selected |-> d.selected, put |-> d.put]
      /\ d.slots \in [Slots -> Clients \cup {NoClient}] /\ d.put \in [Slots -> Geoms \cup {Unknown}]
      /\ d.wins \in [DOMAIN d.wins -> Windows] /\ d.focus \in DOMAIN d.wins \cup {NoWin}
      /\ d.selected \in Icons
  BY <1>0, <1>1 DEF Typed
<1>3. /\ c \in Clients /\ c.type = type /\ c.id = w /\ c.geom = g /\ c.max = FALSE /\ c.restore = Unknown
      /\ c.dragging = FALSE /\ c # NoClient
  <2>1. /\ c.type = type /\ c.id = w /\ c.geom = g /\ c.max = FALSE /\ c.restore = Unknown
        /\ c.dragging = FALSE
    BY <1>0 DEF Client
  <2>2. c \in Clients
    BY <1>0 DEF Client, Clients
  <2>. QED
    BY <1>0, <2>1, <2>2, NoneAssumption
<1>4. y \in Windows /\ y.geom = g /\ y.queue = <<>>
  BY <1>0 DEF Windows
<1>5. n = [slots |-> [d.slots EXCEPT ![i] = c], wins |-> nw, focus |-> d.focus, drawn |-> d.drawn,
           selected |-> d.selected, put |-> [d.put EXCEPT ![i] = g]]
  <2>1. ASSUME NEW z, z = Create(d, w, g)
        PROVE  z = [slots |-> d.slots, wins |-> nw, focus |-> d.focus, drawn |-> d.drawn,
                    selected |-> d.selected, put |-> d.put]
    BY <1>0, <1>2, <2>1 DEF Create
  <2>. HIDE DEF c, nw
  <2>2. ASSUME NEW z, NEW k, z = [slots |-> d.slots, wins |-> nw, focus |-> d.focus, drawn |-> d.drawn,
                                  selected |-> d.selected, put |-> d.put],
               k = [z EXCEPT !.slots[i] = c, !.put[i] = g]
        PROVE  k = [slots |-> [d.slots EXCEPT ![i] = c], wins |-> nw, focus |-> d.focus, drawn |-> d.drawn,
                    selected |-> d.selected, put |-> [d.put EXCEPT ![i] = g]]
    BY <1>0, <2>2
  <2>. QED
    BY <1>0, <2>1, <2>2 DEF Created, c
<1>. HIDE DEF c, y
<1>6. /\ n.slots = [d.slots EXCEPT ![i] = c] /\ n.wins = nw /\ n.focus = d.focus /\ n.drawn = d.drawn
      /\ n.selected = d.selected /\ n.put = [d.put EXCEPT ![i] = g]
      /\ n = [slots |-> n.slots, wins |-> n.wins, focus |-> n.focus, drawn |-> n.drawn,
              selected |-> n.selected, put |-> n.put]
  <2>. HIDE DEF nw
  <2>1. ASSUME NEW k,
               k = [slots |-> [d.slots EXCEPT ![i] = c], wins |-> nw, focus |-> d.focus, drawn |-> d.drawn,
                    selected |-> d.selected, put |-> [d.put EXCEPT ![i] = g]]
        PROVE  /\ k.slots = [d.slots EXCEPT ![i] = c] /\ k.wins = nw /\ k.focus = d.focus /\ k.drawn = d.drawn
               /\ k.selected = d.selected /\ k.put = [d.put EXCEPT ![i] = g]
               /\ k = [slots |-> k.slots, wins |-> k.wins, focus |-> k.focus, drawn |-> k.drawn,
                       selected |-> k.selected, put |-> k.put]
    BY <1>0, <2>1
  <2>. QED
    BY <1>0, <1>5, <2>1
<1>7. /\ DOMAIN n.wins = W /\ n.wins[w] = y /\ \A v \in DOMAIN d.wins : n.wins[v] = d.wins[v]
  BY <1>0, <1>6
<1>8. Typed(n)
  <2>1. n.wins \in [DOMAIN n.wins -> Windows]
    BY <1>0, <1>2, <1>4, <1>6
  <2>2. n.focus \in DOMAIN n.wins \cup {NoWin}
    BY <1>0, <1>2, <1>6, <1>7
  <2>3. n.slots \in [Slots -> Clients \cup {NoClient}]
    <3>1. [d.slots EXCEPT ![i] = c] \in [Slots -> Clients \cup {NoClient}]
      BY <1>0, <1>2, <1>3
    <3>. QED
      BY <1>0, <1>6, <3>1
  <2>4. n.put \in [Slots -> Geoms \cup {Unknown}]
    BY <1>0, <1>2, <1>6
  <2>. QED
    BY <1>0, <1>2, <1>6, <2>1, <2>2, <2>3, <2>4 DEF Typed
<1>9. /\ Clientele(n) = Clientele(d) \cup {i} /\ i \notin Clientele(d)
      /\ \A j \in Clientele(d) : n.slots[j] = d.slots[j] /\ n.put[j] = d.put[j]
      /\ n.slots[i] = c /\ n.put[i] = g
  BY <1>0, <1>2, <1>3, <1>6 DEF Clientele
<1>10. \A j \in Clientele(d) : d.slots[j].id \in DOMAIN d.wins /\ d.slots[j].id # w
  BY <1>0, <1>1, ClientFacts
<1>11. Matched(n)
  <2>1. DOMAIN n.wins = {Desk, Bar} \cup {n.slots[j].id : j \in Clientele(n)}
    <3>1. DOMAIN d.wins = {Desk, Bar} \cup {d.slots[j].id : j \in Clientele(d)}
      BY <1>0, <1>1 DEF Matched
    <3>2. {n.slots[j].id : j \in Clientele(n)} = {d.slots[j].id : j \in Clientele(d)} \cup {w}
      <4>1. \A j \in Clientele(d) : n.slots[j].id = d.slots[j].id
        BY <1>0, <1>9
      <4>2. n.slots[i].id = w
        BY <1>0, <1>3, <1>9
      <4>. QED
        BY <1>0, <1>9, <4>1, <4>2
    <3>. QED
      BY <1>0, <1>7, <3>1, <3>2
  <2>2. \A j, k \in Clientele(n) : j # k => /\ n.slots[j].id # n.slots[k].id
                                           /\ n.slots[j].type # n.slots[k].type
    BY <1>0, <1>1, <1>3, <1>9, <1>10 DEF Matched
  <2>3. \A j \in Clientele(n) : n.slots[j].geom = n.wins[n.slots[j].id].geom
    BY <1>0, <1>1, <1>3, <1>4, <1>7, <1>9, <1>10 DEF Matched
  <2>. QED
    BY <1>0, <2>1, <2>2, <2>3 DEF Matched
<1>12. Consistent(n)
  <2>1. ClientOK(c, g)
    BY <1>0, <1>3 DEF ClientOK
  <2>. QED
    BY <1>0, <1>1, <1>9, <2>1 DEF Consistent
<1>13. Attentive(n, {i}, held)
  <2>1. ASSUME NEW j \in Clientele(n) \ {i}, n.slots[j].type # "launcher"
        PROVE  Agrees(n.slots[j], n.wins[n.slots[j].id].queue, n.focus, held)
    BY <1>0, <1>1, <1>6, <1>7, <1>9, <1>10, <2>1 DEF Attentive
  <2>. QED
    BY <1>0, <2>1 DEF Attentive
<1>14. n.focus # w
  BY <1>0, <1>2, <1>6, NoneAssumption, BoundAssumption
<1>. QED
  BY <1>0, <1>4, <1>6, <1>7, <1>8, <1>9, <1>11, <1>12, <1>13, <1>14 DEF Sound, IsCreated, c

\* A client has been created and gets the focus.
LEMMA NewFocused ==
  ASSUME NEW d, NEW held, NEW i, Sound(d, {i}, held), i \in Clientele(d), ~d.slots[i].dragging,
         d.slots[i].id \in DOMAIN d.wins, d.wins[d.slots[i].id].queue = <<>>, d.focus # d.slots[i].id,
         NEW n, n = Focus(d, d.slots[i].id)
  PROVE  Sound(n, {}, held) /\ Fresh(n)
<1> DEFINE c == d.slots[i]
<1>1. Typed(d) /\ c.id \notin {Desk, Bar}
  BY ClientFacts DEF Sound
<1>2. n.slots = d.slots /\ n.focus = c.id /\ n.wins[c.id].queue = Append(<<>>, Gained)
  <2>1. n.slots = d.slots /\ n.focus = c.id
    BY <1>1, FocusEffect
  <2>2. n.wins[c.id].queue = Append(d.wins[c.id].queue, Gained)
    BY <1>1, FocusEffect
  <2>. QED
    BY <2>1, <2>2
<1>3. Sound(n, {i}, held) /\ Fresh(n)
  BY <1>1, FocusKeeps
<1>4. Agrees(c, n.wins[c.id].queue, c.id, held)
  BY <1>2, NewAgrees
<1>5. Attends(n, i, held)
  BY <1>2, <1>4 DEF Attends
<1>6. Sound(n, {i} \ {i}, held)
  BY <1>3, <1>5, AttendsAll
<1>7. {i} \ {i} = {}
  OBVIOUS
<1>. QED
  BY <1>3, <1>6, <1>7

LEMMA OpenKeeps ==
  ASSUME NEW d, NEW held, Sound(d, {}, held), NEW type \in Types,
         NEW want, want[1] \in Nat \ {0}, want[2] \in Nat \ {0},
         NEW ok \in Answers, NEW n, n = OpenClient(d, type, want, ok)
  PROVE  /\ Sound(n, {}, held)
         /\ type # "launcher" /\ Fresh(d) => Fresh(n)
<1> DEFINE old == IndexByType(d, type)
           m == IF type = "launcher" THEN d ELSE CloseMenu(d)
           i == FirstFree(m)
           w == FreshId(m)
           g == Placed(type, want, i)
           k == [Create(m, w, g) EXCEPT !.slots[i] = Client(type, w, g), !.put[i] = g]
<1>1. n = IF old # 0 THEN Focus(m, m.slots[old].id)
          ELSE IF i = 0 \/ ~ok.create THEN m
          ELSE IF type = "launcher" /\ ~ok.top THEN k ELSE Focus(k, w)
  BY DEF OpenClient
<1>2. /\ Sound(m, {}, held) /\ (Fresh(d) => Fresh(m))
      /\ \A j \in Slots : m.slots[j] # NoClient => m.slots[j] = d.slots[j]
  <2>1. CASE type = "launcher"
    BY <2>1
  <2>2. CASE type # "launcher"
    <3>1. m = CloseMenu(d)
      BY <2>2
    <3>. HIDE DEF m
    <3>. QED
      BY <3>1, MenuKeeps
  <2>. QED
    BY <2>1, <2>2
<1>3. CASE old # 0
  <2>1. old \in Clientele(d) /\ d.slots[old].type = type
    BY <1>3, IndexFacts
  <2>2. old \in Slots /\ d.slots[old] # NoClient /\ d.slots[old].id \in DOMAIN d.wins
    BY <2>1, ClientFacts DEF Sound
  <2>3. m.slots[old].id \in DOMAIN m.wins
    <3>1. CASE type = "launcher"
      BY <2>2, <3>1
    <3>2. CASE type # "launcher"
      <4>1. m = CloseMenu(d)
        BY <3>2
      <4>. HIDE DEF m
      <4>2. d.slots[old].type # "launcher"
        BY <2>1, <3>2
      <4>. HIDE DEF old
      <4>3. Untouched(d, m, old)
        BY <2>1, <4>1, <4>2, MenuKeeps
      <4>. QED
        BY <4>3 DEF Untouched
    <3>. QED
      BY <3>1, <3>2
  <2>. HIDE DEF m, old
  <2>4. n = Focus(m, m.slots[old].id)
    BY <1>1, <1>3
  <2>. QED
    BY <1>2, <2>3, <2>4, FocusKeeps
<1>4. CASE old = 0 /\ (i = 0 \/ ~ok.create)
  BY <1>1, <1>2, <1>4
<1>5. CASE old = 0 /\ ~(i = 0 \/ ~ok.create)
  <2>1. \A j \in Clientele(m) : m.slots[j].type # type
    <3>1. \A j \in Slots : d.slots[j] = NoClient \/ d.slots[j].type # type
      BY <1>5, IndexFacts
    <3>. HIDE DEF m
    <3>. QED
      BY <1>2, <3>1 DEF Clientele
  <2>. HIDE DEF m
  <2>2. i \in Slots /\ m.slots[i] = NoClient /\ \A j \in 1 .. i - 1 : j \in Clientele(m)
    BY <1>5, FreeFacts
  <2>3. Typed(m) /\ Matched(m)
    BY <1>2 DEF Sound
  <2>4. w \in 3 .. SlotMax + 2 /\ w \notin DOMAIN m.wins
    BY <2>2, <2>3, FreshFacts
  <2>. HIDE DEF i, w
  <2>5. i \in 1 .. 5
    <3>1. i <= 5
      BY <2>1, <2>2, <2>3, FewSlots
    <3>. QED
      BY <2>2, <3>1, BoundAssumption DEF Slots
  <2>6. g \in Geoms
    BY <2>5, PlacedFits
  <2>. HIDE DEF g
  <2>. HIDE DEF k
  <2>7. Sound(k, {i}, held) /\ IsCreated(k, i, w, type, g)
    <3>1. MayCreate(m, i, w, type, g)
      BY <2>1, <2>2, <2>4, <2>6 DEF MayCreate
    <3>2. k = Created(m, i, w, type, g)
      BY DEF k, Created
    <3>. QED
      BY <1>2, <3>1, <3>2, CreateKeeps
  <2>8. k.slots[i].id = w /\ k.slots[i].type = type /\ ~k.slots[i].dragging
    BY <2>7 DEF Client, IsCreated
  <2>9. CASE type = "launcher" /\ ~ok.top
    <3>1. n = k
      BY <1>1, <1>5, <2>9
    <3>2. Attends(k, i, held)
      BY <2>8, <2>9 DEF Attends
    <3>3. i \in Clientele(k)
      BY <2>7 DEF IsCreated
    <3>4. Sound(k, {i} \ {i}, held) /\ {i} \ {i} = {}
      BY <2>7, <3>2, <3>3, AttendsAll
    <3>. QED
      BY <2>9, <3>1, <3>4
  <2>10. CASE ~(type = "launcher" /\ ~ok.top)
    <3>1. n = Focus(k, w)
      BY <1>1, <1>5, <2>10
    <3>. QED
      BY <2>7, <2>8, <3>1, NewFocused DEF IsCreated
  <2>. QED
    BY <2>9, <2>10
<1>. QED
  BY <1>3, <1>4, <1>5

----------------------------------------------------------------------------
(* The start menu, the taskbar and the desktop. *)

LEMMA TerminalKeeps ==
  ASSUME NEW d, NEW held, Sound(d, {}, held), NEW ok \in Answers, NEW n, n = LaunchTerminal(d, ok)
  PROVE  Sound(n, {}, held) /\ Fresh(n)
<1> DEFINE i == IndexByType(d, "terminal")
           m == IF i # 0 THEN ShowClient(d, i, ok) ELSE OpenClient(d, "terminal", <<760, 460>>, ok)
<1>1. n = DrawTaskbar(CloseMenu(m))
  BY DEF LaunchTerminal
<1>2. Sound(m, {}, held)
  <2>1. CASE i # 0
    <3>1. i \in Clientele(d) /\ m = ShowClient(d, i, ok)
      BY <2>1, IndexFacts
    <3>. HIDE DEF i, m
    <3>. QED
      BY <3>1, ShowKeeps
  <2>2. CASE i = 0
    <3> DEFINE want == <<760, 460>>
    <3>1. m = OpenClient(d, "terminal", want, ok)
      BY <2>2
    <3>2. "terminal" \in Types
      BY DEF Types
    <3>3. want[1] \in Nat \ {0} /\ want[2] \in Nat \ {0}
      OBVIOUS
    <3>. HIDE DEF m, want
    <3>. QED
      BY <3>1, <3>2, <3>3, OpenKeeps
  <2>. QED
    BY <2>1, <2>2
<1>. HIDE DEF m
<1>3. Sound(CloseMenu(m), {}, held)
  BY <1>2, MenuKeeps
<1>. QED
  BY <1>1, <1>3, DrawKeeps

LEMMA LaunchKeeps ==
  ASSUME NEW d, NEW held, Sound(d, {}, held), NEW type, NEW want,
         want[1] \in Nat \ {0}, want[2] \in Nat \ {0},
         NEW ok \in Answers, NEW n, n = Launch(d, type, want, ok)
  PROVE  Sound(n, {}, held) /\ (Fresh(d) => Fresh(n))
<1>1. CASE type = "terminal"
  BY <1>1, TerminalKeeps DEF Launch
<1>2. CASE type # "terminal" /\ type \in Apps
  <2>1. n = OpenClient(d, type, want, ok)
    BY <1>2 DEF Launch
  <2>2. type \in Types /\ type # "launcher"
    BY <1>2, TypesAssumption DEF Types
  <2>. QED
    BY <2>1, <2>2, OpenKeeps
<1>3. CASE type # "terminal" /\ type \notin Apps
  BY <1>3 DEF Launch
<1>. QED
  BY <1>1, <1>2, <1>3

LEMMA ToggleKeeps ==
  ASSUME NEW d, NEW held, Sound(d, {}, held), Fresh(d), NEW ok \in Answers, NEW n, n = ToggleMenu(d, ok)
  PROVE  Sound(n, {}, held) /\ Fresh(n)
<1> DEFINE want == <<560, 520>>
           m == OpenClient(d, "launcher", want, ok)
<1>1. CASE IndexByType(d, "launcher") # 0
  BY <1>1, MenuKeeps DEF ToggleMenu
<1>2. CASE IndexByType(d, "launcher") = 0
  <2>1. n = DrawTaskbar(m)
    BY <1>2 DEF ToggleMenu
  <2>2. "launcher" \in Types
    BY DEF Types
  <2>3. want[1] \in Nat \ {0} /\ want[2] \in Nat \ {0}
    OBVIOUS
  <2>. HIDE DEF want
  <2>4. Sound(m, {}, held)
    BY <2>2, <2>3, OpenKeeps
  <2>. HIDE DEF m
  <2>. QED
    BY <2>1, <2>4, DrawKeeps
<1>. QED
  BY <1>1, <1>2

LEMMA WantedSize ==
  ASSUME NEW type
  PROVE  Wanted(type)[1] \in Nat \ {0} /\ Wanted(type)[2] \in Nat \ {0}
BY DEF Wanted

LEMMA MenuClickKeeps ==
  ASSUME NEW d, NEW held, Sound(d, {}, held), NEW e, NEW ok \in Answers, NEW n, n = LauncherClick(d, e, ok)
  PROVE  Sound(n, {}, held) /\ (Fresh(d) => Fresh(n))
<1> DEFINE item == MenuItem(e.x, e.y)
<1>1. CASE item = "close"
  <2>1. n = CloseMenu(d)
    BY <1>1 DEF LauncherClick
  <2>. QED
    BY <2>1, MenuKeeps
<1>2. CASE item # "close"
  <2>1. n = Launch(d, item, Wanted(item), ok)
    BY <1>2 DEF LauncherClick
  <2>. HIDE DEF item
  <2>. QED
    BY <2>1, WantedSize, LaunchKeeps
<1>. QED
  BY <1>1, <1>2

LEMMA BarKeeps ==
  ASSUME NEW d, NEW held, Sound(d, {}, held), Fresh(d), NEW e, NEW ok \in Answers, NEW n, n = TaskbarEvent(d, e, ok)
  PROVE  Sound(n, {}, held) /\ Fresh(n)
<1> DEFINE k == (e.x - 88) \div (TASK_BUTTON_W + 8) + 1
           v == <<440, 260>>
           w == <<420, 280>>
<1>1. CASE n = d
  BY <1>1
<1>2. CASE n = ToggleMenu(d, ok)
  BY <1>2, ToggleKeeps
<1>3. ASSUME NEW m, n = DrawTaskbar(m),
             \/ Button(d, k) # {} /\ m = ShowClient(d, ButtonSlot(d, k), ok)
             \/ m = Launch(d, "system", v, ok) \/ m = Launch(d, "files", w, ok)
             \/ m = LaunchTerminal(d, ok) \/ m = CloseMenu(d)
      PROVE  Sound(n, {}, held) /\ Fresh(n)
  <2>1. /\ v[1] \in Nat \ {0} /\ v[2] \in Nat \ {0}
        /\ w[1] \in Nat \ {0} /\ w[2] \in Nat \ {0}
    OBVIOUS
  <2>. HIDE DEF v, w, k
  <2>2. CASE Button(d, k) # {} /\ m = ShowClient(d, ButtonSlot(d, k), ok)
    <3>1. ButtonSlot(d, k) \in Clientele(d)
      BY <2>2, ButtonSlotIs DEF Tasks, Clientele
    <3>2. Sound(m, {}, held)
      BY <2>2, <3>1, ShowKeeps
    <3>. QED
      BY <1>3, <3>2, DrawKeeps
  <2>3. CASE m = Launch(d, "system", v, ok) \/ m = Launch(d, "files", w, ok)
    <3>1. Sound(m, {}, held)
      BY <2>1, <2>3, LaunchKeeps
    <3>. QED
      BY <1>3, <3>1, DrawKeeps
  <2>4. CASE m = LaunchTerminal(d, ok) \/ m = CloseMenu(d)
    <3>1. Sound(m, {}, held)
      BY <2>4, TerminalKeeps, MenuKeeps
    <3>. QED
      BY <1>3, <3>1, DrawKeeps
  <2>. QED
    BY <1>3, <2>2, <2>3, <2>4
<1>4. \/ n = d \/ n = ToggleMenu(d, ok)
      \/ Button(d, k) # {} /\ n = DrawTaskbar(ShowClient(d, ButtonSlot(d, k), ok))
      \/ n = DrawTaskbar(Launch(d, "system", v, ok)) \/ n = DrawTaskbar(Launch(d, "files", w, ok))
      \/ n = DrawTaskbar(LaunchTerminal(d, ok)) \/ n = DrawTaskbar(CloseMenu(d))
  <2>. HIDE DEF k
  <2>. QED
    BY DEF TaskbarEvent, k
<1>. QED
  BY <1>1, <1>2, <1>3, <1>4

LEMMA SelectKeeps ==
  ASSUME NEW d, NEW held, Sound(d, {}, held), NEW s \in Icons, NEW n, n = [d EXCEPT !.selected = s]
  PROVE  Sound(n, {}, held) /\ (Fresh(d) => Fresh(n))
<1>1. Typed(d) /\ Matched(d) /\ Consistent(d) /\ Attentive(d, {}, held)
  BY DEF Sound
<1>2. /\ n.slots = d.slots /\ n.wins = d.wins /\ n.focus = d.focus /\ n.drawn = d.drawn
      /\ n.selected = s /\ n.put = d.put
      /\ n = [slots |-> n.slots, wins |-> n.wins, focus |-> n.focus, drawn |-> n.drawn,
              selected |-> n.selected, put |-> n.put]
  BY <1>1 DEF Typed
<1>3. Typed(n)
  BY <1>1, <1>2 DEF Typed
<1>4. Matched(n) /\ Consistent(n) /\ Clientele(n) = Clientele(d) /\ Shown(n) = Shown(d)
  BY <1>1, <1>2, SameTable
<1>5. Attentive(n, {}, held)
  BY <1>1, <1>2, <1>4 DEF Attentive
<1>. QED
  BY <1>2, <1>3, <1>4, <1>5 DEF Sound, Fresh, Coming

LEMMA DeskKeeps ==
  ASSUME NEW d, NEW held, Sound(d, {}, held), Fresh(d), NEW e, NEW ok \in Answers, NEW n, n = DesktopEvent(d, e, ok)
  PROVE  Sound(n, {}, held) /\ Fresh(n)
<1> DEFINE icon == Icon(e.x, e.y)
           m == IF d.selected = icon THEN Launch(d, icon, Wanted(icon), ok) ELSE d
<1>1. icon \in Icons
  BY DEF Icon, Icons
<1>2. \/ n = d
      \/ icon = "none" /\ n = CloseMenu([d EXCEPT !.selected = icon])
      \/ n = DrawTaskbar([m EXCEPT !.selected = icon])
  BY DEF DesktopEvent
<1>. HIDE DEF icon
<1>3. CASE n = d
  BY <1>3
<1>4. CASE n = CloseMenu([d EXCEPT !.selected = icon])
  <2>1. Sound([d EXCEPT !.selected = icon], {}, held) /\ Fresh([d EXCEPT !.selected = icon])
    BY <1>1, SelectKeeps
  <2>. QED
    BY <1>4, <2>1, MenuKeeps
<1>5. CASE n = DrawTaskbar([m EXCEPT !.selected = icon])
  <2>1. Sound(m, {}, held)
    BY WantedSize, LaunchKeeps
  <2>. HIDE DEF m
  <2>2. Sound([m EXCEPT !.selected = icon], {}, held)
    BY <1>1, <2>1, SelectKeeps
  <2>. QED
    BY <1>5, <2>2, DrawKeeps
<1>. QED
  BY <1>2, <1>3, <1>4, <1>5

----------------------------------------------------------------------------
(* The events in the queues. *)

Requeued(d, n, w, q) ==
    /\ Typed(n)
    /\ n.slots = d.slots /\ n.focus = d.focus /\ n.drawn = d.drawn
    /\ n.put = d.put /\ DOMAIN n.wins = DOMAIN d.wins
    /\ n.wins[w].queue = q /\ \A v \in DOMAIN d.wins : v # w => n.wins[v] = d.wins[v]
    /\ \A v \in DOMAIN d.wins : n.wins[v].geom = d.wins[v].geom

LEMMA QueueEffect ==
  ASSUME NEW d, Typed(d), NEW w \in DOMAIN d.wins, NEW q \in Seq(Events), NEW n,
         n = [d EXCEPT !.wins[w].queue = q]
  PROVE  Requeued(d, n, w, q)
<1>1. /\ d = [slots |-> d.slots, wins |-> d.wins, focus |-> d.focus, drawn |-> d.drawn,
              selected |-> d.selected, put |-> d.put]
      /\ d.wins \in [DOMAIN d.wins -> Windows]
  BY DEF Typed
<1>2. n = [slots |-> d.slots, wins |-> [d.wins EXCEPT ![w].queue = q],
           focus |-> d.focus, drawn |-> d.drawn, selected |-> d.selected, put |-> d.put]
  BY <1>1
<1>3. /\ n.slots = d.slots /\ n.focus = d.focus /\ n.drawn = d.drawn
      /\ n.selected = d.selected /\ n.put = d.put
      /\ n.wins = [d.wins EXCEPT ![w].queue = q]
      /\ n = [slots |-> n.slots, wins |-> n.wins, focus |-> n.focus, drawn |-> n.drawn,
              selected |-> n.selected, put |-> n.put]
  BY <1>2
<1>4. d.wins[w].geom \in Geoms /\ d.wins[w] \in Windows
  BY <1>1 DEF Windows
<1>5. n.wins[w] = [geom |-> d.wins[w].geom, queue |-> q]
  BY <1>3, <1>4 DEF Windows
<1>6. DOMAIN n.wins = DOMAIN d.wins /\ \A v \in DOMAIN d.wins : v # w => n.wins[v] = d.wins[v]
  BY <1>3
<1>7. n.wins \in [DOMAIN n.wins -> Windows]
  <2>1. n.wins[w] \in Windows
    BY <1>4, <1>5 DEF Windows
  <2>. QED
    BY <1>1, <1>3, <1>6, <2>1
<1>8. Typed(n)
  BY <1>3, <1>6, <1>7 DEF Typed
<1>. QED
  BY <1>3, <1>5, <1>6, <1>8 DEF Requeued

\* The event e comes to the window w; the button is held in h afterwards.
Comes(d, w, e, held, h) ==
    /\ e \in Events /\ e.kind \notin FocusKinds
    /\ \A v \in Nat \ {w} : h = v <=> held = v
    /\ \/ e.kind \notin {"press", "release"} /\ h = held
       \/ /\ e.kind = "press" /\ held # w /\ h = w
          /\ d.focus = w \/ \A i \in Clientele(d) : d.slots[i].id = w => d.slots[i].type = "launcher"
       \/ e.kind = "release"
Extended(d, n, w, e) ==
    /\ Typed(n) /\ n.slots = d.slots /\ n.focus = d.focus /\ n.drawn = d.drawn
    /\ n.put = d.put /\ DOMAIN n.wins = DOMAIN d.wins
    /\ \A v \in DOMAIN d.wins :
         /\ n.wins[v].geom = d.wins[v].geom
         /\ v \notin {Desk, Bar} =>
              n.wins[v].queue = IF v = w THEN Append(d.wins[v].queue, e) ELSE d.wins[v].queue

LEMMA EventKeeps ==
  ASSUME NEW d, NEW held, Sound(d, {}, held), NEW w, NEW e, NEW h, Comes(d, w, e, held, h),
         NEW n, Extended(d, n, w, e)
  PROVE  Sound(n, {}, h) /\ (Fresh(d) => Fresh(n))
<1>1. Typed(d) /\ Matched(d) /\ Consistent(d) /\ Attentive(d, {}, held)
  BY DEF Sound
<1>2. Matched(n) /\ Consistent(n) /\ Clientele(n) = Clientele(d) /\ Shown(n) = Shown(d)
  BY <1>1, SameTable DEF Extended
<1>3. ASSUME NEW i \in Clientele(d), d.slots[i].type # "launcher"
      PROVE  Agrees(d.slots[i], n.wins[d.slots[i].id].queue, d.focus, h)
  <2> DEFINE c == d.slots[i]
             q == d.wins[c.id].queue
  <2>1. /\ c.id \in DOMAIN d.wins /\ c.id \notin {Desk, Bar} /\ c.id \in Nat /\ q \in Seq(Events)
    BY <1>1, ClientFacts
  <2>2. Agrees(c, q, d.focus, held)
    BY <1>1, <1>3 DEF Attentive
  <2>3. CASE c.id # w
    <3>1. n.wins[c.id].queue = q
      BY <2>1, <2>3 DEF Extended
    <3>2. h = c.id <=> held = c.id
      BY <2>1, <2>3 DEF Comes
    <3>. QED
      BY <2>2, <3>1, <3>2, HeldAgrees
  <2>4. CASE c.id = w
    <3>1. n.wins[c.id].queue = Append(q, e)
      BY <2>1, <2>4 DEF Extended
    <3>2. /\ e \in Events /\ e.kind \notin FocusKinds
          /\ \/ e.kind \notin {"press", "release"} /\ h = held
             \/ e.kind = "press" /\ d.focus = c.id /\ held # c.id /\ h = c.id
             \/ e.kind = "release"
      BY <1>3, <2>4 DEF Comes
    <3>. QED
      BY <2>1, <2>2, <3>1, <3>2, OtherAgrees
  <2>. QED
    BY <2>3, <2>4
<1>4. Attentive(n, {}, h)
  BY <1>2, <1>3 DEF Attentive, Extended
<1>5. Coming(d) => Coming(n)
  <2>1. ASSUME NEW v \in DOMAIN d.wins \ {Desk, Bar}, ~Lacks(d.wins[v].queue, FocusKinds)
        PROVE  ~Lacks(n.wins[v].queue, FocusKinds)
    <3>1. d.wins[v].queue \in Seq(Events) /\ e \in Events
      BY <1>1 DEF Typed, Windows, Comes
    <3>2. ~Lacks(Append(d.wins[v].queue, e), FocusKinds)
      BY <2>1, <3>1, AppendedEvents
    <3>. QED
      BY <2>1, <3>2 DEF Extended
  <2>. QED
    BY <2>1 DEF Coming, Extended
<1>. QED
  BY <1>2, <1>4, <1>5 DEF Sound, Fresh, Extended

LEMMA SendKeeps ==
  ASSUME NEW d, NEW held, Sound(d, {}, held), NEW w, NEW e, NEW h, Comes(d, w, e, held, h),
         NEW n, n = Send(d, w, e)
  PROVE  Sound(n, {}, h) /\ (Fresh(d) => Fresh(n)) /\ DOMAIN n.wins = DOMAIN d.wins
<1>1. Typed(d) /\ e \in Events
  BY DEF Sound, Comes
<1>2. Extended(d, n, w, e)
  <2>1. /\ Typed(n)
        /\ n.slots = d.slots /\ n.focus = d.focus /\ n.drawn = d.drawn
        /\ n.put = d.put /\ DOMAIN n.wins = DOMAIN d.wins
        /\ \A v \in DOMAIN d.wins :
             /\ n.wins[v].geom = d.wins[v].geom
             /\ n.wins[v].queue = IF v = w /\ v \notin {Desk, Bar}
                                  THEN Append(d.wins[v].queue, e) ELSE d.wins[v].queue
    BY <1>1, SendEffect
  <2>. QED
    BY <2>1 DEF Extended
<1>. QED
  BY <1>2, EventKeeps DEF Extended

\* The event at the head of a queue is taken from it.
LEMMA TakenIs ==
  ASSUME NEW d, Typed(d), NEW w \in DOMAIN d.wins, d.wins[w].queue # <<>>,
         NEW n, n = [d EXCEPT !.wins[w].queue = Tail(@)]
  PROVE  Requeued(d, n, w, Tail(d.wins[w].queue))
<1>1. Tail(d.wins[w].queue) \in Seq(Events)
  <2>1. d.wins[w].queue \in Seq(Events)
    BY DEF Typed, Windows
  <2>. QED
    BY <2>1
<1>2. \A p \in Seq(Events) : Requeued(d, [d EXCEPT !.wins[w].queue = p], w, p)
  BY QueueEffect
<1>. QED
  BY <1>1, <1>2, Zenon

\* What the handler of the event e of the window w finds.
Handed(d, n, w, e, held) ==
    /\ e \in Events
    /\ w \in {Desk, Bar} => Sound(n, {}, held) /\ (Fresh(d) => Fresh(n))
    /\ \A i \in Clientele(d) : d.slots[i].id = w =>
         /\ Sound(n, {i}, held) /\ Facing(n, i, e, held)
         /\ Fresh(d) => Fresh(n) \/ e.kind \in FocusKinds

LEMMA TakenKeeps ==
  ASSUME NEW d, NEW held, Sound(d, {}, held), NEW w \in DOMAIN d.wins, d.wins[w].queue # <<>>,
         NEW e, e = Head(d.wins[w].queue), NEW n, Requeued(d, n, w, Tail(d.wins[w].queue))
  PROVE  Handed(d, n, w, e, held)
<1> DEFINE q == d.wins[w].queue
<1>1. Typed(d) /\ Matched(d) /\ Consistent(d) /\ Attentive(d, {}, held)
  BY DEF Sound
<1>2. q \in Seq(Events) /\ q # <<>>
  BY <1>1 DEF Typed, Windows
<1>3. e \in Events /\ Tail(q) \in Seq(Events)
  BY <1>2, TakenEvent
<1>4. /\ Typed(n)
      /\ n.slots = d.slots /\ n.focus = d.focus /\ n.drawn = d.drawn
      /\ n.put = d.put /\ DOMAIN n.wins = DOMAIN d.wins
      /\ n.wins[w].queue = Tail(q) /\ \A v \in DOMAIN d.wins : v # w => n.wins[v] = d.wins[v]
      /\ \A v \in DOMAIN d.wins : n.wins[v].geom = d.wins[v].geom
  BY DEF Requeued
<1>5. Matched(n) /\ Consistent(n) /\ Clientele(n) = Clientele(d) /\ Shown(n) = Shown(d)
  BY <1>1, <1>4, SameTable
<1>6. ASSUME NEW j \in Clientele(d), d.slots[j].type # "launcher", d.slots[j].id # w
      PROVE  Agrees(n.slots[j], n.wins[n.slots[j].id].queue, n.focus, held)
  <2>1. d.slots[j].id \in DOMAIN d.wins
    BY <1>1, ClientFacts
  <2>2. Agrees(d.slots[j], d.wins[d.slots[j].id].queue, d.focus, held)
    BY <1>1, <1>6 DEF Attentive
  <2>. QED
    BY <1>4, <1>6, <2>1, <2>2
<1>7. ASSUME w \in {Desk, Bar}
      PROVE  Sound(n, {}, held) /\ (Fresh(d) => Fresh(n))
  <2>1. \A j \in Clientele(d) : d.slots[j].id # w
    BY <1>1, <1>7, ClientFacts
  <2>2. Attentive(n, {}, held)
    BY <1>4, <1>5, <1>6, <2>1 DEF Attentive
  <2>3. Coming(d) => Coming(n)
    BY <1>4, <1>7 DEF Coming
  <2>. QED
    BY <1>4, <1>5, <2>2, <2>3 DEF Sound, Fresh
<1>8. ASSUME NEW i \in Clientele(d), d.slots[i].id = w
      PROVE  /\ Sound(n, {i}, held) /\ Facing(n, i, e, held)
             /\ Fresh(d) => Fresh(n) \/ e.kind \in FocusKinds
  <2>1. \A j \in Clientele(d) : j # i => d.slots[j].id # w
    BY <1>1, <1>8 DEF Matched
  <2>2. Sound(n, {i}, held)
    <3>1. Attentive(n, {i}, held)
      BY <1>4, <1>5, <1>6, <2>1 DEF Attentive
    <3>. QED
      BY <1>4, <1>5, <3>1 DEF Sound
  <2>3. Facing(n, i, e, held)
    <3>1. d.slots[i].type = "launcher" \/ Agrees(d.slots[i], q, d.focus, held)
      BY <1>1, <1>8 DEF Attentive
    <3>2. n.slots[i] = d.slots[i] /\ n.wins[n.slots[i].id].queue = Tail(q)
      BY <1>4, <1>8
    <3>3. i \in Clientele(n) /\ e = Head(q)
      BY <1>5
    <3>. HIDE DEF q
    <3>. QED
      BY <1>2, <1>3, <1>4, <3>1, <3>2, <3>3 DEF Facing
  <2>4. ASSUME e.kind \notin FocusKinds, Coming(d) PROVE Coming(n)
    <3>1. PICK v \in DOMAIN d.wins \ {Desk, Bar} : ~Lacks(d.wins[v].queue, FocusKinds)
      BY <2>4 DEF Coming
    <3>2. v = w => ~Lacks(Tail(q), FocusKinds)
      BY <1>2, <2>4, <3>1, TakenEvent
    <3>. QED
      BY <1>4, <3>1, <3>2 DEF Coming
  <2>. QED
    BY <1>4, <1>5, <2>2, <2>3, <2>4 DEF Fresh
<1>. QED
  BY <1>3, <1>7, <1>8 DEF Handed

\* A client's event: the start menu closes first, unless the event is for it.
LEMMA ClientKeeps ==
  ASSUME NEW d, NEW held, NEW i, NEW e, Sound(d, {i}, held), Facing(d, i, e, held),
         Fresh(d) \/ e.kind \in FocusKinds, NEW ok \in Answers, NEW n, n = ClientEvent(d, i, e, ok)
  PROVE  Sound(n, {}, held) /\ Fresh(n)
<1> DEFINE c == d.slots[i]
           m == IF c.type = "launcher" THEN d ELSE CloseMenu(d)
<1>1. i \in Clientele(d) /\ i \in Slots /\ c \in Clients /\ e \in Events
  BY FacingFacts
<1>2. /\ Sound(m, {i}, held) /\ Facing(m, i, e, held) /\ m.slots[i] = c
      /\ Fresh(m) \/ e.kind \in FocusKinds
  <2>1. CASE c.type = "launcher"
    BY <2>1
  <2>2. CASE c.type # "launcher"
    <3>1. m = CloseMenu(d)
      BY <2>2
    <3>. HIDE DEF m
    <3>2. Sound(m, {i}, held) /\ (Fresh(d) => Fresh(m)) /\ Untouched(d, m, i)
      BY <1>1, <2>2, <3>1, MenuKeeps
    <3>3. /\ m.slots[i] = c /\ m.wins[c.id] = d.wins[c.id]
          /\ m.focus = c.id <=> d.focus = c.id
      BY <3>2 DEF Untouched
    <3>4. PICK q \in Seq(Events) : /\ q # <<>> /\ Head(q) = e /\ Tail(q) = d.wins[c.id].queue
                                   /\ Agrees(c, q, d.focus, held)
      BY <2>2 DEF Facing
    <3>5. Agrees(c, q, m.focus, held)
      BY <3>3, <3>4, StillAgrees
    <3>6. i \in Clientele(m)
      BY <1>1, <3>3 DEF Clientele
    <3>7. Facing(m, i, e, held)
      BY <1>1, <3>3, <3>4, <3>5, <3>6 DEF Facing
    <3>. QED
      BY <3>2, <3>3, <3>7
  <2>. QED
    BY <2>1, <2>2
<1>3. /\ e.kind = "gained" => n = OnFocus(m, i, TRUE)
      /\ e.kind = "lost" => n = OnFocus(m, i, FALSE)
      /\ e.kind = "press" /\ c.type = "launcher" => n = LauncherClick(m, e, ok)
      /\ e.kind = "press" /\ c.type # "launcher" => n = OnPress(m, i, e, ok)
      /\ e.kind = "release" => n = OnRelease(m, i)
      /\ e.kind = "move" => n = OnMove(m, i, e, ok)
      /\ e.kind \notin {"gained", "lost", "press", "release", "move"} => n = m
  <2>. HIDE DEF m
  <2>. QED
    BY DEF ClientEvent, m
<1>. HIDE DEF m
<1>4. CASE e.kind = "gained"
  BY <1>2, <1>3, <1>4, GainKeeps
<1>5. CASE e.kind = "lost"
  BY <1>2, <1>3, <1>5, LossKeeps
<1>6. CASE e.kind = "press"
  <2>1. Fresh(m)
    BY <1>2, <1>6 DEF FocusKinds
  <2>2. CASE c.type = "launcher"
    <3>1. Attends(m, i, held) /\ {i} \ {i} = {}
      BY <1>2, <2>2 DEF Attends
    <3>2. Sound(m, {}, held)
      BY <1>2, <3>1, AttendsAll
    <3>3. n = LauncherClick(m, e, ok)
      BY <1>3, <1>6, <2>2
    <3>. QED
      BY <2>1, <3>2, <3>3, MenuClickKeeps
  <2>3. CASE c.type # "launcher"
    BY <1>2, <1>3, <1>6, <2>1, <2>3, PressKeeps
  <2>. QED
    BY <2>2, <2>3
<1>7. CASE e.kind = "release"
  <2>1. Fresh(m)
    BY <1>2, <1>7 DEF FocusKinds
  <2>. QED
    BY <1>2, <1>3, <1>7, <2>1, ReleaseKeeps
<1>8. CASE e.kind = "move"
  <2>1. Fresh(m)
    BY <1>2, <1>8 DEF FocusKinds
  <2>. QED
    BY <1>2, <1>3, <1>8, <2>1, MoveKeeps
<1>9. CASE e.kind \notin {"gained", "lost", "press", "release", "move"}
  <2>1. Fresh(m) /\ n = m
    BY <1>2, <1>3, <1>9 DEF FocusKinds
  <2>2. Follows(m.slots[i], e, m.slots[i])
    BY <1>9 DEF Follows
  <2>. QED
    BY <1>2, <2>1, <2>2, IdleFacing
<1>. QED
  BY <1>4, <1>5, <1>6, <1>7, <1>8, <1>9

----------------------------------------------------------------------------
(* The steps of the loop, of the user and of the kernel. *)

LEMMA BecomesIs ==
  ASSUME NEW d, Typed(d), Becomes(d)
  PROVE  Now' = d
BY DEF Typed, Becomes, Now

LEMMA NowIs ==
  /\ Now.slots = slots /\ Now.wins = wins /\ Now.focus = focus /\ Now.drawn = drawn
  /\ Now.selected = selected /\ Now.put = put
BY DEF Now

\* A step that leaves the program running.
LEMMA Running ==
  ASSUME pc' \in {"poll", "sleep"}, at' \in 0 .. SlotMax + 1, tries' \in 0 .. MaxTries,
         inputs' \in 0 .. MaxInputs, NEW d, Becomes(d), Sound(d, {}, down'), Fresh(d),
         down' \in DOMAIN d.wins \cup {NoWin}
  PROVE  DesktopInv'
<1>1. Typed(d)
  BY DEF Sound
<1>2. Now' = d
  BY <1>1, BecomesIs
<1>3. wins' = d.wins
  BY DEF Becomes
<1>4. RunInv'
  BY <1>3 DEF RunInv
<1>5. Typed(Now)' /\ Fresh(Now)' /\ Sound(Now, {}, down)'
  BY <1>1, <1>2
<1>. QED
  BY <1>4, <1>5 DEF DesktopInv

LEMMA RunningNow ==
  ASSUME DesktopInv, pc \in {"poll", "sleep"}
  PROVE  /\ Sound(Now, {}, down) /\ Typed(Now) /\ Matched(Now) /\ Fresh(Now) /\ RunInv
         /\ at \in 0 .. SlotMax + 1 /\ tries \in 0 .. MaxTries /\ inputs \in 0 .. MaxInputs
         /\ down \in DOMAIN wins \cup {NoWin} /\ focus \in DOMAIN wins \cup {NoWin}
<1>1. /\ Sound(Now, {}, down) /\ Fresh(Now) /\ RunInv
  BY DEF DesktopInv
<1>2. Typed(Now) /\ Matched(Now)
  BY <1>1 DEF Sound
<1>3. focus \in DOMAIN wins \cup {NoWin}
  BY <1>2, NowIs DEF Typed
<1>. QED
  BY <1>1, <1>2, <1>3 DEF RunInv

LEMMA SameNow ==
  ASSUME DesktopInv, pc \in {"poll", "sleep"}
  PROVE  UNCHANGED desktop => Becomes(Now)
BY NowIs DEF Becomes, desktop

LEMMA Starts == Init => DesktopInv
<1>. SUFFICES ASSUME Init PROVE DesktopInv
  OBVIOUS
<1>1. /\ slots = [i \in Slots |-> NoClient] /\ put = [i \in Slots |-> Unknown]
      /\ wins = [w \in {} |-> 0] /\ focus = NoWin
      /\ drawn = [start |-> FALSE, buttons |-> <<>>] /\ selected = "none"
      /\ pc = "boot" /\ at = 0 /\ tries = 0 /\ down = NoWin /\ inputs = 0
  BY DEF Init
<1>2. DOMAIN wins = {}
  BY <1>1
<1>3. Typed(Now)
  <2>1. /\ slots \in [Slots -> Clients \cup {NoClient}] /\ put \in [Slots -> Geoms \cup {Unknown}]
        /\ selected \in Icons /\ focus \in DOMAIN wins \cup {NoWin}
    BY <1>1 DEF Icons
  <2>2. wins \in [DOMAIN wins -> Windows]
    BY <1>1, <1>2
  <2>. QED
    BY <2>1, <2>2, NowIs DEF Typed, Now
<1>4. Clientele(Now) = {} /\ Tasks(Now) = {}
  BY <1>1, NowIs DEF Clientele, Tasks
<1>5. Unborn(Now)
  BY <1>1, <1>2, <1>4, NowIs DEF Unborn
<1>6. Shown(Now) = drawn
  <2>1. IndexByType(Now, "launcher") = 0
    BY <1>4, IndexFacts DEF Clientele
  <2>2. Cardinality(Tasks(Now)) = 0
    BY <1>4, FS_EmptySet
  <2>3. [k \in 1 .. 0 |-> Face(Now.slots[ButtonSlot(Now, k)])] = <<>>
    OBVIOUS
  <2>. QED
    BY <1>1, <2>1, <2>2, <2>3 DEF Shown
<1>7. Fresh(Now)
  BY <1>6, NowIs DEF Fresh
<1>8. RunInv
  BY <1>1, BoundAssumption DEF RunInv
<1>. QED
  BY <1>1, <1>3, <1>5, <1>7, <1>8 DEF DesktopInv

\* While the program starts there is no window.
LEMMA BootNow ==
  ASSUME DesktopInv, pc = "boot"
  PROVE  /\ Typed(Now) /\ Unborn(Now) /\ RunInv /\ wins = [w \in {} |-> 0]
         /\ drawn = Shown(Now) /\ focus = NoWin /\ DOMAIN wins = {} /\ Clientele(Now) = {}
<1>1. Typed(Now) /\ Unborn(Now) /\ RunInv /\ Fresh(Now)
  BY DEF DesktopInv
<1>2. focus = NoWin /\ DOMAIN wins = {} /\ Clientele(Now) = {}
  BY <1>1, NowIs DEF Unborn
<1>3. wins = [w \in {} |-> 0]
  <2>1. wins \in [DOMAIN wins -> Windows]
    BY <1>1, NowIs DEF Typed
  <2>. QED
    BY <1>2, <2>1
<1>4. drawn = Shown(Now)
  BY <1>1, <1>2, NowIs DEF Fresh, Coming
<1>. QED
  BY <1>1, <1>2, <1>3, <1>4

LEMMA Boots == ASSUME DesktopInv, BootWindows PROVE DesktopInv'
<1> DEFINE a == Rect(0, 0, SurfaceW, SurfaceH)
           b == Rect(0, SurfaceH - TASKBAR_H, SurfaceW, TASKBAR_H)
           d == Create(Create(Now, Desk, a), Bar, b)
<1>1. /\ Typed(Now) /\ Unborn(Now) /\ RunInv /\ wins = [w \in {} |-> 0]
      /\ drawn = Shown(Now) /\ focus = NoWin /\ DOMAIN wins = {} /\ Clientele(Now) = {}
  BY BootNow DEF BootWindows
<1>2. a \in Geoms /\ b \in Geoms
  BY ScreenAssumption DEF Geoms, Rect, TASKBAR_H
<1>3. Becomes(d) /\ pc' = "poll" /\ UNCHANGED <<at, tries, down, inputs>>
  BY DEF BootWindows
<1>. HIDE DEF a, b
<1>4. /\ d.slots = slots /\ d.focus = focus /\ d.drawn = drawn /\ d.selected = selected /\ d.put = put
      /\ d = [slots |-> d.slots, wins |-> d.wins, focus |-> d.focus, drawn |-> d.drawn,
              selected |-> d.selected, put |-> d.put]
      /\ DOMAIN d.wins = {Desk, Bar} /\ \A w \in {Desk, Bar} : d.wins[w] \in Windows
      /\ d.wins \in [DOMAIN d.wins -> Windows]
  <2> DEFINE e == [geom |-> a, queue |-> <<>>]
             f == [geom |-> b, queue |-> <<>>]
             u == [v \in {Desk} |-> e]
             t == [v \in {Desk, Bar} |-> IF v = Bar THEN f ELSE u[v]]
  <2>1. e \in Windows /\ f \in Windows
    BY <1>2 DEF Windows
  <2>. HIDE DEF e, f
  <2>2. ASSUME NEW z, z = Create(Now, Desk, a)
        PROVE  z = [slots |-> slots, wins |-> u, focus |-> focus, drawn |-> drawn,
                    selected |-> selected, put |-> put]
    <3>1. z = [slots |-> slots,
               wins |-> [v \in DOMAIN wins \cup {Desk} |-> IF v = Desk THEN e ELSE wins[v]],
               focus |-> focus, drawn |-> drawn, selected |-> selected, put |-> put]
      BY <2>2 DEF Create, Now, e
    <3>2. [v \in DOMAIN wins \cup {Desk} |-> IF v = Desk THEN e ELSE wins[v]] = u
      BY <1>1
    <3>. QED
      BY <3>1, <3>2
  <2>3. ASSUME NEW z, z = [slots |-> slots, wins |-> u, focus |-> focus, drawn |-> drawn,
                           selected |-> selected, put |-> put],
               NEW y, y = Create(z, Bar, b)
        PROVE  y = [slots |-> slots, wins |-> t, focus |-> focus, drawn |-> drawn,
                    selected |-> selected, put |-> put]
    <3>1. y = [slots |-> slots,
               wins |-> [v \in DOMAIN u \cup {Bar} |-> IF v = Bar THEN f ELSE u[v]],
               focus |-> focus, drawn |-> drawn, selected |-> selected, put |-> put]
      BY <2>3 DEF Create, f
    <3>2. DOMAIN u \cup {Bar} = {Desk, Bar}
      OBVIOUS
    <3>. QED
      BY <3>1, <3>2
  <2>. HIDE DEF t, u
  <2>4. d = [slots |-> slots, wins |-> t, focus |-> focus, drawn |-> drawn,
             selected |-> selected, put |-> put]
    BY <2>2, <2>3
  <2>. HIDE DEF d
  <2>5. /\ d.slots = slots /\ d.focus = focus /\ d.drawn = drawn /\ d.selected = selected /\ d.put = put
        /\ d.wins = t
        /\ d = [slots |-> d.slots, wins |-> d.wins, focus |-> d.focus, drawn |-> d.drawn,
                selected |-> d.selected, put |-> d.put]
    BY <2>4
  <2>6. t \in [{Desk, Bar} -> Windows] /\ DOMAIN t = {Desk, Bar}
    BY <2>1 DEF t, u, Desk, Bar
  <2>. QED
    BY <2>5, <2>6
<1>. HIDE DEF d
<1>5. Typed(d)
  BY <1>1, <1>4, NowIs DEF Typed
<1>6. Clientele(d) = {} /\ Shown(d) = Shown(Now)
  <2>1. d.slots = Now.slots
    BY <1>4, NowIs
  <2>2. Clientele(d) = {}
    BY <1>1, <2>1 DEF Clientele
  <2>. QED
    BY <2>1, <2>2, ShownSame
<1>7. Matched(d) /\ Consistent(d) /\ Attentive(d, {}, down')
  BY <1>4, <1>6 DEF Matched, Consistent, Attentive
<1>8. Sound(d, {}, down') /\ Fresh(d)
  BY <1>1, <1>4, <1>5, <1>6, <1>7 DEF Sound, Fresh
<1>9. down' \in DOMAIN d.wins \cup {NoWin}
  BY <1>1, <1>3 DEF RunInv
<1>10. at' \in 0 .. SlotMax + 1 /\ tries' \in 0 .. MaxTries /\ inputs' \in 0 .. MaxInputs
  BY <1>1, <1>3 DEF RunInv
<1>. QED
  BY <1>3, <1>8, <1>9, <1>10, Running

LEMMA BootRepeats == ASSUME DesktopInv, BootFails PROVE DesktopInv'
<1> DEFINE a == Rect(0, 0, SurfaceW, SurfaceH)
           d == Destroy(Create(Now, Desk, a), Desk)
<1>1. /\ Typed(Now) /\ Unborn(Now) /\ RunInv /\ wins = [w \in {} |-> 0]
      /\ drawn = Shown(Now) /\ focus = NoWin /\ DOMAIN wins = {} /\ Clientele(Now) = {}
  BY BootNow DEF BootFails
<1>2. /\ pc = "boot"
      /\ UNCHANGED desktop \/ Becomes(d)
      /\ tries' = tries + 1 /\ pc' = IF tries' < MaxTries THEN "boot" ELSE "stopped"
      /\ UNCHANGED <<at, down, inputs>>
  BY DEF BootFails
<1>3. d.slots = slots /\ d.wins = wins /\ d.focus = focus /\ d.drawn = drawn
      /\ d.selected = selected /\ d.put = put
  <2>. HIDE DEF a
  <2>1. ASSUME NEW z, z = Create(Now, Desk, a)
        PROVE  /\ z.slots = slots /\ DOMAIN z.wins = {Desk} /\ z.focus = focus /\ z.drawn = drawn
               /\ z.selected = selected /\ z.put = put
               /\ z = [slots |-> z.slots, wins |-> z.wins, focus |-> z.focus, drawn |-> z.drawn,
                       selected |-> z.selected, put |-> z.put]
    BY <1>1, <2>1 DEF Create, Now
  <2>2. ASSUME NEW z, DOMAIN z.wins = {Desk},
               z = [slots |-> z.slots, wins |-> z.wins, focus |-> z.focus, drawn |-> z.drawn,
                    selected |-> z.selected, put |-> z.put],
               NEW y, y = Destroy(z, Desk)
        PROVE  /\ y.slots = z.slots /\ y.drawn = z.drawn /\ y.selected = z.selected /\ y.put = z.put
               /\ y.focus = IF z.focus = Desk THEN NoWin ELSE z.focus
               /\ y.wins = [w \in {} |-> 0]
    <3>1. /\ y.slots = z.slots /\ y.drawn = z.drawn /\ y.selected = z.selected /\ y.put = z.put
          /\ y.focus = IF z.focus = Desk THEN NoWin ELSE z.focus
          /\ y.wins = [v \in DOMAIN z.wins \ {Desk} |-> z.wins[v]]
      BY <2>2 DEF Destroy
    <3>2. DOMAIN z.wins \ {Desk} = {}
      BY <2>2
    <3>. QED
      BY <3>1, <3>2
  <2>. QED
    BY <1>1, <2>1, <2>2
<1>. HIDE DEF d
<1>4. Now' = Now /\ wins' = wins
  BY <1>2, <1>3 DEF Becomes, desktop, Now
<1>5. pc' \in {"boot", "stopped"} /\ tries' \in 0 .. MaxTries /\ (pc' = "boot" => tries' < MaxTries)
  BY <1>1, <1>2, BoundAssumption DEF RunInv
<1>6. RunInv'
  BY <1>1, <1>2, <1>4, <1>5 DEF RunInv
<1>7. Typed(Now)' /\ Fresh(Now)' /\ Unborn(Now)'
  BY <1>1, <1>4, NowIs DEF Fresh
<1>. QED
  BY <1>5, <1>6, <1>7 DEF DesktopInv

\* The window the button is held in may have gone.
LEMMA DownKeeps ==
  ASSUME NEW d, NEW held, Sound(d, {}, held), NEW h, h = IF held \in DOMAIN d.wins THEN held ELSE NoWin
  PROVE  Sound(d, {}, h)
<1>1. Typed(d) /\ Matched(d) /\ Consistent(d) /\ Attentive(d, {}, held)
  BY DEF Sound
<1>2. ASSUME NEW i \in Clientele(d), d.slots[i].type # "launcher"
      PROVE  Agrees(d.slots[i], d.wins[d.slots[i].id].queue, d.focus, h)
  <2>1. d.slots[i].id \in DOMAIN d.wins /\ d.slots[i].id # NoWin
    BY <1>1, ClientFacts
  <2>2. h = d.slots[i].id <=> held = d.slots[i].id
    BY <2>1
  <2>. QED
    BY <1>1, <1>2, <2>2, HeldAgrees DEF Attentive
<1>. QED
  BY <1>1, <1>2 DEF Sound, Attentive

\* Handlers.
LEMMA Handles == ASSUME DesktopInv, HandleEvent PROVE DesktopInv'
<1> DEFINE w == Polled(at)
           e == Head(wins[w].queue)
           i == at - 1
<1>1. pc = "poll" /\ Waiting(w) /\ pc' = "poll"
  BY DEF HandleEvent
<1>2. /\ Sound(Now, {}, down) /\ Typed(Now) /\ Matched(Now) /\ Fresh(Now) /\ RunInv
      /\ at \in 0 .. SlotMax + 1 /\ tries \in 0 .. MaxTries /\ inputs \in 0 .. MaxInputs
      /\ down \in DOMAIN wins \cup {NoWin} /\ focus \in DOMAIN wins \cup {NoWin}
  BY <1>1, RunningNow
<1>3. PICK ok \in Answers :
        Becomes(IF at = 0 THEN TaskbarEvent(Taken(Bar), e, ok)
                ELSE IF at = 1 THEN DesktopEvent(Taken(Desk), e, ok)
                ELSE ClientEvent(Taken(w), i, e, ok))
  BY DEF HandleEvent
<1>4. /\ at = 0 => w = Bar
      /\ at = 1 => w = Desk
      /\ at \notin {0, 1} => i \in Clientele(Now) /\ Now.slots[i].id = w
  <2>1. at \notin {0, 1} => slots[i] # NoClient /\ w = slots[i].id
    BY <1>1 DEF Polled, Waiting
  <2>2. at \notin {0, 1} => i \in Slots
    BY <1>2, BoundAssumption DEF Slots
  <2>. QED
    BY <2>1, <2>2, NowIs DEF Polled, Clientele
<1>5. w \in DOMAIN Now.wins
  <2>1. Desk \in DOMAIN Now.wins /\ Bar \in DOMAIN Now.wins
    BY <1>2 DEF Matched
  <2>2. \A j \in Clientele(Now) : Now.slots[j].id \in DOMAIN Now.wins
    BY <1>2 DEF Matched
  <2>. QED
    BY <1>4, <2>1, <2>2
<1>6. Now.wins[w].queue # <<>> /\ e = Head(Now.wins[w].queue)
  BY <1>1, NowIs DEF Waiting
<1>. HIDE DEF w, e, i
<1>7. Requeued(Now, Taken(w), w, Tail(Now.wins[w].queue))
  BY <1>2, <1>5, <1>6, TakenIs DEF Taken
<1>8. /\ e \in Events
      /\ w \in {Desk, Bar} => Sound(Taken(w), {}, down) /\ Fresh(Taken(w))
      /\ \A j \in Clientele(Now) : Now.slots[j].id = w =>
           /\ Sound(Taken(w), {j}, down) /\ Facing(Taken(w), j, e, down)
           /\ Fresh(Taken(w)) \/ e.kind \in FocusKinds
  <2>1. Handed(Now, Taken(w), w, e, down)
    BY <1>2, <1>5, <1>6, <1>7, TakenKeeps
  <2>. QED
    BY <1>2, <2>1 DEF Handed
<1>9. PICK n : Becomes(n) /\ Sound(n, {}, down) /\ Fresh(n)
  <2>1. CASE at = 0
    <3>1. Becomes(TaskbarEvent(Taken(Bar), e, ok))
      BY <1>3, <2>1
    <3>2. Sound(Taken(Bar), {}, down) /\ Fresh(Taken(Bar))
      BY <1>4, <1>8, <2>1
    <3>. QED
      BY <3>1, <3>2, BarKeeps
  <2>2. CASE at = 1
    <3>1. Becomes(DesktopEvent(Taken(Desk), e, ok))
      BY <1>3, <2>2
    <3>2. Sound(Taken(Desk), {}, down) /\ Fresh(Taken(Desk))
      BY <1>4, <1>8, <2>2
    <3>. QED
      BY <3>1, <3>2, DeskKeeps
  <2>3. CASE at \notin {0, 1}
    <3>1. Becomes(ClientEvent(Taken(w), i, e, ok))
      BY <1>3, <2>3
    <3>2. /\ Sound(Taken(w), {i}, down) /\ Facing(Taken(w), i, e, down)
          /\ Fresh(Taken(w)) \/ e.kind \in FocusKinds
      BY <1>4, <1>8, <2>3
    <3>. QED
      BY <3>1, <3>2, ClientKeeps
  <2>. QED
    BY <2>1, <2>2, <2>3
<1>10. wins' = n.wins
  BY <1>9 DEF Becomes
<1>11. down' = IF down \in DOMAIN n.wins THEN down ELSE NoWin
  BY <1>10 DEF HandleEvent
<1>12. Sound(n, {}, down')
  BY <1>9, <1>11, DownKeeps
<1>13. UNCHANGED <<at, tries, inputs>> /\ down' \in DOMAIN n.wins \cup {NoWin}
  BY <1>11 DEF HandleEvent
<1>. QED
  BY <1>1, <1>2, <1>9, <1>12, <1>13, Running

LEMMA FindsNothing == ASSUME DesktopInv, QueueEmpty PROVE DesktopInv'
<1> DEFINE later == {k \in at + 1 .. SlotMax + 1 : Waiting(Polled(k))}
<1>1. /\ pc = "poll" /\ pc' \in {"poll", "sleep"} /\ at' = Least(later)
      /\ UNCHANGED <<desktop, tries, down, inputs>>
  BY DEF QueueEmpty
<1>2. /\ Sound(Now, {}, down) /\ Typed(Now) /\ Matched(Now) /\ Fresh(Now) /\ RunInv
      /\ at \in 0 .. SlotMax + 1 /\ tries \in 0 .. MaxTries /\ inputs \in 0 .. MaxInputs
      /\ down \in DOMAIN wins \cup {NoWin} /\ focus \in DOMAIN wins \cup {NoWin}
  BY <1>1, RunningNow
<1>3. at' \in 0 .. SlotMax + 1
  <2>1. later \in SUBSET (0 .. SlotMax + 1) /\ later \in SUBSET Nat
    BY <1>2, BoundAssumption
  <2>. HIDE DEF later
  <2>2. CASE later = {}
    BY <1>1, <2>2, BoundAssumption DEF Least
  <2>3. CASE later # {}
    <3>1. Least(later) \in later
      BY <2>1, <2>3, LeastNumber DEF Least
    <3>. QED
      BY <1>1, <2>1, <3>1
  <2>. QED
    BY <2>2, <2>3
<1>4. Becomes(Now)
  BY <1>1, SameNow
<1>. QED
  BY <1>1, <1>2, <1>3, <1>4, NowIs, Running

LEMMA Refreshes == ASSUME DesktopInv, Refresh PROVE DesktopInv'
<1>1. /\ pc = "sleep" /\ pc' = "poll"
      /\ UNCHANGED desktop \/ Becomes(DrawTaskbar(Now))
      /\ UNCHANGED <<at, tries, down, inputs>>
  BY DEF Refresh
<1>2. /\ Sound(Now, {}, down) /\ Typed(Now) /\ Matched(Now) /\ Fresh(Now) /\ RunInv
      /\ at \in 0 .. SlotMax + 1 /\ tries \in 0 .. MaxTries /\ inputs \in 0 .. MaxInputs
      /\ down \in DOMAIN wins \cup {NoWin} /\ focus \in DOMAIN wins \cup {NoWin}
  BY <1>1, RunningNow
<1>3. CASE UNCHANGED desktop
  <2>1. Becomes(Now)
    BY <1>1, <1>3, SameNow
  <2>. QED
    BY <1>1, <1>2, <2>1, NowIs, Running
<1>4. CASE Becomes(DrawTaskbar(Now))
  <2>1. Sound(DrawTaskbar(Now), {}, down) /\ Fresh(DrawTaskbar(Now)) /\ DrawTaskbar(Now).wins = wins
    BY <1>2, NowIs, DrawKeeps
  <2>. QED
    BY <1>1, <1>2, <1>4, <2>1, Running
<1>. QED
  BY <1>1, <1>3, <1>4

\* An event comes to a window that has one, or none.
LEMMA Receives ==
  ASSUME DesktopInv, pc \in {"poll", "sleep"}, UNCHANGED <<pc, at, tries>>, inputs' \in 0 .. MaxInputs,
         NEW w, NEW e, Comes(Now, w, e, down, down'), down' \in DOMAIN wins \cup {NoWin},
         Becomes(Send(Now, w, e))
  PROVE  DesktopInv'
<1> DEFINE n == Send(Now, w, e)
<1>1. /\ Sound(Now, {}, down) /\ Typed(Now) /\ Matched(Now) /\ Fresh(Now) /\ RunInv
      /\ at \in 0 .. SlotMax + 1 /\ tries \in 0 .. MaxTries /\ inputs \in 0 .. MaxInputs
      /\ down \in DOMAIN wins \cup {NoWin} /\ focus \in DOMAIN wins \cup {NoWin}
  BY RunningNow
<1>2. Sound(n, {}, down') /\ (Fresh(Now) => Fresh(n)) /\ DOMAIN n.wins = DOMAIN Now.wins
  BY <1>1, SendKeeps
<1>. HIDE DEF n
<1>3. Becomes(n)
  BY DEF n
<1>. QED
  BY <1>1, <1>2, <1>3, NowIs, Running

LEMMA Releases == ASSUME DesktopInv, UserRelease PROVE DesktopInv'
<1>1. /\ pc \in {"poll", "sleep"} /\ UNCHANGED <<pc, at, tries, inputs>> /\ down' = NoWin
      /\ Becomes(Send(Now, down, Release))
  BY DEF UserRelease, MayAct
<1>2. inputs \in 0 .. MaxInputs
  BY <1>1, RunningNow
<1>3. Comes(Now, down, Release, down, down')
  BY <1>1, KindsOf, NoneAssumption DEF Comes, FocusKinds
<1>. QED
  BY <1>1, <1>2, <1>3, Receives

LEMMA MovesOn == ASSUME DesktopInv, NEW p \in Cursors, UserMoves(p) PROVE DesktopInv'
<1>1. /\ pc \in {"poll", "sleep"} /\ UNCHANGED <<pc, at, tries, down>> /\ Counts
      /\ Becomes(Send(Now, down, MoveTo(p)))
  BY DEF UserMoves, MayAct
<1>2. inputs \in 0 .. MaxInputs /\ down \in DOMAIN wins \cup {NoWin}
  BY <1>1, RunningNow
<1>3. inputs' \in 0 .. MaxInputs
  BY <1>1, <1>2, BoundAssumption DEF Counts
<1>4. Comes(Now, down, MoveTo(p), down, down')
  BY <1>1, SpotsAssumption, KindsOf DEF Comes, FocusKinds
<1>. QED
  BY <1>1, <1>2, <1>3, <1>4, Receives

LEMMA TypesKey == ASSUME DesktopInv, UserTypes PROVE DesktopInv'
<1>1. /\ pc \in {"poll", "sleep"} /\ UNCHANGED <<pc, at, tries, down>> /\ Counts
      /\ Becomes(Send(Now, focus, Key))
  BY DEF UserTypes, MayAct
<1>2. inputs \in 0 .. MaxInputs /\ down \in DOMAIN wins \cup {NoWin}
  BY <1>1, RunningNow
<1>3. inputs' \in 0 .. MaxInputs
  BY <1>1, <1>2, BoundAssumption DEF Counts
<1>4. Comes(Now, focus, Key, down, down')
  BY <1>1, KindsOf DEF Comes, FocusKinds
<1>. QED
  BY <1>1, <1>2, <1>3, <1>4, Receives

LEMMA Refocuses == ASSUME DesktopInv, NEW w \in DOMAIN wins, Refocus(w) PROVE DesktopInv'
<1> DEFINE n == Focus(Now, w)
<1>1. /\ pc \in {"poll", "sleep"} /\ UNCHANGED <<pc, at, tries, down, inputs>> /\ Becomes(n)
  BY DEF Refocus
<1>2. /\ Sound(Now, {}, down) /\ Typed(Now) /\ Matched(Now) /\ Fresh(Now) /\ RunInv
      /\ at \in 0 .. SlotMax + 1 /\ tries \in 0 .. MaxTries /\ inputs \in 0 .. MaxInputs
      /\ down \in DOMAIN wins \cup {NoWin} /\ focus \in DOMAIN wins \cup {NoWin}
  BY <1>1, RunningNow
<1>3. Sound(n, {}, down) /\ (Fresh(Now) => Fresh(n)) /\ DOMAIN n.wins = DOMAIN Now.wins
  BY <1>2, NowIs, FocusKeeps
<1>. HIDE DEF n
<1>. QED
  BY <1>1, <1>2, <1>3, NowIs, Running

\* A press, in the part of a window that the user can reach.
LEMMA PressSpots ==
  ASSUME Typed(Now), NEW w \in DOMAIN wins, NEW p \in SpotsOf(w)
  PROVE  p.x \in Nat /\ p.y \in Nat
<1>1. wins[w].geom \in Geoms
  BY NowIs DEF Typed, Windows
<1>2. wins[w].geom.w \in Nat
  BY <1>1, ScreenAssumption DEF Geoms
<1>3. p \in Points
  <2>1. ASSUME NEW r \in Nat, r <= wins[w].geom.w
        PROVE  [x |-> wins[w].geom.w - r, y |-> 10] \in Points
    BY <1>2, <2>1 DEF Points
  <2>2. {[x |-> wins[w].geom.w - r, y |-> 10] : r \in {q \in EdgeSpots : q <= wins[w].geom.w}} \subseteq Points
    BY <2>1, SpotsAssumption
  <2>. QED
    BY <2>2, SpotsAssumption DEF SpotsOf
<1>. QED
  BY <1>3 DEF Points

LEMMA AppendIs ==
  ASSUME NEW d, Typed(d), NEW w \in DOMAIN d.wins, NEW e \in Events,
         NEW n, n = [d EXCEPT !.wins[w].queue = Append(@, e)]
  PROVE  Extended(d, n, w, e)
<1>1. Append(d.wins[w].queue, e) \in Seq(Events)
  <2>1. d.wins[w].queue \in Seq(Events)
    BY DEF Typed, Windows
  <2>. QED
    BY <2>1
<1>2. \A p \in Seq(Events) : Requeued(d, [d EXCEPT !.wins[w].queue = p], w, p)
  BY QueueEffect
<1>3. Requeued(d, n, w, Append(d.wins[w].queue, e))
  BY <1>1, <1>2, Zenon
<1>. QED
  BY <1>3 DEF Requeued, Extended

LEMMA Presses == ASSUME DesktopInv, NEW w \in DOMAIN wins, NEW p \in SpotsOf(w), UserPress(w, p) PROVE DesktopInv'
<1> DEFINE e == Press(p.x, p.y)
<1>1. /\ pc \in {"poll", "sleep"} /\ UNCHANGED <<pc, at, tries>> /\ Counts /\ down = NoWin /\ down' = w
  BY DEF UserPress, MayAct
<1>2. /\ Sound(Now, {}, down) /\ Typed(Now) /\ Matched(Now) /\ Fresh(Now) /\ RunInv
      /\ at \in 0 .. SlotMax + 1 /\ tries \in 0 .. MaxTries /\ inputs \in 0 .. MaxInputs
      /\ down \in DOMAIN wins \cup {NoWin} /\ focus \in DOMAIN wins \cup {NoWin}
  BY <1>1, RunningNow
<1>3. inputs' \in 0 .. MaxInputs
  BY <1>1, <1>2, BoundAssumption DEF Counts
<1>4. e \in Events /\ e.kind = "press"
  BY <1>2, PressSpots, KindsOf
<1>5. PICK d \in {Focus(Now, w)} \cup (IF w = Bar \/ IsMenu(w) THEN {Now} ELSE {}) :
             Becomes([d EXCEPT !.wins[w].queue = Append(@, e)])
  BY DEF UserPress
<1>. HIDE DEF e
<1>6. w # NoWin
  <2>1. DOMAIN wins = {Desk, Bar} \cup {Now.slots[i].id : i \in Clientele(Now)}
    BY <1>2, NowIs DEF Matched
  <2>2. \A i \in Clientele(Now) : Now.slots[i].id # NoWin
    BY <1>2, ClientFacts
  <2>3. Desk # NoWin /\ Bar # NoWin
    BY NoneAssumption DEF Desk, Bar
  <2>. QED
    BY <2>1, <2>2, <2>3
<1>7. /\ Sound(d, {}, down) /\ Fresh(d) /\ w \in DOMAIN d.wins
      /\ d.focus = w \/ \A i \in Clientele(d) : d.slots[i].id = w => d.slots[i].type = "launcher"
  <2>1. CASE d = Focus(Now, w)
    <3>1. w \in DOMAIN Now.wins
      BY NowIs
    <3>. QED
      BY <1>2, <2>1, <3>1, FocusKeeps
  <2>2. CASE d = Now /\ w = Bar
    <3>1. \A i \in Clientele(Now) : Now.slots[i].id # Bar
      BY <1>2, ClientFacts
    <3>. QED
      BY <1>2, <2>2, <3>1, NowIs
  <2>3. CASE d = Now /\ IsMenu(w)
    <3>1. PICK j \in Clientele(Now) : Now.slots[j].id = w /\ Now.slots[j].type = "launcher"
      BY <2>3, NowIs DEF IsMenu, Clientele
    <3>2. \A i \in Clientele(Now) : i # j => Now.slots[i].id # w
      BY <1>2, <3>1 DEF Matched
    <3>. QED
      BY <1>2, <2>3, <3>1, <3>2, NowIs
  <2>. QED
    BY <1>5, <2>1, <2>2, <2>3
<1>8. Comes(d, w, e, down, down')
  <2>1. \A v \in Nat \ {w} : down' = v <=> down = v
    BY <1>1, NoneAssumption
  <2>2. e.kind \notin FocusKinds
    BY <1>4 DEF FocusKinds
  <2>. QED
    BY <1>1, <1>4, <1>6, <1>7, <2>1, <2>2 DEF Comes
<1> DEFINE n == [d EXCEPT !.wins[w].queue = Append(@, e)]
<1>9. Extended(d, n, w, e)
  BY <1>4, <1>7, AppendIs DEF Sound
<1>10. Becomes(n)
  BY <1>5
<1>. HIDE DEF n
<1>11. Sound(n, {}, down') /\ Fresh(n)
  BY <1>7, <1>8, <1>9, EventKeeps
<1>12. down' \in DOMAIN n.wins \cup {NoWin}
  BY <1>1, <1>7, <1>9 DEF Extended
<1>. QED
  BY <1>1, <1>2, <1>3, <1>10, <1>11, <1>12, Running

----------------------------------------------------------------------------
(* The theorems. *)

LEMMA Steps == ASSUME DesktopInv, [Next]_vars PROVE DesktopInv'
<1>1. CASE BootWindows
  BY <1>1, Boots
<1>2. CASE BootFails
  BY <1>2, BootRepeats
<1>3. CASE HandleEvent
  BY <1>3, Handles
<1>4. CASE QueueEmpty
  BY <1>4, FindsNothing
<1>5. CASE Refresh
  BY <1>5, Refreshes
<1>6. ASSUME NEW w \in DOMAIN wins, Refocus(w) PROVE DesktopInv'
  BY <1>6, Refocuses
<1>7. ASSUME NEW w \in DOMAIN wins, NEW p \in SpotsOf(w), UserPress(w, p) PROVE DesktopInv'
  BY <1>7, Presses
<1>8. CASE UserRelease
  BY <1>8, Releases
<1>9. CASE UserTypes
  BY <1>9, TypesKey
<1>10. ASSUME NEW p \in Cursors, UserMoves(p) PROVE DesktopInv'
  BY <1>10, MovesOn
<1>11. CASE UNCHANGED vars
  <2>1. Now' = Now /\ UNCHANGED <<pc, at, tries, down, inputs, wins>>
    BY <1>11 DEF vars, desktop, Now
  <2>2. RunInv /\ Typed(Now) /\ Fresh(Now)
        /\ IF pc \in {"boot", "stopped"} THEN Unborn(Now) ELSE Sound(Now, {}, down)
    BY DEF DesktopInv
  <2>3. RunInv'
    BY <2>1, <2>2 DEF RunInv
  <2>4. /\ Typed(Now)' /\ Fresh(Now)'
        /\ IF pc' \in {"boot", "stopped"} THEN Unborn(Now)' ELSE Sound(Now, {}, down)'
    BY <2>1, <2>2
  <2>. QED
    BY <2>3, <2>4 DEF DesktopInv
<1>. QED
  BY <1>1, <1>2, <1>3, <1>4, <1>5, <1>6, <1>7, <1>8, <1>9, <1>10, <1>11 DEF Next

\* The inductive invariant: whatever events wait in the queues, the table of
\* clients is the windows there are, each client will know whether it has the
\* focus once its queue is read, and the taskbar will be drawn.
THEOREM DesktopIsSound == Spec => []DesktopInv
<1>1. Init => DesktopInv
  BY Starts
<1>2. DesktopInv /\ [Next]_vars => DesktopInv'
  BY Steps
<1>. QED
  BY <1>1, <1>2, PTL DEF Spec

LEMMA InvFacts ==
  ASSUME DesktopInv
  PROVE  /\ RunInv /\ Typed(Now) /\ Fresh(Now) /\ Clientele(Now) = Used /\ Consistent(Now)
         /\ pc \in {"boot", "stopped"} => Used = {} /\ DOMAIN wins = {}
         /\ pc \notin {"boot", "stopped"} => Matched(Now) /\ Attentive(Now, {}, down)
<1>1. Clientele(Now) = Used
  BY NowIs DEF Clientele, Used
<1>. QED
  BY <1>1, NowIs DEF DesktopInv, Unborn, Sound, Consistent

\* The windows are those of the fixed two and of the table, in whatever order
\* starts, refusals and closes come; the geometry a client acts on is real.
THEOREM WindowsAreSlots == Spec => []SlotsAreWindows
<1>1. ASSUME DesktopInv PROVE SlotsAreWindows
  <2>1. /\ RunInv /\ Typed(Now) /\ Fresh(Now) /\ Clientele(Now) = Used /\ Consistent(Now)
        /\ pc \in {"boot", "stopped"} => Used = {} /\ DOMAIN wins = {}
        /\ pc \notin {"boot", "stopped"} => Matched(Now) /\ Attentive(Now, {}, down)
    BY <1>1, InvFacts
  <2>2. \A i \in Used : slots[i] \in Clients /\ (slots[i].max <=> slots[i].restore # Unknown)
    BY <2>1, NowIs, ClientFacts DEF Consistent, ClientOK
  <2>3. \A w \in DOMAIN wins : wins[w].geom \in Geoms
    BY <2>1, NowIs DEF Typed, Windows
  <2>4. TypeOK
    <3>1. /\ \A i \in Used : slots[i].type \in Types /\ slots[i].id \in 3 .. SlotMax + 2
          /\ \A i \in Used : {slots[i].focused, slots[i].dragging, slots[i].min, slots[i].max} \subseteq BOOLEAN
      BY <2>2 DEF Clients
    <3>2. \A w \in DOMAIN wins : InScreen(wins[w].geom)
      BY <2>3 DEF InScreen, Geoms
    <3>3. /\ focus \in DOMAIN wins \cup {NoWin}
          /\ selected \in Types \cup {"none", "files", "about", "system"}
      BY <2>1, NowIs DEF Typed, Icons, Types
    <3>. QED
      BY <2>1, <2>2, <3>1, <3>2, <3>3 DEF TypeOK, RunInv
  <2>5. CASE pc \in {"boot", "stopped"}
    BY <2>1, <2>4, <2>5 DEF SlotsAreWindows
  <2>6. CASE pc \notin {"boot", "stopped"}
    BY <2>1, <2>4, <2>6, NowIs DEF SlotsAreWindows, Matched
  <2>. QED
    BY <2>5, <2>6
<1>. QED
  BY <1>1, DesktopIsSound, PTL

\* What a client draws itself as is the truth when every event is handled, and
\* only the window with the focus follows the pointer.
THEOREM FocusIsRight == Spec => []FocusAgrees
<1>1. ASSUME DesktopInv PROVE FocusAgrees
  <2>1. /\ RunInv /\ Typed(Now) /\ Fresh(Now) /\ Clientele(Now) = Used /\ Consistent(Now)
        /\ pc \in {"boot", "stopped"} => Used = {} /\ DOMAIN wins = {}
        /\ pc \notin {"boot", "stopped"} => Matched(Now) /\ Attentive(Now, {}, down)
    BY <1>1, InvFacts
  <2>2. ASSUME NEW i \in Used
        PROVE  /\ Quiet /\ slots[i].type # "launcher" => (slots[i].focused <=> focus = slots[i].id)
               /\ slots[i].dragging => ~slots[i].max /\ (Quiet => focus = slots[i].id)
    <3>1. /\ slots[i].dragging => slots[i].type # "launcher" /\ ~slots[i].max
      BY <2>1, NowIs DEF Consistent, ClientOK
    <3>2. ASSUME Quiet, slots[i].type # "launcher"
          PROVE  /\ slots[i].focused <=> focus = slots[i].id
                 /\ slots[i].dragging => focus = slots[i].id
      <4>1. Agrees(slots[i], wins[slots[i].id].queue, focus, down) /\ slots[i].id \in DOMAIN wins
        BY <2>1, <3>2, NowIs DEF Attentive, Matched
      <4>2. wins[slots[i].id].queue = <<>>
        BY <3>2, <4>1 DEF Quiet
      <4>3. Lacks(<<>>, FocusKinds) /\ Lacks(<<>>, {"lost"})
        BY NoEvents
      <4>. QED
        BY <4>1, <4>2, <4>3 DEF Agrees
    <3>. QED
      BY <3>1, <3>2
  <2>. QED
    BY <2>2 DEF FocusAgrees
<1>. QED
  BY <1>1, DesktopIsSound, PTL

\* When every event is handled the taskbar shows the clients there are.
THEOREM TaskbarShows == Spec => []TaskbarIsFresh
<1>1. ASSUME DesktopInv PROVE TaskbarIsFresh
  <2>1. Fresh(Now)
    BY <1>1 DEF DesktopInv
  <2>2. ASSUME Quiet PROVE ~Coming(Now)
    BY <2>2, NowIs, NoEvents DEF Quiet, Coming
  <2>. QED
    BY <2>1, <2>2, NowIs DEF TaskbarIsFresh, Fresh
<1>. QED
  BY <1>1, DesktopIsSound, PTL

\* A window that was made large returns to where the user left it.
THEOREM PlacesAreKept == Spec => []StaysWherePut
<1>1. ASSUME DesktopInv PROVE StaysWherePut
  BY <1>1, InvFacts, NowIs DEF StaysWherePut, Consistent, ClientOK
<1>. QED
  BY <1>1, DesktopIsSound, PTL
=============================================================================
