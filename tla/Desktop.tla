------------------------------- MODULE Desktop -------------------------------
(***************************************************************************)
(* xde: the desktop.  One process keeps a table of client windows and, in  *)
(* an endless loop, empties the event queue of the taskbar, of the desktop *)
(* and of every client in turn, handling one event at a time.  The kernel  *)
(* owns the windows: it may refuse a request, moves the focus and queues   *)
(* events while a handler runs, and the handlers' own requests cause       *)
(* events.  So events of different windows are handled out of order.       *)
(* Widths, heights and positions are those of the code.                    *)
(***************************************************************************)
EXTENDS Integers, Sequences, FiniteSets

CONSTANTS
    SurfaceW, SurfaceH,  \* the screen, cut to XDE_MAX_W and XDE_MAX_H
    Word,                \* 2^64 in the code: differences wrap
    SlotMax,             \* XDE_CLIENT_MAX
    Apps,                \* programs besides the terminal and the start menu
    MaxTries,            \* bound: attempts to create the two fixed windows
    QueueMax,            \* bound: events waiting in a queue when the user acts
    MaxInputs,           \* bound: presses, moves and keys of a run
    EdgeSpots,           \* bound: where a window is pressed, from its right edge
    MenuSpots, BarSpots, DeskSpots,   \* bound: where the others are pressed
    Cursors,             \* bound: where the pointer is dragged to
    NoClient, NoWin, Unknown

Types == Apps \cup {"launcher", "terminal"}
TASKBAR_H == 64
TITLE_H == 24
TASK_BUTTON_W == 128

ASSUME ScreenAssumption == SurfaceW \in Nat /\ SurfaceH \in Nat /\ SurfaceW >= 320 /\ SurfaceH >= 240
ASSUME WordAssumption   == Word \in Nat /\ Word > SurfaceW + SurfaceH
ASSUME TypesAssumption  == Apps \subseteq {"system", "files", "about"} /\ Cardinality(Types) < SlotMax
ASSUME BoundAssumption  == SlotMax \in Nat /\ MaxTries \in Nat \ {0} /\ MaxInputs \in Nat

VARIABLES
    slots,     \* xde_clients
    wins,      \* the kernel's windows by id: geometry and event queue
    focus,     \* the window that has the focus
    drawn,     \* what the taskbar shows
    selected,  \* xde_selected_icon
    put,       \* history: where the user left the window of a slot
    pc, at,    \* "boot", "poll", "sleep" or "stopped", and whose queue is read
    tries,     \* failed attempts to create the fixed windows
    down,      \* the window the left button was pressed in and is still down
    inputs     \* what the user has done so far

desktop == <<slots, wins, focus, drawn, selected, put>>
vars == <<desktop, pc, at, tries, down, inputs>>

Desk == 1
Bar == 2
Slots == 1 .. SlotMax
Rect(x, y, w, h) == [x |-> x, y |-> y, w |-> w, h |-> h]
Minus(a, b) == (a - b) % Word
Capped(n, max) == IF n > max THEN max ELSE n
AtLeast(n, min) == IF n < min THEN min ELSE n

Least(I) == IF I = {} THEN 0 ELSE CHOOSE i \in I : \A j \in I : i <= j

Points == [x : Nat, y : Nat]
Spots == [x : 0 .. SurfaceW, y : 0 .. SurfaceH]
Geoms == [x : 0 .. SurfaceW, y : 0 .. SurfaceH, w : 1 .. SurfaceW, h : 1 .. SurfaceH]
Clients == [type : Types, id : 3 .. SlotMax + 2, focused : BOOLEAN, dragging : BOOLEAN,
            min : BOOLEAN, max : BOOLEAN, geom : Geoms, restore : Geoms \cup {Unknown},
            grip : Points \cup {Unknown}]
Events == [kind : {"gained", "lost", "release", "key"}]
          \cup [kind : {"press"}, x : Nat, y : Nat]
          \cup [kind : {"move"}, x : 0 .. SurfaceW, y : 0 .. SurfaceH]

ASSUME SpotsAssumption == BarSpots \cup MenuSpots \cup DeskSpots \subseteq Points
                          /\ EdgeSpots \subseteq Nat /\ Cursors \subseteq Spots
ASSUME NoneAssumption  == NoClient \notin Clients /\ NoWin \notin Nat /\ Unknown \notin Geoms \cup Points

Gained == [kind |-> "gained"]
Lost == [kind |-> "lost"]
Press(x, y) == [kind |-> "press", x |-> x, y |-> y]
Release == [kind |-> "release"]
MoveTo(p) == [kind |-> "move", x |-> p.x, y |-> p.y]
Key == [kind |-> "key"]

\* What the kernel answers to the requests of one handler, and whether a topmost
\* window gets the focus when it is created.
Answers == [create : BOOLEAN, resize : BOOLEAN, move : BOOLEAN, top : BOOLEAN]

----------------------------------------------------------------------------
(* The kernel.  The operators below take and return a record d of the desktop *)
(* variables, so that a handler is the composition of the calls it makes.     *)

Now == [slots |-> slots, wins |-> wins, focus |-> focus, drawn |-> drawn,
        selected |-> selected, put |-> put]
Becomes(d) ==
    /\ slots' = d.slots /\ wins' = d.wins /\ focus' = d.focus
    /\ drawn' = d.drawn /\ selected' = d.selected /\ put' = d.put

\* The taskbar and the desktop ignore focus events: they are never queued.
Send(d, w, e) ==
    IF w \in DOMAIN d.wins \ {Desk, Bar} THEN [d EXCEPT !.wins[w].queue = Append(@, e)] ELSE d
Focus(d, w) ==
    IF d.focus = w THEN d ELSE Send(Send([d EXCEPT !.focus = w], d.focus, Lost), w, Gained)
Create(d, w, g) ==
    [d EXCEPT !.wins = [v \in DOMAIN @ \cup {w} |->
                          IF v = w THEN [geom |-> g, queue |-> <<>>] ELSE @[v]]]
Destroy(d, w) ==
    [d EXCEPT !.wins = [v \in DOMAIN @ \ {w} |-> @[v]],
              !.focus = IF @ = w THEN NoWin ELSE @]
FreshId(d) == CHOOSE w \in 3 .. SlotMax + 2 : w \notin DOMAIN d.wins

Resize(d, w, g) == [d EXCEPT !.wins[w].geom = [@ EXCEPT !.w = g.w, !.h = g.h]]
Move(d, w, g) == [d EXCEPT !.wins[w].geom = [@ EXCEPT !.x = g.x, !.y = g.y]]

----------------------------------------------------------------------------
(* The table of clients. *)

\* xde_client_index_by_type, 0 when there is none.
IndexByType(d, type) == Least({i \in Slots : d.slots[i] # NoClient /\ d.slots[i].type = type})
FirstFree(d) == Least({i \in Slots : d.slots[i] = NoClient})

\* xde_draw_taskbar: one button per client but the start menu, in table order.
Tasks(d) == {i \in Slots : d.slots[i] # NoClient /\ d.slots[i].type # "launcher"}
Button(d, k) == {i \in Tasks(d) : Cardinality({j \in Tasks(d) : j <= i}) = k}
ButtonSlot(d, k) == CHOOSE i \in Button(d, k) : TRUE
Face(c) == [type |-> c.type, active |-> c.focused /\ ~c.min, min |-> c.min]
Shown(d) ==
    [start |-> IndexByType(d, "launcher") # 0,
     buttons |-> [k \in 1 .. Cardinality(Tasks(d)) |-> Face(d.slots[ButtonSlot(d, k)])]]
DrawTaskbar(d) == [d EXCEPT !.drawn = Shown(d)]

\* Fault: the window manager is not asked where the window is.
SyncFromWm_Not(d, i) == d
\* xde_sync_client_from_wm
SyncFromWm(d, i) == [d EXCEPT !.slots[i].geom = d.wins[d.slots[i].id].geom]

\* Fault: the table entry goes, the window stays.
CloseClient_Leaks(d, i) == [d EXCEPT !.slots[i] = NoClient, !.put[i] = Unknown]
CloseClient(d, i) ==
    [Destroy(d, d.slots[i].id) EXCEPT !.slots[i] = NoClient, !.put[i] = Unknown]

CloseMenu(d) ==
    LET i == IndexByType(d, "launcher") IN IF i = 0 THEN d ELSE DrawTaskbar(CloseClient(d, i))

----------------------------------------------------------------------------
(* What a client can be told to do. *)

\* The geometry a client is created with, in slot i.
Placed(type, want, i) ==
    LET w == AtLeast(Capped(want[1], SurfaceW - 40), 220)
        h == AtLeast(Capped(want[2], SurfaceH - 96), 120)
        mw == Capped(SurfaceW, want[1])
        mh == IF SurfaceH < want[2] + TASKBAR_H THEN SurfaceH - TASKBAR_H ELSE want[2]
    IN  IF type = "launcher"
        THEN Rect(0, AtLeast(SurfaceH - TASKBAR_H - mh, 0), mw, mh)
        ELSE Rect(40 + (i - 1) * 28, 72 + (i - 1) * 24, w, h)

Client(type, w, g) ==
    [type |-> type, id |-> w, focused |-> TRUE, dragging |-> FALSE, min |-> FALSE,
     max |-> FALSE, geom |-> g, restore |-> Unknown, grip |-> Unknown]

\* xde_open_client: `want` is the width and height asked for.
OpenClient(d, type, want, ok) ==
    LET old == IndexByType(d, type)
        m == IF type = "launcher" THEN d ELSE CloseMenu(d)
        i == FirstFree(m)
        w == FreshId(m)
        g == Placed(type, want, i)
        n == [Create(m, w, g) EXCEPT !.slots[i] = Client(type, w, g), !.put[i] = g]
    IN  IF old # 0 THEN Focus(m, m.slots[old].id)
        ELSE IF i = 0 \/ ~ok.create THEN m
        ELSE IF type = "launcher" /\ ~ok.top THEN n ELSE Focus(n, w)

\* xde_client_show
ShowClient(d, i, ok) ==
    LET c == d.slots[i]
        s == [d EXCEPT !.slots[i].min = FALSE]
        r == IF ok.resize THEN Resize(s, c.id, c.geom) ELSE s
        m == IF ok.move THEN Move(r, c.id, c.geom) ELSE r
    IN  Focus(IF c.min THEN SyncFromWm(m, i) ELSE d, c.id)

\* xde_client_minimize: a window of 64 by 48 in the corner, which is what
\* the client then takes for its geometry.
Corner == Rect(SurfaceW - 72, SurfaceH - 56, 64, 48)
Minimize(d, i, ok) ==
    LET c == d.slots[i]
        s == [d EXCEPT !.slots[i] = [@ EXCEPT !.min = TRUE, !.dragging = FALSE, !.grip = Unknown],
                       !.put[i] = Unknown]
        r == IF ok.resize THEN Resize(s, c.id, Corner) ELSE s
        m == IF ok.move THEN Move(r, c.id, Corner) ELSE r
    IN  DrawTaskbar(SyncFromWm(m, i))

Full == Rect(0, 24, SurfaceW, SurfaceH - TASKBAR_H - 24)

\* Fault: what to return to is noted after the window was made large.
Maximize_NotesLate(d, i, ok) ==
    LET c == d.slots[i]
        g == IF c.max THEN c.restore ELSE Full
        s == [d EXCEPT !.slots[i].max = ~c.max]
        r == Resize(s, c.id, g)
        m == SyncFromWm(IF ok.move THEN Move(r, c.id, g) ELSE r, i)
        n == [m EXCEPT !.slots[i].restore = IF c.max THEN Unknown ELSE m.slots[i].geom]
    IN  DrawTaskbar(IF ok.resize THEN n
                    ELSE [s EXCEPT !.slots[i].restore = IF c.max THEN Unknown ELSE c.geom])

\* xde_client_maximize: makes large, or returns to what was there before.
Maximize(d, i, ok) ==
    LET c == d.slots[i]
        g == IF c.max THEN c.restore ELSE Full
        s == [d EXCEPT !.slots[i] = [@ EXCEPT !.max = ~c.max,
                                              !.restore = IF c.max THEN Unknown ELSE c.geom],
                       !.put[i] = IF c.max /\ ~(ok.resize /\ ok.move) THEN Unknown ELSE @]
        r == Resize(s, c.id, g)
        m == IF ok.move THEN Move(r, c.id, g) ELSE r
    IN  DrawTaskbar(IF ok.resize THEN SyncFromWm(m, i) ELSE s)

\* xde_launch_terminal
LaunchTerminal(d, ok) ==
    LET i == IndexByType(d, "terminal")
        m == IF i # 0 THEN ShowClient(d, i, ok) ELSE OpenClient(d, "terminal", <<760, 460>>, ok)
    IN  DrawTaskbar(CloseMenu(m))

ToggleMenu(d, ok) ==
    IF IndexByType(d, "launcher") # 0 THEN CloseMenu(d)
    ELSE DrawTaskbar(OpenClient(d, "launcher", <<560, 520>>, ok))

Launch(d, type, want, ok) ==
    IF type = "terminal" THEN LaunchTerminal(d, ok)
    ELSE IF type \in Apps THEN OpenClient(d, type, want, ok) ELSE d

----------------------------------------------------------------------------
(* The handlers.  Each takes the event from its queue first.               *)

\* A press in the start menu.
MenuItem(x, y) ==
    IF x >= 18 /\ x < 132 /\ y >= 326 /\ y < 360 THEN "close"
    ELSE IF x < 192 \/ x > 542 THEN "none"
    ELSE CASE 82 <= y /\ y < 128 -> "system"   [] 136 <= y /\ y < 182 -> "files"
           [] 190 <= y /\ y < 236 -> "terminal" [] 244 <= y /\ y < 290 -> "about"
           [] OTHER -> "none"
Wanted(type) == IF type = "system" THEN <<460, 280>>
                ELSE IF type = "files" THEN <<440, 300>> ELSE <<460, 210>>

LauncherClick(d, e, ok) ==
    LET item == MenuItem(e.x, e.y)
    IN  IF item = "close" THEN CloseMenu(d) ELSE Launch(d, item, Wanted(item), ok)

\* The part of a client's window a press is in; the client's width is used as
\* the client knows it when the press is handled.
Hit(c, e) ==
    IF e.y >= TITLE_H THEN "inside"
    ELSE IF e.x >= Minus(c.geom.w, 30) THEN "close"
    ELSE IF e.x >= Minus(c.geom.w, 54) THEN "maximize"
    ELSE IF e.x >= Minus(c.geom.w, 78) /\ e.x < Minus(c.geom.w, 54) THEN "minimize"
    ELSE "title"

OnPress(d, i, e, ok) ==
    LET c == d.slots[i]
        hit == Hit(c, e)
    IN  CASE hit = "close" -> DrawTaskbar(CloseClient(d, i))
          [] hit = "maximize" -> Maximize(d, i, ok)
          [] hit = "minimize" -> Minimize(d, i, ok)
          [] hit = "title" /\ ~c.max ->
               [d EXCEPT !.slots[i] = [@ EXCEPT !.dragging = TRUE, !.grip = [x |-> e.x, y |-> e.y]]]
          [] OTHER -> d

\* The window does not follow the pointer any more.
LetGo(d, i) == [d EXCEPT !.slots[i] = [@ EXCEPT !.dragging = FALSE, !.grip = Unknown]]

OnRelease(d, i) ==
    IF ~d.slots[i].dragging THEN d
    ELSE DrawTaskbar(SyncFromWm(LetGo(d, i), i))

\* Fault: the difference wraps when the pointer is left of the grip.
OnMove_Wraps(d, i, e, ok) ==
    LET c == d.slots[i]
        g == [x |-> Minus(e.x, c.grip.x), y |-> Minus(e.y, c.grip.y)]
        m == SyncFromWm(IF ok.move THEN Move(d, c.id, g) ELSE d, i)
    IN  IF ~c.dragging THEN d ELSE DrawTaskbar([m EXCEPT !.put[i] = m.slots[i].geom])

\* The window follows the pointer; at the upper edge it is made large.  Nothing
\* is created here: the answer `create` is that to the second move.
OnMove(d, i, e, ok) ==
    LET c == d.slots[i]
        g == [x |-> AtLeast(e.x - c.grip.x, 0), y |-> AtLeast(e.y - c.grip.y, 0)]
        m == SyncFromWm(IF ok.move THEN Move(d, c.id, g) ELSE d, i)
        p == [m EXCEPT !.put[i] = m.slots[i].geom]
    IN  IF ~c.dragging THEN d
        ELSE IF m.slots[i].geom.y <= 28 /\ ~c.max
             THEN Maximize(LetGo(p, i), i, [ok EXCEPT !.move = ok.create])
        ELSE DrawTaskbar(p)

\* Fault: a window that loses the focus stays in the hand of the user.
OnFocus_KeepsDragging(d, i, gains) == DrawTaskbar([d EXCEPT !.slots[i].focused = gains])
\* Fault: the taskbar is not drawn again.
OnFocus_NotDrawn(d, i, gains) ==
    IF gains THEN [d EXCEPT !.slots[i].focused = TRUE]
    ELSE [LetGo(d, i) EXCEPT !.slots[i].focused = FALSE]
\* Fault: only the drag is given up when the focus goes.
OnFocus_NeverLost(d, i, gains) ==
    DrawTaskbar(IF gains THEN [d EXCEPT !.slots[i].focused = TRUE]
                ELSE LetGo(d, i))
OnFocus(d, i, gains) ==
    DrawTaskbar([d EXCEPT !.slots[i] =
        IF gains THEN [@ EXCEPT !.focused = TRUE]
        ELSE [@ EXCEPT !.focused = FALSE, !.dragging = FALSE, !.grip = Unknown]])

\* xde_handle_client_event
ClientEvent(d, i, e, ok) ==
    LET menu == d.slots[i].type = "launcher"
        m == IF menu THEN d ELSE CloseMenu(d)
    IN  CASE e.kind = "gained" -> OnFocus(m, i, TRUE)
          [] e.kind = "lost" -> OnFocus(m, i, FALSE)
          [] e.kind = "press" -> IF menu THEN LauncherClick(m, e, ok) ELSE OnPress(m, i, e, ok)
          [] e.kind = "release" -> OnRelease(m, i)
          [] e.kind = "move" -> OnMove(m, i, e, ok)
          [] OTHER -> m

\* xde_handle_taskbar_event: the buttons are where the clients of this moment
\* put them.
TaskbarEvent(d, e, ok) ==
    LET n == Cardinality(Tasks(d))
        k == (e.x - 88) \div (TASK_BUTTON_W + 8) + 1
        x == e.x - (88 + n * (TASK_BUTTON_W + 8))
        on == e.x >= 88 /\ (e.x - 88) % (TASK_BUTTON_W + 8) < TASK_BUTTON_W
    IN  IF e.kind # "press" THEN d
        ELSE IF e.x < 82 THEN ToggleMenu(d, ok)
        ELSE DrawTaskbar(
             IF on /\ Button(d, k) # {} THEN ShowClient(d, ButtonSlot(d, k), ok)
             ELSE IF 0 <= x /\ x < 72 THEN Launch(d, "system", <<440, 260>>, ok)
             ELSE IF 80 <= x /\ x < 160 THEN Launch(d, "files", <<420, 280>>, ok)
             ELSE IF 168 <= x /\ x < 248 THEN LaunchTerminal(d, ok)
             ELSE CloseMenu(d))

\* xde_handle_desktop_click: an icon is opened by the second click.
Icon(x, y) ==
    IF x < 24 \/ x >= 102 THEN "none"
    ELSE CASE 48 <= y /\ y < 122 -> "system"    [] 132 <= y /\ y < 206 -> "files"
           [] 216 <= y /\ y < 290 -> "terminal" [] 300 <= y /\ y < 374 -> "about"
           [] OTHER -> "none"
DesktopEvent(d, e, ok) ==
    LET icon == Icon(e.x, e.y)
        m == IF d.selected = icon THEN Launch(d, icon, Wanted(icon), ok) ELSE d
    IN  IF e.kind # "press" THEN d
        ELSE IF icon = "none" THEN CloseMenu([d EXCEPT !.selected = "none"])
        ELSE DrawTaskbar([m EXCEPT !.selected = icon])

----------------------------------------------------------------------------
(* The loop. *)

Init ==
    /\ slots = [i \in Slots |-> NoClient] /\ put = [i \in Slots |-> Unknown]
    /\ wins = [w \in {} |-> 0] /\ focus = NoWin
    /\ drawn = [start |-> FALSE, buttons |-> <<>>] /\ selected = "none"
    /\ pc = "boot" /\ at = 0 /\ tries = 0 /\ down = NoWin /\ inputs = 0

\* xde_boot_windows
BootWindows ==
    /\ pc = "boot"
    /\ Becomes(Create(Create(Now, Desk, Rect(0, 0, SurfaceW, SurfaceH)),
                      Bar, Rect(0, SurfaceH - TASKBAR_H, SurfaceW, TASKBAR_H)))
    /\ pc' = "poll"
    /\ UNCHANGED <<at, tries, down, inputs>>

\* One of the two windows is refused; the other one goes again.
BootFails ==
    /\ pc = "boot"
    /\ \/ UNCHANGED desktop
       \/ Becomes(Destroy(Create(Now, Desk, Rect(0, 0, SurfaceW, SurfaceH)), Desk))
    /\ tries' = tries + 1
    /\ pc' = IF tries' < MaxTries THEN "boot" ELSE "stopped"
    /\ UNCHANGED <<at, down, inputs>>

\* The window whose queue is read at place k: taskbar, desktop, then each client.
Polled(k) == IF k = 0 THEN Bar ELSE IF k = 1 THEN Desk
             ELSE IF slots[k - 1] = NoClient THEN NoWin ELSE slots[k - 1].id
Waiting(w) == w # NoWin /\ wins[w].queue # <<>>
Taken(w) == [Now EXCEPT !.wins[w].queue = Tail(@)]

HandleEvent ==
    /\ pc = "poll" /\ Waiting(Polled(at))
    /\ LET e == Head(wins[Polled(at)].queue) IN
       \E ok \in Answers :
         Becomes(IF at = 0 THEN TaskbarEvent(Taken(Bar), e, ok)
                 ELSE IF at = 1 THEN DesktopEvent(Taken(Desk), e, ok)
                 ELSE ClientEvent(Taken(Polled(at)), at - 1, e, ok))
    /\ UNCHANGED <<pc, at, tries, inputs>>
    /\ down' = IF down \in DOMAIN wins' THEN down ELSE NoWin

\* The queue is empty.  Polls in a row that find nothing are one step: an event
\* that comes while they happen is one that came before or after them.
QueueEmpty ==
    /\ pc = "poll" /\ ~Waiting(Polled(at))
    /\ LET later == {k \in at + 1 .. SlotMax + 1 : Waiting(Polled(k))}
       IN  /\ at' = Least(later)
           /\ pc' = IF later = {} THEN "sleep" ELSE "poll"
    /\ UNCHANGED <<desktop, tries, down, inputs>>

\* xde_refresh_periodic, and the sleep of one tick: the taskbar is drawn again
\* every 30 ticks.
Refresh ==
    /\ pc = "sleep" /\ pc' = "poll"
    /\ \/ UNCHANGED desktop
       \/ Becomes(DrawTaskbar(Now))
    /\ UNCHANGED <<at, tries, down, inputs>>

----------------------------------------------------------------------------
(* The user and the kernel.  A press moves the focus to the window it is in,  *)
(* or not when that is a topmost one; the button is released, and the pointer *)
(* moved, for the window it was pressed in.                                   *)

Queued == [w \in DOMAIN wins |-> Len(wins[w].queue)]
MayAct ==
    /\ pc \in {"poll", "sleep"} /\ \A w \in DOMAIN wins : Queued[w] < QueueMax
Counts == inputs < MaxInputs /\ inputs' = inputs + 1

IsMenu(w) == \E i \in Slots : slots[i] # NoClient /\ slots[i].id = w /\ slots[i].type = "launcher"
SpotsOf(w) ==
    IF w = Bar THEN BarSpots ELSE IF w = Desk THEN DeskSpots
    ELSE IF IsMenu(w) THEN MenuSpots
    ELSE {[x |-> wins[w].geom.w - r, y |-> 10] : r \in {q \in EdgeSpots : q <= wins[w].geom.w}}

UserPress(w, p) ==
    /\ MayAct /\ Counts /\ down = NoWin
    /\ down' = w
    /\ \E d \in {Focus(Now, w)} \cup (IF w = Bar \/ IsMenu(w) THEN {Now} ELSE {}) :
         Becomes([d EXCEPT !.wins[w].queue = Append(@, Press(p.x, p.y))])
    /\ UNCHANGED <<pc, at, tries>>

UserRelease ==
    /\ MayAct /\ down # NoWin
    /\ Becomes(Send(Now, down, Release))
    /\ down' = NoWin
    /\ UNCHANGED <<pc, at, tries, inputs>>

UserMoves(p) ==
    /\ MayAct /\ Counts /\ down # NoWin
    /\ Becomes(Send(Now, down, MoveTo(p)))
    /\ UNCHANGED <<pc, at, tries, down>>

UserTypes ==
    /\ MayAct /\ Counts /\ focus # NoWin
    /\ Becomes(Send(Now, focus, Key))
    /\ UNCHANGED <<pc, at, tries, down>>

\* After the focused window was destroyed the kernel picks another one.
Refocus(w) ==
    /\ pc \in {"poll", "sleep"} /\ focus = NoWin
    /\ Becomes(Focus(Now, w))
    /\ UNCHANGED <<pc, at, tries, down, inputs>>

Next ==
    \/ BootWindows \/ BootFails \/ HandleEvent \/ QueueEmpty \/ Refresh
    \/ \E w \in DOMAIN wins : Refocus(w) \/ \E p \in SpotsOf(w) : UserPress(w, p)
    \/ UserRelease \/ UserTypes
    \/ \E p \in Cursors : UserMoves(p)

Spec == Init /\ [][Next]_vars

----------------------------------------------------------------------------
(* Properties. *)

Used == {i \in Slots : slots[i] # NoClient}
Quiet == \A w \in DOMAIN wins : wins[w].queue = <<>>

\* The types.  No position or size wraps below zero or exceeds the screen.
InScreen(g) == g.x \in 0 .. SurfaceW /\ g.w \in 1 .. SurfaceW /\ g.y \in 0 .. SurfaceH /\ g.h \in 1 .. SurfaceH
TypeOK ==
    /\ \A i \in Used : slots[i].type \in Types /\ slots[i].id \in 3 .. SlotMax + 2
    /\ \A i \in Used : {slots[i].focused, slots[i].dragging, slots[i].min, slots[i].max} \subseteq BOOLEAN
    /\ \A i \in Used : slots[i].max <=> slots[i].restore # Unknown
    /\ \A w \in DOMAIN wins : InScreen(wins[w].geom)
    /\ focus \in DOMAIN wins \cup {NoWin} /\ down \in DOMAIN wins \cup {NoWin}
    /\ selected \in Types \cup {"none", "files", "about", "system"}
    /\ pc \in {"boot", "poll", "sleep", "stopped"} /\ at \in 0 .. SlotMax + 1
    /\ tries \in 0 .. MaxTries /\ inputs \in 0 .. MaxInputs

\* The windows that exist are the taskbar, the desktop and exactly one for each
\* entry of the table: none leaks when a window closes inside the loop over the
\* table or a start fails half-way, none is used after it is gone.  No two
\* entries are of one type, so the table never runs out of entries.  What a
\* client believes of its geometry, by which presses are told apart, is what the
\* kernel has, whatever requests were refused, and no position or size wraps.
SlotsAreWindows ==
    /\ TypeOK
    /\ DOMAIN wins = (IF pc \in {"boot", "stopped"} THEN {} ELSE {Desk, Bar}) \cup {slots[i].id : i \in Used}
    /\ \A i, j \in Used : i # j => slots[i].id # slots[j].id /\ slots[i].type # slots[j].type
    /\ \A i \in Used : slots[i].geom = wins[slots[i].id].geom

\* Once every event is handled the client that draws itself as focused is the
\* one with the focus, although events of several windows are handled in the
\* order of the table and not in that of their making; no other window follows
\* the pointer, and a large one never does.
FocusAgrees ==
    \A i \in Used :
        /\ Quiet /\ slots[i].type # "launcher" => (slots[i].focused <=> focus = slots[i].id)
        /\ slots[i].dragging => ~slots[i].max /\ (Quiet => focus = slots[i].id)

\* Once every event is handled the taskbar shows the clients there are, with
\* their states: the next press on it meets the button the user sees.
TaskbarIsFresh == (Quiet /\ pc # "boot") => drawn = Shown(Now)

\* A window is where the user put it, by opening or dragging it, however often
\* it was made large in between; one that was minimized or whose return was
\* refused is left out, for its place is lost.
StaysWherePut ==
    \A i \in Used : put[i] # Unknown =>
        put[i] = IF slots[i].max THEN slots[i].restore ELSE slots[i].geom

\* A press on the button of the start menu labelled "CLOSE" closes the menu.
CloseButtonCloses ==
    [][\A i \in Used :
        ( /\ HandleEvent /\ at = i + 1 /\ slots[i].type = "launcher"
          /\ LET e == Head(wins[slots[i].id].queue)
                 h == slots[i].geom.h
                 top == IF h > 54 THEN h - 54 ELSE 326
             IN  e.kind = "press" /\ 18 <= e.x /\ e.x < 130 /\ top <= e.y /\ e.y < top + 30 )
        => slots'[i] = NoClient]_vars

(***************************************************************************)
(* The inductive invariant behind these properties.  The queues may hold   *)
(* focus events that are not handled yet: what a client believes is the    *)
(* focus it will have once its own queue is read.                          *)
(***************************************************************************)
FocusKinds == {"gained", "lost"}
\* The queue q holds an event of kind k that no event of the kinds K follows.
Ends(q, k, K) == \E n \in 1 .. Len(q) : q[n].kind = k /\ \A m \in n + 1 .. Len(q) : q[m].kind \notin K
Lacks(q, K) == \A n \in 1 .. Len(q) : q[n].kind \notin K

\* A press at place n of the queue q of a client c: a drag stands for the one that
\* began it, and the next one may come once the button is up or down elsewhere.
Pressed(c, q, held, n) ==
    \/ n = 0 /\ c.dragging
    \/ n \in 1 .. Len(q) /\ q[n].kind = "press"
    \/ n = Len(q) + 1 /\ held # c.id
OneHand(c, q, held) ==
    \A m, n \in 0 .. Len(q) + 1 :
        m < n /\ Pressed(c, q, held, m) /\ Pressed(c, q, held, n)
            => \E k \in m + 1 .. n - 1 : q[k].kind = "release"

\* A client c with the queue q, when f has the focus and the button is held in
\* the window `held`.
Agrees(c, q, f, held) ==
    /\ OneHand(c, q, held)
    /\ Ends(q, "gained", FocusKinds) => f = c.id
    /\ Ends(q, "lost", FocusKinds) => f # c.id
    /\ Ends(q, "press", {"lost"}) => f = c.id
    /\ Lacks(q, FocusKinds) => (c.focused <=> f = c.id)
    /\ c.dragging /\ Lacks(q, {"lost"}) => f = c.id

Windows == [geom : Geoms, queue : Seq(Events)]
Icons == {"none", "system", "files", "terminal", "about"}
Clientele(d) == {i \in Slots : d.slots[i] # NoClient}

Typed(d) ==
    /\ d = [slots |-> d.slots, wins |-> d.wins, focus |-> d.focus, drawn |-> d.drawn,
            selected |-> d.selected, put |-> d.put]
    /\ d.slots \in [Slots -> Clients \cup {NoClient}]
    /\ d.wins \in [DOMAIN d.wins -> Windows]
    /\ d.focus \in DOMAIN d.wins \cup {NoWin}
    /\ d.selected \in Icons
    /\ d.put \in [Slots -> Geoms \cup {Unknown}]

Matched(d) ==
    /\ DOMAIN d.wins = {Desk, Bar} \cup {d.slots[i].id : i \in Clientele(d)}
    /\ \A i, j \in Clientele(d) : i # j => /\ d.slots[i].id # d.slots[j].id
                                           /\ d.slots[i].type # d.slots[j].type
    /\ \A i \in Clientele(d) : d.slots[i].geom = d.wins[d.slots[i].id].geom

ClientOK(c, u) ==
    /\ c.max <=> c.restore # Unknown
    /\ c.dragging => c.type # "launcher" /\ ~c.max /\ c.grip # Unknown
    /\ u # Unknown => u = IF c.max THEN c.restore ELSE c.geom

Consistent(d) == \A i \in Clientele(d) : ClientOK(d.slots[i], d.put[i])

\* Every client but those of X, and the start menu, agrees with the focus.
Attentive(d, X, held) ==
    \A i \in Clientele(d) \ X : d.slots[i].type # "launcher" =>
        Agrees(d.slots[i], d.wins[d.slots[i].id].queue, d.focus, held)

\* The taskbar shows what there is, or will when a focus event is handled.
Coming(d) == \E w \in DOMAIN d.wins \ {Desk, Bar} : ~Lacks(d.wins[w].queue, FocusKinds)
Fresh(d) == d.drawn = Shown(d) \/ Coming(d)

Sound(d, X, held) == Typed(d) /\ Matched(d) /\ Consistent(d) /\ Attentive(d, X, held)
Unborn(d) == Clientele(d) = {} /\ DOMAIN d.wins = {} /\ d.focus = NoWin

RunInv ==
    /\ pc \in {"boot", "poll", "sleep", "stopped"} /\ at \in 0 .. SlotMax + 1
    /\ tries \in 0 .. MaxTries /\ inputs \in 0 .. MaxInputs /\ (pc = "boot" => tries < MaxTries)
    /\ down \in DOMAIN wins \cup {NoWin}
DesktopInv ==
    /\ RunInv /\ Typed(Now) /\ Fresh(Now)
    /\ IF pc \in {"boot", "stopped"} THEN Unborn(Now) ELSE Sound(Now, {}, down)
=============================================================================
