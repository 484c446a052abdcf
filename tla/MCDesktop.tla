------------------------------ MODULE MCDesktop ------------------------------
(* Instances of Desktop for TLC: a screen of 640 by 480, presses in the middle *)
(* of every button of a modelled program, two places to drag to, one of them at the    *)
(* upper edge.                                                                 *)
EXTENDS Desktop

Spot(x, y) == [x |-> x, y |-> y]

\* Close, maximize, minimize, and the left of the title.
MCEdgeSpots == {15, 39, 63, 160}
\* "SYSTEM MONITOR", "TERMINAL" and, in a menu of 416 rows, "CLOSE".
MCMenuSpots == {Spot(300, 100), Spot(300, 210), Spot(74, 377)}
\* START, the first and second place of a button (without clients "SYS" and
\* "TERM" are there), the end of the bar.
MCBarSpots == {Spot(40, 30), Spot(100, 30), Spot(300, 30), Spot(630, 30)}
\* The terminal's icon, and none.
MCDeskSpots == {Spot(50, 250), Spot(500, 300)}
MCCursors == {Spot(500, 10), Spot(5, 200)}
=============================================================================
