---------------------------- MODULE TextPromise ----------------------------
(***************************************************************************)
(* What an editor promises of the keys: one text with a place in it.  A    *)
(* key types at the place, takes one character away beside it, takes away  *)
(* the line that holds it, opens a line under it, or only moves it.        *)
(* Editor implements this with an array of short lines.                    *)
(***************************************************************************)
EXTENDS Naturals, Sequences

CONSTANTS NL, MaxTyped

VARIABLES text, at

Upto(n) == SubSeq(text, 1, n)
After(n) == SubSeq(text, n + 1, Len(text))

LineStart == CHOOSE n \in 0..at : /\ n = 0 \/ text[n] = NL
                                  /\ \A k \in n + 1..at : text[k] # NL
LineEnd == CHOOSE n \in at..Len(text) : /\ n = Len(text) \/ text[n + 1] = NL
                                        /\ \A k \in at + 1..n : text[k] # NL

Init == at = 0

\* Some characters appear at the place, which stays behind them.
Type ==
    \E n \in 1..MaxTyped :
        /\ Len(text') = Len(text) + n
        /\ text' = Upto(at) \o SubSeq(text', at + 1, at + n) \o After(at)
        /\ at' = at + n

Rub == at > 0 /\ text' = Upto(at - 1) \o After(at) /\ at' = at - 1

Nip == at < LineEnd /\ text' = Upto(at) \o After(at + 1) /\ at' = at

\* The whole line goes, with the separator before it when it was the last.
CutLine ==
    \/ /\ LineEnd < Len(text)
       /\ text' = Upto(LineStart) \o After(LineEnd + 1)
    \/ /\ LineEnd = Len(text)
       /\ text' = Upto(IF LineStart = 0 THEN 0 ELSE LineStart - 1)

OpenLine == text' = Upto(LineEnd) \o <<NL>> \o After(LineEnd) /\ at' = LineEnd + 1

Move == text' = text

Next == Type \/ Rub \/ Nip \/ CutLine \/ OpenLine \/ Move

Spec == Init /\ [][Next]_<<text, at>>
=============================================================================
