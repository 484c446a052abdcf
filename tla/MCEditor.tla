------------------------------ MODULE MCEditor ------------------------------
(***************************************************************************)
(* Instance of Editor for TLC: three lines of up to two characters, a tab  *)
(* that fits only in part, files that exceed both limits.                  *)
(***************************************************************************)
EXTENDS Editor, TLC

CONSTANTS x, f, g

VimLetters == {x}
VimPaths == {f, g}
Contents ==
    {Absent, <<x>>, <<x, CR, NL, x>>, <<x, NL, x, x, NL, J>>, <<x, x, x, NL, J, NL, x, NL, x>>}
VimStarts == {f :> content @@ g :> Absent : content \in Contents}
=============================================================================
