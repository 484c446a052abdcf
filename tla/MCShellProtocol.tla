--------------------------- MODULE MCShellProtocol ---------------------------
(* Instances of ShellProtocol for TLC: two accounts, one of them without a *)
(* home directory, two directories, a chain of two programs below the root. *)
EXTENDS ShellProtocol, TLC

CONSTANTS s0, s1, s2, root, guest, slash, hroot

MCHome == (root :> hroot) @@ (guest :> NoDir)
MCMaxCmds == [xsh |-> 3, terminal |-> 2]
==============================================================================
