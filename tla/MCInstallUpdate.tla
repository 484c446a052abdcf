-------------------------- MODULE MCInstallUpdate --------------------------
(***************************************************************************)
(* Instances of InstallUpdate for TLC: two shell files, one boot file (a   *)
(* copy of limine.conf), the kernel and users.db, and two images.          *)
(***************************************************************************)
EXTENDS InstallUpdate

CONSTANTS s1, s2, conf, kernel, users, v1, v2, mine, rootonly

MCPaths == {s1, s2, conf, kernel, users}
MCShellPaths == {s1, s2}
MCBootPaths == {conf}
MCContents == {v1, v2, mine, rootonly}

Image(a, b, k) == [p \in MCPaths |->
    CASE p = s1 -> a [] p = s2 -> b [] p = conf -> k
      [] p = kernel -> v1 [] OTHER -> NoFile]

\* The second image changes s1, drops s2 and brings a new limine.conf.
MCImages == {Image(v1, v1, v1), Image(v2, NoFile, v2)}

\* For a manifest that holds two entries (ManifestCap = 2): the first and the
\* last image fit and replace one shell file by the other, the one between them
\* has both and does not fit.
TightImages == {Image(v1, NoFile, v1), Image(v1, v2, v1), Image(NoFile, v2, v2)}

\* A smaller disk, for liveness.
SmallPaths == {s1, conf, kernel, users}
SmallShellPaths == {s1}
SmallImage(a) == [p \in SmallPaths |->
    CASE p \in {s1, conf} -> a [] p = kernel -> v1 [] OTHER -> NoFile]
SmallImages == {SmallImage(v1), SmallImage(v2)}

\* Between runs a user may change or delete a file or put a directory there.
MCEditPaths == {s1, s2, conf, users}
SmallEditPaths == {s1}
SmallEditValues == {mine, NoFile}
MCEditValues == {mine, NoFile, Dir}

\* One disturbance per behaviour, a cut or an edit.
OneDisturbance == edits + interrupts <= 1
=============================================================================
