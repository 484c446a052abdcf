--------------------------- MODULE UpdatePromise ---------------------------
(***************************************************************************)
(* What update-shell promises the owner of a disk, without its phases.     *)
(* An update starts from the files it tracks (scope: those and the ones    *)
(* the image ships); while it runs it may touch files of its scope only,   *)
(* and make of each only a complete copy of the image's file, a torn one   *)
(* or none; it reports success in one step, and then the disk holds the    *)
(* image and the record of tracked files is the truth.                     *)
(***************************************************************************)
CONSTANTS Paths, Managed, NoFile, Partial, Dir

VARIABLES files,    \* what is on the disk
          image,    \* what the booted image ships
          tracked,  \* path -> contents recorded for it, or NoFile
          scope,    \* the paths the running update may touch
          state     \* "quiet", "updating" or "updated"

promise == <<files, image, tracked, scope, state>>

Shipped == {p \in Managed : image[p] # NoFile}
Recorded == {p \in Paths : tracked[p] # NoFile}

\* The disk is the image, and the record says so.
UpToDate ==
    /\ \A p \in Shipped : files[p] = image[p] /\ tracked[p] = image[p]
    /\ \A p \in Recorded : tracked[p] = files[p]
    /\ \A p \in scope \ Shipped : files[p] \in {NoFile, Dir}

Init == state = "quiet" /\ scope = {}

\* Anybody may do anything while no update runs.
Quiet ==
    /\ state # "updating" /\ state' = "quiet"
    /\ scope' = {}

Start ==
    /\ state # "updating" /\ state' = "updating"
    /\ scope' = Shipped \cup {p \in Managed : tracked[p] # NoFile}
    /\ UNCHANGED <<files, image, tracked>>

Touch ==
    \A p \in Paths : files'[p] # files[p] =>
        p \in scope /\ files'[p] \in {image[p], NoFile, Partial}

Work ==
    /\ state = "updating" /\ state' = state
    /\ Touch
    /\ UNCHANGED <<image, scope>>

Succeed ==
    /\ state = "updating" /\ state' = "updated"
    /\ UpToDate
    /\ UNCHANGED <<files, image, tracked, scope>>

\* The update fails, or is cut; its scope is forgotten.
Abandon ==
    /\ state = "updating" /\ state' = "quiet"
    /\ Touch
    /\ scope' = {}
    /\ UNCHANGED image

Next == Quiet \/ Start \/ Work \/ Succeed \/ Abandon

Promise == Init /\ [][Next]_promise
=============================================================================
