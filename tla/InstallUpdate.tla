--------------------------- MODULE InstallUpdate ---------------------------
(***************************************************************************)
(* install2disk: the installer that formats, updates and repairs the hard  *)
(* disk from a booted ISO image (xiaobaios/apps/install2disk_main.c).      *)
(*                                                                         *)
(* The disk is a function from logical paths to contents.  Every command   *)
(* is one run of a program that walks through its phases (pc); a phase is  *)
(* one action per file it handles, and Interrupt is the failing system     *)
(* call or the power cut that ends the run inside a phase and leaves the   *)
(* file being written in any state the calls of that phase can leave it.   *)
(* Between runs the administrator may boot another image and a user may    *)
(* change files of the installed system.                                   *)
(***************************************************************************)
EXTENDS Naturals, FiniteSets

CONSTANTS
    Paths,        \* logical paths of the installed system
    ShellPaths,   \* /shell, /driver, /system: what update-shell manages
    BootPaths,    \* /boot, /limine, ...: tracked, not managed by update-shell
    ConfPaths,    \* the copies of limine.conf among BootPaths
    KernelFile,   \* /kernel.elf, never tracked
    UsersDb,      \* /system/users.db, never tracked
    RootOnly,     \* users.db as install_setup_root_account writes it
    Contents,     \* contents of complete files
    NoFile,       \* nothing at the path
    Partial,      \* a file cut short while it was written
    Dir,          \* a directory where a file is expected
    Images,       \* file trees of the ISO images that may be booted
    ManifestCap,  \* INSTALL_MANIFEST_MAX_BYTES, counted in entries
    EditPaths, EditValues, MaxEdits, MaxInterrupts   \* environment bounds

Slots == Contents \cup {NoFile, Partial, Dir}
Hashes == Contents \cup {NoFile, Partial}
Included == ShellPaths \cup BootPaths

ASSUME PathsAssumption ==
    /\ IsFiniteSet(Paths)
    /\ ShellPaths \subseteq Paths /\ BootPaths \subseteq Paths
    /\ ShellPaths \cap BootPaths = {}
    /\ ConfPaths \subseteq BootPaths
    /\ KernelFile \in Paths \ Included
    /\ UsersDb \in Paths \ (Included \cup {KernelFile})

ASSUME ContentsAssumption ==
    /\ RootOnly \in Contents
    /\ NoFile \notin Contents /\ Partial \notin Contents /\ Dir \notin Contents
    /\ NoFile # Partial /\ NoFile # Dir /\ Partial # Dir

ASSUME BoundsAssumption ==
    /\ Images \subseteq [Paths -> Contents \cup {NoFile}]
    /\ Images # {}
    /\ \A i \in Images : i[KernelFile] # NoFile
    /\ \A i \in Images : \A p \in ConfPaths : i[p] # NoFile
    /\ ManifestCap \in Nat /\ MaxEdits \in Nat /\ MaxInterrupts \in Nat
    /\ EditPaths \subseteq Paths \ {KernelFile}
    /\ EditValues \subseteq Contents \cup {NoFile, Dir}

VARIABLES
    iso,        \* the tree of the booted image
    formatted,  \* the disk holds a FAT32 file system
    target,     \* the disk: path -> slot
    manifest,   \* /system/install_manifest.db
    prev,       \* /system/install_manifest.prev
    staged,     \* /system/install_manifest.new
    marker,     \* /system/update_state.db exists
    op,         \* the command that runs, or ran last
    pc,         \* its phase
    todo,       \* paths the phase has still to handle
    base,       \* install_update_old_entries: the manifest update-shell loaded
    outcome,    \* how the last run ended
    edits, interrupts,   \* bounds on the environment
    owned,      \* history: paths whose file the installer wrote last
    cut         \* history: a run was cut short since the manifest last
                \* described the whole disk

disk == <<formatted, target, manifest, prev, staged, marker>>
run == <<op, pc, todo, base, outcome>>
env == <<iso, edits, interrupts>>
vars == <<disk, run, env, owned, cut>>

(***************************************************************************)
(* Manifest files.  An entry maps a path to the hash of its file; a torn   *)
(* file ends inside a line, which install_manifest_parse_line rejects.     *)
(***************************************************************************)
NoEntries == [p \in Paths |-> NoFile]
ManifestFile == [present : BOOLEAN, torn : BOOLEAN, list : [Paths -> Hashes]]
NoManifest == [present |-> FALSE, torn |-> FALSE, list |-> NoEntries]
EmptyManifest == [present |-> TRUE, torn |-> FALSE, list |-> NoEntries]
TornManifest == [present |-> TRUE, torn |-> TRUE, list |-> NoEntries]

Listed(m) == {p \in Paths : m.list[p] # NoFile}
HasRoom == Cardinality(Listed(manifest)) < ManifestCap

IsFile(p) == target[p] \notin {NoFile, Dir}
Recorded(p) == [manifest EXCEPT !.list[p] = target[p]]

\* What a cut inside a copy of manifest m over file f leaves behind.
CutCopy(f, m) == {f, NoManifest, TornManifest, m}

(***************************************************************************)
(* The plan of a shell update.                                             *)
(***************************************************************************)
NewPaths == {p \in ShellPaths : iso[p] # NoFile}
\* Fault: nothing is ever obsolete.
Obsolete_None == {}

Obsolete == {p \in ShellPaths : base.list[p] # NoFile /\ iso[p] = NoFile}
Kept == {p \in BootPaths : base.list[p] # NoFile}

TargetMatches(p) == target[p] = iso[p]

\* Fault: the old manifest is believed without looking at the disk.
PlanCopy_TrustManifest(p) == base.list[p] = NoFile \/ base.list[p] # iso[p]

PlanCopy(p) ==
    \/ base.list[p] = NoFile
    \/ base.list[p] # iso[p]
    \/ ~TargetMatches(p)

\* install_update_shell gets past mounting, scanning the image and loading
\* both manifests.
Loadable ==
    /\ formatted
    /\ NewPaths # {}
    /\ Cardinality(NewPaths) <= ManifestCap
    /\ ~manifest.torn

Init ==
    /\ iso \in Images
    /\ formatted = FALSE
    /\ target = NoEntries
    /\ manifest = NoManifest /\ prev = NoManifest /\ staged = NoManifest
    /\ marker = FALSE
    /\ op = "none" /\ pc = "idle" /\ todo = {} /\ base = NoManifest
    /\ outcome = "none"
    /\ edits = 0 /\ interrupts = 0
    /\ owned = {} /\ cut = FALSE

(***************************************************************************)
(* Phase changes.                                                          *)
(***************************************************************************)
Goto(phase, work) ==
    /\ pc' = phase /\ todo' = work
    /\ UNCHANGED <<op, base, outcome>>

End(result) ==
    /\ pc' = "idle" /\ todo' = {} /\ outcome' = result
    /\ UNCHANGED <<op, base>>

Begin(command, phase, work) ==
    /\ pc = "idle"
    /\ op' = command /\ pc' = phase /\ todo' = work
    /\ outcome' = "running"
    /\ base' = NoManifest

(***************************************************************************)
(* Commands that overwrite whole files: update-kernel, the repairs, and    *)
(* the copy phase of a full install.                                       *)
(***************************************************************************)
InstallTree ==
    {p \in Paths : iso[p] # NoFile} \cup ConfPaths \cup {KernelFile}

StartInstall ==
    /\ Begin("install", "format", {})
    /\ UNCHANGED <<disk, env, owned, cut>>

Format ==
    /\ pc = "format"
    /\ formatted' = TRUE
    /\ target' = NoEntries
    /\ manifest' = NoManifest /\ prev' = NoManifest /\ staged' = NoManifest
    /\ marker' = FALSE
    /\ owned' = {}
    /\ Goto("overwrite", InstallTree)
    /\ UNCHANGED <<env, cut>>

StartUpdateKernel(command) ==
    /\ formatted
    /\ Begin(command, "overwrite", {KernelFile} \cup ConfPaths)
    /\ UNCHANGED <<disk, env, owned, cut>>

StartRepair(work) ==
    /\ formatted
    /\ Begin("repair", "overwrite", work)
    /\ UNCHANGED <<disk, env, owned, cut>>

RepairManifest == StartRepair({})
RepairConf == StartRepair(ConfPaths)
RepairPath(p) == iso[p] # NoFile /\ StartRepair({p})

\* The kernel is written before the configuration files.
OverwriteNext(p) ==
    /\ pc = "overwrite" /\ p \in todo
    /\ KernelFile \in todo => p = KernelFile

Overwrite(p) ==
    /\ OverwriteNext(p)
    /\ target[p] # Dir
    /\ target' = [target EXCEPT ![p] = iso[p]]
    /\ owned' = owned \cup {p}
    /\ Goto("overwrite", todo \ {p})
    /\ UNCHANGED <<formatted, manifest, prev, staged, marker, env, cut>>

OverwriteBlocked(p) ==
    /\ OverwriteNext(p)
    /\ target[p] = Dir
    /\ End("failed")
    /\ cut' = TRUE
    /\ UNCHANGED <<disk, env, owned>>

\* After the last overwrite: a kernel update is done, update-all goes on with
\* the shell, a repair rebuilds the manifest, an install writes users.db.
OverwriteDone ==
    /\ pc = "overwrite" /\ todo = {}
    /\ \/ op = "kernel" /\ End("ok")
       \/ op = "repair" /\ Goto("blank", {})
       \/ op = "install" /\ Goto("account", {})
       \/ /\ op = "all" /\ Loadable
          /\ op' = "shell" /\ pc' = "mark" /\ base' = manifest
          /\ UNCHANGED <<todo, outcome>>
       \/ op = "all" /\ ~Loadable /\ End("failed")
    /\ UNCHANGED <<disk, env, owned, cut>>

(***************************************************************************)
(* The root account and the full manifest.                                 *)
(***************************************************************************)
StartResetRoot ==
    /\ formatted
    /\ Begin("account", "account", {})
    /\ UNCHANGED <<disk, env, owned, cut>>

SetupRootAccount ==
    /\ pc = "account"
    /\ target[UsersDb] # Dir
    /\ target' = [target EXCEPT ![UsersDb] = RootOnly]
    /\ owned' = owned \cup {UsersDb}
    /\ \/ op = "account" /\ End("ok")
       \/ op = "install" /\ Goto("blank", {})
    /\ UNCHANGED <<formatted, manifest, prev, staged, marker, env, cut>>

SetupBlocked ==
    /\ pc = "account" /\ target[UsersDb] = Dir
    /\ End("failed")
    /\ UNCHANGED <<disk, env, owned, cut>>

\* Fault: the old manifest file is reused, its last line included.
BlankManifest_KeepTail ==
    /\ pc = "blank"
    /\ manifest' = [manifest EXCEPT !.present = TRUE, !.list = NoEntries]
    /\ Goto("scan", {p \in Included : IsFile(p)})
    /\ UNCHANGED <<formatted, target, prev, staged, marker, env, owned, cut>>

\* install_generate_manifest: an empty manifest, then one entry per file found.
BlankManifest ==
    /\ pc = "blank"
    /\ manifest' = EmptyManifest
    /\ Goto("scan", {p \in Included : IsFile(p)})
    /\ UNCHANGED <<formatted, target, prev, staged, marker, env, owned, cut>>

AppendEntry(p) ==
    /\ HasRoom
    /\ manifest' = Recorded(p)
    /\ UNCHANGED <<formatted, target, prev, staged, marker, env, owned, cut>>

\* Fault: a failed append cleans up the state file.
ManifestFull_Unmark ==
    /\ ~HasRoom
    /\ End("failed")
    /\ cut' = TRUE /\ marker' = FALSE
    /\ UNCHANGED <<formatted, target, manifest, prev, staged, env, owned>>

ManifestFull ==
    /\ ~HasRoom
    /\ End("failed")
    /\ cut' = TRUE
    /\ UNCHANGED <<disk, env, owned>>

Scan(p) ==
    /\ pc = "scan" /\ p \in todo
    /\ \/ AppendEntry(p) /\ Goto("scan", todo \ {p})
       \/ ManifestFull

ScanDone ==
    /\ pc = "scan" /\ todo = {}
    /\ End(IF Listed(manifest) = {} THEN "failed" ELSE "ok")
    /\ cut' = FALSE
    /\ UNCHANGED <<disk, env, owned>>

(***************************************************************************)
(* update-shell.                                                           *)
(***************************************************************************)
DryRun ==
    /\ pc = "idle" /\ formatted
    /\ op' = "dry" /\ outcome' = IF Loadable THEN "ok" ELSE "failed"
    /\ base' = NoManifest
    /\ UNCHANGED <<pc, todo, disk, env, owned, cut>>

StartUpdateShell ==
    /\ pc = "idle" /\ formatted
    /\ \/ /\ Loadable
          /\ op' = "shell" /\ pc' = "mark" /\ outcome' = "running"
          /\ base' = manifest /\ UNCHANGED todo
       \/ /\ ~Loadable
          /\ op' = "refused" /\ outcome' = "failed"
          /\ base' = NoManifest /\ UNCHANGED <<pc, todo>>
    /\ UNCHANGED <<disk, env, owned, cut>>

\* Fault: the state file is not written.
WriteState_Unmarked ==
    /\ pc = "mark"
    /\ Goto("backup", {})
    /\ UNCHANGED <<disk, env, owned, cut>>

WriteState ==
    /\ pc = "mark"
    /\ marker' = TRUE
    /\ Goto("backup", {})
    /\ UNCHANGED <<formatted, target, manifest, prev, staged, env, owned, cut>>

\* Fault: no backup is taken.
BackupManifest_Skipped ==
    /\ pc = "backup"
    /\ Goto("stage", {})
    /\ UNCHANGED <<disk, env, owned, cut>>

BackupManifest ==
    /\ pc = "backup"
    /\ prev' = IF manifest.present THEN manifest ELSE prev
    /\ Goto("stage", {})
    /\ UNCHANGED <<formatted, target, manifest, staged, marker, env, owned, cut>>

NewManifest ==
    [present |-> TRUE, torn |-> FALSE,
     list |-> [p \in Paths |-> IF p \in NewPaths THEN iso[p] ELSE NoFile]]

StageManifest ==
    /\ pc = "stage"
    /\ staged' = NewManifest
    /\ Goto("copy", NewPaths)
    /\ UNCHANGED <<formatted, target, manifest, prev, marker, env, owned, cut>>

\* Fault: the copy is not compared with the image afterwards.
CopyEntry_Unverified(p) ==
    /\ pc = "copy" /\ p \in todo
    /\ PlanCopy(p) /\ target[p] # Dir
    /\ \E s \in {iso[p], Partial} : target' = [target EXCEPT ![p] = s]
    /\ owned' = owned \cup {p}
    /\ Goto("copy", todo \ {p})
    /\ UNCHANGED <<formatted, manifest, prev, staged, marker, env, cut>>

CopyEntry(p) ==
    /\ pc = "copy" /\ p \in todo
    /\ PlanCopy(p) /\ target[p] # Dir
    /\ target' = [target EXCEPT ![p] = iso[p]]
    /\ owned' = owned \cup {p}
    /\ Goto("copy", todo \ {p})
    /\ UNCHANGED <<formatted, manifest, prev, staged, marker, env, cut>>

SkipEntry(p) ==
    /\ pc = "copy" /\ p \in todo
    /\ ~PlanCopy(p)
    /\ Goto("copy", todo \ {p})
    /\ UNCHANGED <<disk, env, owned, cut>>


CopyBlocked(p) ==
    /\ pc = "copy" /\ p \in todo
    /\ PlanCopy(p) /\ target[p] = Dir
    /\ End("failed")
    /\ cut' = TRUE
    /\ UNCHANGED <<disk, env, owned>>

\* Fault: install_update_shell_path_included is not asked for old entries.
CopyDone_AllTracked ==
    /\ pc = "copy" /\ todo = {}
    /\ Goto("obsolete", {p \in Paths : base.list[p] # NoFile /\ p \notin NewPaths})
    /\ UNCHANGED <<disk, env, owned, cut>>

CopyDone ==
    /\ pc = "copy" /\ todo = {}
    /\ Goto("obsolete", Obsolete)
    /\ UNCHANGED <<disk, env, owned, cut>>

\* Fault: only files that still match the old manifest are removed.
DeleteObsolete_Unmodified(p) ==
    /\ pc = "obsolete" /\ p \in todo
    /\ target' = IF target[p] = base.list[p] THEN [target EXCEPT ![p] = NoFile]
                 ELSE target
    /\ owned' = owned \ {p}
    /\ Goto("obsolete", todo \ {p})
    /\ UNCHANGED <<formatted, manifest, prev, staged, marker, env, cut>>

DeleteObsolete(p) ==
    /\ pc = "obsolete" /\ p \in todo
    /\ target' = IF IsFile(p) THEN [target EXCEPT ![p] = NoFile] ELSE target
    /\ owned' = owned \ {p}
    /\ Goto("obsolete", todo \ {p})
    /\ UNCHANGED <<formatted, manifest, prev, staged, marker, env, cut>>

ObsoleteDone ==
    /\ pc = "obsolete" /\ todo = {}
    /\ Goto("truncate", {})
    /\ UNCHANGED <<disk, env, owned, cut>>

\* Fault: the new entries are appended to the old manifest.
TruncateManifest_Append ==
    /\ pc = "truncate"
    /\ Goto("keep", Kept)
    /\ UNCHANGED <<disk, env, owned, cut>>


TruncateManifest ==
    /\ pc = "truncate"
    /\ manifest' = EmptyManifest
    /\ Goto("keep", Kept)
    /\ UNCHANGED <<formatted, target, prev, staged, marker, env, owned, cut>>

KeepEntry(p) ==
    /\ pc = "keep" /\ p \in todo
    /\ \/ IsFile(p) /\ AppendEntry(p) /\ Goto("keep", todo \ {p})
       \/ IsFile(p) /\ ManifestFull
       \/ /\ ~IsFile(p) /\ Goto("keep", todo \ {p})
          /\ UNCHANGED <<disk, env, owned, cut>>

KeepDone ==
    /\ pc = "keep" /\ todo = {}
    /\ Goto("append", NewPaths)
    /\ UNCHANGED <<disk, env, owned, cut>>


RefreshEntry(p) ==
    /\ pc = "append" /\ p \in todo
    /\ \/ AppendEntry(p) /\ Goto("append", todo \ {p})
       \/ ManifestFull

RefreshDone ==
    /\ pc = "append" /\ todo = {}
    /\ Goto("cleanup", {})
    /\ UNCHANGED <<disk, env, owned, cut>>

\* The results of the removals are ignored: any of them may leave its file.
Cleanup ==
    /\ pc = "cleanup"
    /\ marker' \in {FALSE, marker}
    /\ staged' \in {NoManifest, staged}
    /\ End("ok")
    /\ UNCHANGED <<formatted, target, manifest, prev, env, owned, cut>>

(***************************************************************************)
(* A system call fails or the power goes: the run ends inside a phase.     *)
(***************************************************************************)
CutTarget(p, slots) ==
    \E s \in slots :
        /\ target' = [target EXCEPT ![p] = s]
        /\ owned' = IF s = target[p] THEN owned
                    ELSE IF s = NoFile THEN owned \ {p} ELSE owned \cup {p}

CutOverwrite(p) ==
    /\ OverwriteNext(p) /\ target[p] # Dir
    /\ CutTarget(p, {target[p], Partial})
    /\ UNCHANGED <<formatted, manifest, prev, staged, marker>>

\* install_copy_file removes the old file before it writes the new one.
CutCopyEntry(p) ==
    /\ pc = "copy" /\ p \in todo
    /\ PlanCopy(p) /\ target[p] # Dir
    /\ CutTarget(p, {target[p], NoFile, Partial})
    /\ UNCHANGED <<formatted, manifest, prev, staged, marker>>

CutAccount ==
    /\ pc = "account" /\ target[UsersDb] # Dir
    /\ CutTarget(UsersDb, {target[UsersDb], Partial})
    /\ UNCHANGED <<formatted, manifest, prev, staged, marker>>

CutManifest ==
    /\ \/ pc \in {"blank", "truncate"} /\ manifest' \in {manifest, NoManifest}
       \/ /\ pc \in {"scan", "keep", "append"} /\ todo # {}
          /\ manifest' \in {manifest, [manifest EXCEPT !.torn = TRUE]}
    /\ UNCHANGED <<formatted, target, prev, staged, marker, owned>>

CutState ==
    /\ \/ pc = "mark" /\ marker' \in BOOLEAN /\ (marker => marker')
          /\ UNCHANGED <<prev, staged>>
       \/ pc = "backup" /\ manifest.present
          /\ prev' \in CutCopy(prev, manifest)
          /\ UNCHANGED <<marker, staged>>
       \/ pc = "stage" /\ staged' \in CutCopy(staged, NewManifest)
          /\ UNCHANGED <<marker, prev>>
       \/ pc = "cleanup"
          /\ marker' \in {FALSE, marker} /\ staged' \in {NoManifest, staged}
          /\ UNCHANGED prev
    /\ UNCHANGED <<formatted, target, manifest, owned>>

CutFormat ==
    /\ pc = "format"
    /\ formatted' = FALSE
    /\ target' = NoEntries
    /\ manifest' = NoManifest /\ prev' = NoManifest /\ staged' = NoManifest
    /\ marker' = FALSE /\ owned' = {}

CutNothing ==
    /\ pc \in {"format", "obsolete", "backup"} \/ todo = {}
    /\ UNCHANGED <<disk, owned>>

Interrupt ==
    /\ pc # "idle"
    /\ interrupts < MaxInterrupts
    /\ interrupts' = interrupts + 1
    /\ cut' = TRUE
    /\ End("cut")
    /\ UNCHANGED <<iso, edits>>
    /\ \/ \E p \in todo : CutOverwrite(p) \/ CutCopyEntry(p)
       \/ CutAccount \/ CutManifest \/ CutState \/ CutFormat \/ CutNothing

(***************************************************************************)
(* Between runs.                                                           *)
(***************************************************************************)
BootImage(image) ==
    /\ pc = "idle" /\ image # iso
    /\ iso' = image
    /\ outcome' = "none" /\ op' = "none" /\ base' = NoManifest
    /\ UNCHANGED <<pc, todo, disk, edits, interrupts, owned, cut>>

UserEdit(p, v) ==
    /\ pc = "idle" /\ formatted
    /\ edits < MaxEdits /\ edits' = edits + 1
    /\ target[p] # v
    /\ target' = [target EXCEPT ![p] = v]
    /\ owned' = owned \ {p}
    /\ outcome' = "none" /\ op' = "none" /\ base' = NoManifest
    /\ UNCHANGED <<formatted, manifest, prev, staged, marker,
                   pc, todo, iso, interrupts, cut>>

Command ==
    \/ StartInstall \/ StartResetRoot \/ DryRun \/ StartUpdateShell
    \/ StartUpdateKernel("kernel") \/ StartUpdateKernel("all")
    \/ RepairManifest \/ RepairConf
    \/ \E p \in Paths \ (ConfPaths \cup {KernelFile}) : RepairPath(p)

UpdateStep ==
    \/ WriteState \/ BackupManifest \/ StageManifest
    \/ \E p \in todo : \/ CopyEntry(p) \/ SkipEntry(p) \/ CopyBlocked(p)
                       \/ DeleteObsolete(p) \/ KeepEntry(p) \/ RefreshEntry(p)
    \/ CopyDone \/ ObsoleteDone \/ TruncateManifest
    \/ KeepDone \/ RefreshDone \/ Cleanup

OtherStep ==
    \/ Format \/ OverwriteDone \/ SetupRootAccount \/ SetupBlocked
    \/ BlankManifest \/ ScanDone
    \/ \E p \in todo : Overwrite(p) \/ OverwriteBlocked(p) \/ Scan(p)

Step == UpdateStep \/ OtherStep

Environment ==
    \/ Interrupt
    \/ \E image \in Images : BootImage(image)
    \/ \E p \in EditPaths, v \in EditValues : UserEdit(p, v)

Next == Command \/ Step \/ Environment

Spec == Init /\ [][Next]_vars

\* A run that started goes on; the administrator keeps retrying the update and
\* keeps running "repair manifest" where update-shell refuses the manifest.
RepairSpec ==
    Spec /\ WF_vars(Step) /\ SF_vars(StartUpdateShell) /\ SF_vars(RepairManifest)

(***************************************************************************)
(* Properties.                                                             *)
(***************************************************************************)

\* Every variable keeps its type; the work list stays within the paths.
TypeOK ==
    /\ iso \in Images
    /\ formatted \in BOOLEAN
    /\ target \in [Paths -> Slots]
    /\ {manifest, prev, staged, base} \subseteq ManifestFile
    /\ marker \in BOOLEAN
    /\ op \in {"none", "install", "kernel", "all", "repair", "account",
               "dry", "shell", "refused"}
    /\ pc \in {"idle", "format", "overwrite", "account", "blank", "scan",
               "mark", "backup", "stage", "copy", "obsolete", "truncate",
               "keep", "append", "cleanup"}
    /\ todo \subseteq Paths
    /\ outcome \in {"none", "running", "ok", "failed", "cut"}
    /\ edits \in 0..MaxEdits /\ interrupts \in 0..MaxInterrupts
    /\ owned \subseteq Paths
    /\ cut \in BOOLEAN

UpdateRunning == op = "shell" /\ pc # "idle"
UpdateSucceeded == op = "shell" /\ outcome = "ok"

\* "shell updated" (install_update_shell returned 1) means: every file of the
\* image is on the disk, every formerly tracked file the image dropped is
\* gone, and the manifest lists the image's files and the boot files with
\* exactly the contents found on the disk, so that verify passes.
ShellUpdated ==
    UpdateSucceeded =>
        /\ \A p \in NewPaths : target[p] = iso[p]
        /\ \A p \in Obsolete : ~IsFile(p)
        /\ NewPaths \subseteq Listed(manifest)
        /\ \A p \in Listed(manifest) : manifest.list[p] = target[p]
        /\ \A p \in Kept : IsFile(p) => p \in Listed(manifest)
        /\ ~manifest.torn

\* A shell update, whether it succeeds, fails or is cut at any point, touches
\* no file but those the image ships and those the old manifest tracked:
\* /home, users.db, /system/pkg, the kernel and the boot files stay as they are.
ScopeOnly ==
    [][UpdateRunning =>
         \A p \in Paths : target'[p] # target[p] => p \in NewPaths \cup Obsolete]_vars

\* The phases of update-shell keep the promise of UpdatePromise.
PromiseState ==
    IF op # "shell" THEN "quiet"
    ELSE IF pc # "idle" THEN "updating"
    ELSE IF outcome = "ok" THEN "updated" ELSE "quiet"
PromiseScope ==
    IF PromiseState = "quiet" THEN {} ELSE NewPaths \cup Obsolete
P == INSTANCE UpdatePromise WITH
        Managed <- ShellPaths, files <- target, image <- iso,
        tracked <- manifest.list, scope <- PromiseScope, state <- PromiseState

\* update-shell implements UpdatePromise, under cuts, failures, user edits and
\* image changes.
KeepsPromise == P!Promise

\* From the start of a shell update until another command runs, unless it
\* succeeds, the list of tracked files the update started from is still on the
\* disk in full: in the manifest itself or in its .prev copy.
BackupKept ==
    (op = "shell" /\ outcome \in {"running", "cut", "failed"} /\ base.present)
        => (manifest = base \/ prev = base)

\* When a shell update was cut while it rewrote the manifest, so that the
\* manifest misses files or ends in a torn line, update_state.db says so.
InterruptionMarked ==
    ( /\ op = "shell" /\ outcome \in {"running", "cut", "failed"}
      /\ manifest # base
      /\ manifest.torn \/ ~(NewPaths \subseteq Listed(manifest)) )
        => marker

\* A shell update never writes the hash of a shell file it left half written
\* into the manifest: what verify accepts after an update is never a torn copy.
NoTornCertified ==
    [][UpdateRunning =>
         \A p \in ShellPaths :
            manifest'.list[p] = Partial => manifest.list[p] = Partial]_vars

\* As long as no run was cut since the manifest last described the whole
\* disk, the manifest lists every shell file the installer left there: an
\* update across any sequence of images loses track of no file of its own.
TrackedUnlessCut ==
    (pc = "idle" /\ ~cut) => (owned \cap ShellPaths) \subseteq Listed(manifest)

\* install2disk_main.c:2742 reports "preserved ... untracked files".
UntrackedPreserved ==
    [][UpdateRunning =>
         \A p \in Paths :
            (target[p] \in Contents /\ base.list[p] = NoFile /\ p \notin owned)
                => target'[p] = target[p]]_vars

(***************************************************************************)
(* The inductive invariant behind these properties: what each phase of a   *)
(* run has achieved so far.                                                *)
(***************************************************************************)
UpdatePhases == {"mark", "backup", "stage", "copy", "obsolete", "truncate",
                 "keep", "append", "cleanup"}
BeforeRefresh == {"mark", "backup", "stage", "copy", "obsolete", "truncate"}

ImageOnDisk(work) == \A p \in NewPaths \ work : target[p] = iso[p]
ObsoleteGone(work) == \A p \in Obsolete \ work : ~IsFile(p)
ListsTruth == \A p \in Listed(manifest) : manifest.list[p] = target[p]
KeptListed(work) ==
    \A p \in Kept \ work : IsFile(p) => p \in Listed(manifest)
NewListed(work) == NewPaths \ work \subseteq Listed(manifest)

RunInv ==
    /\ pc = "idle" <=> outcome # "running"
    /\ pc \in UpdatePhases => op = "shell" /\ formatted
    /\ op = "shell" => pc \in UpdatePhases \cup {"idle"}
    /\ pc = "idle" => todo = {}
    /\ pc = "scan" => \A p \in todo : IsFile(p)

CopyInv ==
    /\ pc = "copy" => todo \subseteq NewPaths /\ ImageOnDisk(todo)
    /\ pc \in {"obsolete", "truncate", "keep", "append", "cleanup"}
         => ImageOnDisk({})
    /\ pc = "obsolete" => todo \subseteq Obsolete /\ ObsoleteGone(todo)
    /\ pc \in {"truncate", "keep", "append", "cleanup"} => ObsoleteGone({})

ListInv ==
    /\ pc \in {"keep", "append", "cleanup"} => ~manifest.torn /\ ListsTruth
    /\ pc = "keep" => todo \subseteq Kept /\ KeptListed(todo)
    /\ pc \in {"append", "cleanup"} => KeptListed({})
    /\ pc = "append" => todo \subseteq NewPaths /\ NewListed(todo)
    /\ pc = "cleanup" => NewListed({})

BackupInv ==
    /\ pc \in BeforeRefresh => manifest = base
    /\ pc \in UpdatePhases \ {"mark", "backup"} => (base.present => prev = base)
    /\ pc \in UpdatePhases \ {"mark"} => marker

WorkInv == RunInv /\ CopyInv /\ ListInv /\ BackupInv

\* What is known of the files the installer wrote last: they are files, and
\* every phase finds its shell files in the manifest, in the list it is about
\* to rebuild, or in the list it has just loaded.
ShellOwned == owned \cap ShellPaths
OutsideShell ==
    \/ pc = "idle"
    \/ pc = "overwrite" /\ op \in {"kernel", "all"}
    \/ pc = "account" /\ op = "account"

OverwriteInv ==
    /\ pc = "format" => op = "install"
    /\ pc = "overwrite" =>
         /\ op \in {"install", "kernel", "all", "repair"}
         /\ \A p \in todo : iso[p] # NoFile
         /\ op \in {"kernel", "all"} => todo \cap ShellPaths = {}
    /\ pc = "account" => op \in {"install", "account"}
    /\ op = "install" /\ pc \in {"overwrite", "account"} => target[UsersDb] # Dir

OwnedInv ==
    /\ OverwriteInv
    /\ \A p \in owned : IsFile(p)
    /\ pc = "scan" => ShellOwned \subseteq Listed(manifest) \cup todo
    /\ ~cut =>
         /\ OutsideShell => ShellOwned \subseteq Listed(manifest)
         /\ pc \in {"mark", "backup", "stage", "copy"}
              => ShellOwned \subseteq Listed(base) \cup NewPaths
         /\ pc = "obsolete" => ShellOwned \subseteq NewPaths \cup todo
         /\ pc \in {"truncate", "keep", "append", "cleanup"}
              => ShellOwned \subseteq NewPaths

\* What every phase relies on and what it leaves to the next one: the copied
\* files are the image's, the removed files are gone, the entries written are
\* the files found, the old manifest is intact or backed up, and no file the
\* installer wrote is out of sight.
PhaseInv == WorkInv /\ OwnedInv

\* However a run was cut, retries of update-shell reach a complete update on
\* every formatted disk, given "repair manifest" for a manifest that a cut left
\* torn and that update-shell refuses to load.
RepairConverges ==
    formatted ~> (UpdateSucceeded \/ ~formatted)
=============================================================================
