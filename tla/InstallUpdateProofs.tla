------------------------ MODULE InstallUpdateProofs ------------------------
(***************************************************************************)
(* Theorems about InstallUpdate: its type invariant and the inductive      *)
(* invariant PhaseInv, and from them the promises of a shell update.       *)
(***************************************************************************)
EXTENDS InstallUpdate, TLAPS

Inv == TypeOK /\ WorkInv

(***************************************************************************)
(* Manifest values.                                                        *)
(***************************************************************************)

\* The manifests the program builds from nothing are manifest files.
LEMMA ManifestValues ==
    /\ NoManifest \in ManifestFile
    /\ EmptyManifest \in ManifestFile
    /\ TornManifest \in ManifestFile
  BY DEF NoManifest, EmptyManifest, TornManifest, NoEntries, ManifestFile, Hashes

\* The manifest staged for an update is a manifest file.
LEMMA NewManifestType ==
  ASSUME TypeOK
  PROVE  NewManifest \in ManifestFile
<1>1. iso \in [Paths -> Contents \cup {NoFile}]
  BY BoundsAssumption DEF TypeOK
<1>2. [p \in Paths |-> IF p \in NewPaths THEN iso[p] ELSE NoFile] \in [Paths -> Hashes]
  BY <1>1 DEF Hashes
<1>. QED
  BY <1>2 DEF NewManifest, ManifestFile

\* An entry recorded for a file found on the disk keeps the manifest a
\* manifest file: a directory is never recorded.
LEMMA RecordedType ==
  ASSUME TypeOK, NEW p \in Paths, IsFile(p)
  PROVE  Recorded(p) \in ManifestFile
<1>1. target[p] \in Hashes
  BY DEF TypeOK, Slots, Hashes, IsFile
<1>2. manifest \in ManifestFile
  BY DEF TypeOK
<1>. QED
  BY <1>1, <1>2 DEF Recorded, ManifestFile

(***************************************************************************)
(* Initial states.                                                         *)
(***************************************************************************)
LEMMA InitInv == Init => Inv
<1>. SUFFICES ASSUME Init PROVE Inv
  OBVIOUS
<1>1. TypeOK
  <2>1. target \in [Paths -> Slots]
    BY DEF Init, NoEntries, Slots
  <2>2. edits \in 0..MaxEdits /\ interrupts \in 0..MaxInterrupts
    BY BoundsAssumption DEF Init
  <2>. QED
    BY <2>1, <2>2, ManifestValues DEF Init, TypeOK
<1>2. WorkInv
  BY DEF Init, WorkInv, RunInv, CopyInv, ListInv, BackupInv, UpdatePhases,
         BeforeRefresh
<1>. QED
  BY <1>1, <1>2 DEF Inv

(***************************************************************************)
(* Steps keep the types.                                                   *)
(***************************************************************************)

\* The commands and the phases of update-shell.
LEMMA CommandType == Inv /\ Command => TypeOK'
<1>. SUFFICES ASSUME Inv, Command PROVE TypeOK'
  OBVIOUS
<1>. USE ManifestValues, PathsAssumption
<1>1. CASE StartInstall
  BY <1>1 DEF Inv, TypeOK, StartInstall, Begin, disk, env
<1>2. CASE StartResetRoot
  BY <1>2 DEF Inv, TypeOK, StartResetRoot, Begin, disk, env
<1>3. CASE DryRun
  BY <1>3 DEF Inv, TypeOK, DryRun, disk, env
<1>4. CASE StartUpdateShell
  BY <1>4 DEF Inv, TypeOK, StartUpdateShell, disk, env
<1>5. ASSUME NEW c \in {"kernel", "all"}, StartUpdateKernel(c) PROVE TypeOK'
  BY <1>5 DEF Inv, TypeOK, StartUpdateKernel, Begin, disk, env
<1>6. ASSUME NEW work \in SUBSET Paths, StartRepair(work) PROVE TypeOK'
  BY <1>6 DEF Inv, TypeOK, StartRepair, Begin, disk, env
<1>. QED
  BY <1>1, <1>2, <1>3, <1>4, <1>5, <1>6
     DEF Command, RepairManifest, RepairConf, RepairPath

LEMMA UpdateType == Inv /\ UpdateStep => TypeOK'
<1>. SUFFICES ASSUME Inv, UpdateStep PROVE TypeOK'
  OBVIOUS
<1>. USE ManifestValues, PathsAssumption
<1>0. iso \in [Paths -> Contents \cup {NoFile}]
  BY BoundsAssumption DEF Inv, TypeOK
<1>1. CASE WriteState
  BY <1>1 DEF Inv, TypeOK, WriteState, Goto, env
<1>2. CASE BackupManifest
  BY <1>2 DEF Inv, TypeOK, BackupManifest, Goto, env
<1>3. CASE StageManifest
  BY <1>3, NewManifestType DEF Inv, TypeOK, StageManifest, Goto, env, NewPaths
<1>4. ASSUME NEW p \in todo, CopyEntry(p) PROVE TypeOK'
  BY <1>0, <1>4 DEF Inv, TypeOK, CopyEntry, Goto, env, Slots
<1>5. ASSUME NEW p \in todo, SkipEntry(p) PROVE TypeOK'
  BY <1>5 DEF Inv, TypeOK, SkipEntry, Goto, disk, env
<1>6. ASSUME NEW p \in todo, CopyBlocked(p) PROVE TypeOK'
  BY <1>6 DEF Inv, TypeOK, CopyBlocked, End, disk, env
<1>7. ASSUME NEW p \in todo, DeleteObsolete(p) PROVE TypeOK'
  BY <1>7 DEF Inv, TypeOK, DeleteObsolete, Goto, env, Slots
<1>8. ASSUME NEW p \in todo, KeepEntry(p) PROVE TypeOK'
  <2>1. CASE IsFile(p) /\ AppendEntry(p) /\ Goto("keep", todo \ {p})
    <3>1. Recorded(p) \in ManifestFile
      BY <2>1, RecordedType DEF Inv, TypeOK
    <3>. QED
      BY <2>1, <3>1 DEF Inv, TypeOK, AppendEntry, Goto, env
  <2>2. CASE IsFile(p) /\ ManifestFull
    BY <2>2 DEF Inv, TypeOK, ManifestFull, End, disk, env
  <2>3. CASE /\ ~IsFile(p) /\ Goto("keep", todo \ {p})
             /\ UNCHANGED <<disk, env, owned, cut>>
    BY <2>3 DEF Inv, TypeOK, Goto, disk, env
  <2>. QED
    BY <1>8, <2>1, <2>2, <2>3 DEF KeepEntry
<1>9. ASSUME NEW p \in todo, RefreshEntry(p) PROVE TypeOK'
  <2>1. IsFile(p)
    <3>1. p \in NewPaths /\ target[p] = iso[p]
      BY <1>9 DEF Inv, WorkInv, ListInv, CopyInv, ImageOnDisk, RefreshEntry
    <3>. QED
      BY <1>0, <3>1, ContentsAssumption DEF NewPaths, IsFile
  <2>2. CASE AppendEntry(p) /\ Goto("append", todo \ {p})
    <3>1. Recorded(p) \in ManifestFile
      BY <2>1, RecordedType DEF Inv, TypeOK
    <3>. QED
      BY <2>2, <3>1 DEF Inv, TypeOK, AppendEntry, Goto, env
  <2>3. CASE ManifestFull
    BY <2>3 DEF Inv, TypeOK, ManifestFull, End, disk, env
  <2>. QED
    BY <1>9, <2>2, <2>3 DEF RefreshEntry
<1>10. CASE CopyDone
  BY <1>10 DEF Inv, TypeOK, CopyDone, Goto, disk, env, Obsolete
<1>11. CASE ObsoleteDone
  BY <1>11 DEF Inv, TypeOK, ObsoleteDone, Goto, disk, env
<1>12. CASE TruncateManifest
  BY <1>12 DEF Inv, TypeOK, TruncateManifest, Goto, env, Kept
<1>13. CASE KeepDone
  BY <1>13 DEF Inv, TypeOK, KeepDone, Goto, disk, env, NewPaths
<1>14. CASE RefreshDone
  BY <1>14 DEF Inv, TypeOK, RefreshDone, Goto, disk, env
<1>15. CASE Cleanup
  BY <1>15 DEF Inv, TypeOK, Cleanup, End, env
<1>. QED
  BY <1>1, <1>2, <1>3, <1>4, <1>5, <1>6, <1>7, <1>8, <1>9, <1>10, <1>11,
     <1>12, <1>13, <1>14, <1>15 DEF UpdateStep

LEMMA OtherType == Inv /\ OtherStep => TypeOK'
<1>. SUFFICES ASSUME Inv, OtherStep PROVE TypeOK'
  OBVIOUS
<1>. USE ManifestValues, PathsAssumption
<1>0. iso \in [Paths -> Contents \cup {NoFile}]
  BY BoundsAssumption DEF Inv, TypeOK
<1>1. CASE Format
  <2>1. NoEntries \in [Paths -> Slots]
    BY DEF NoEntries, Slots
  <2>2. InstallTree \subseteq Paths
    BY DEF InstallTree
  <2>. QED
    BY <1>1, <2>1, <2>2 DEF Inv, TypeOK, Format, Goto, env
<1>2. CASE OverwriteDone
  BY <1>2 DEF Inv, TypeOK, OverwriteDone, Goto, End, disk, env
<1>3. CASE SetupRootAccount
  BY <1>3, ContentsAssumption
     DEF Inv, TypeOK, SetupRootAccount, Goto, End, env, Slots
<1>4. CASE SetupBlocked
  BY <1>4 DEF Inv, TypeOK, SetupBlocked, End, disk, env
<1>5. CASE BlankManifest
  BY <1>5 DEF Inv, TypeOK, BlankManifest, Goto, env, Included
<1>6. CASE ScanDone
  BY <1>6 DEF Inv, TypeOK, ScanDone, End, disk, env
<1>7. ASSUME NEW p \in todo, Overwrite(p) PROVE TypeOK'
  BY <1>0, <1>7 DEF Inv, TypeOK, Overwrite, OverwriteNext, Goto, env, Slots
<1>8. ASSUME NEW p \in todo, OverwriteBlocked(p) PROVE TypeOK'
  BY <1>8 DEF Inv, TypeOK, OverwriteBlocked, End, disk, env
<1>9. ASSUME NEW p \in todo, Scan(p) PROVE TypeOK'
  <2>1. IsFile(p)
    BY <1>9 DEF Inv, WorkInv, RunInv, Scan
  <2>2. CASE AppendEntry(p) /\ Goto("scan", todo \ {p})
    <3>1. Recorded(p) \in ManifestFile
      BY <2>1, RecordedType DEF Inv, TypeOK
    <3>. QED
      BY <2>2, <3>1 DEF Inv, TypeOK, AppendEntry, Goto, env
  <2>3. CASE ManifestFull
    BY <2>3 DEF Inv, TypeOK, ManifestFull, End, disk, env
  <2>. QED
    BY <1>9, <2>2, <2>3 DEF Scan
<1>. QED
  BY <1>1, <1>2, <1>3, <1>4, <1>5, <1>6, <1>7, <1>8, <1>9 DEF OtherStep

\* What a cut can leave: every partial effect stays within the types.
LEMMA InterruptType == Inv /\ Interrupt => TypeOK'
<1>. SUFFICES ASSUME Inv, Interrupt PROVE TypeOK'
  OBVIOUS
<1>. USE ManifestValues, PathsAssumption
<1>1. /\ interrupts' \in 0..MaxInterrupts
      /\ cut' \in BOOLEAN /\ iso' \in Images /\ edits' \in 0..MaxEdits
      /\ pc' = "idle" /\ todo' = {} /\ outcome' = "cut"
      /\ op' = op /\ base' = base
  BY BoundsAssumption DEF Inv, TypeOK, Interrupt, End
<1>2. SUFFICES /\ formatted' \in BOOLEAN
               /\ target' \in [Paths -> Slots]
               /\ manifest' \in ManifestFile /\ prev' \in ManifestFile
               /\ staged' \in ManifestFile
               /\ marker' \in BOOLEAN
               /\ owned' \subseteq Paths
  BY <1>1 DEF Inv, TypeOK
<1>3. ASSUME NEW p \in Paths, NEW slots \in SUBSET Slots, CutTarget(p, slots)
      PROVE  target' \in [Paths -> Slots] /\ owned' \subseteq Paths
  <2>1. PICK s \in slots :
          /\ target' = [target EXCEPT ![p] = s]
          /\ owned' = IF s = target[p] THEN owned
                      ELSE IF s = NoFile THEN owned \ {p} ELSE owned \cup {p}
    BY <1>3 DEF CutTarget
  <2>. QED
    BY <2>1 DEF Inv, TypeOK
<1>4. ASSUME NEW p \in Paths
      PROVE  {target[p], NoFile, Partial} \subseteq Slots
  BY DEF Inv, TypeOK, Slots
<1>5. ASSUME NEW p \in todo, CutOverwrite(p) PROVE <1>2!1
  BY <1>3, <1>4, <1>5 DEF Inv, TypeOK, CutOverwrite
<1>6. ASSUME NEW p \in todo, CutCopyEntry(p) PROVE <1>2!1
  BY <1>3, <1>4, <1>6 DEF Inv, TypeOK, CutCopyEntry
<1>7. CASE CutAccount
  BY <1>3, <1>4, <1>7 DEF Inv, TypeOK, CutAccount
<1>8. CASE CutManifest
  <2>1. [manifest EXCEPT !.torn = TRUE] \in ManifestFile
    BY DEF Inv, TypeOK, ManifestFile
  <2>. QED
    BY <1>8, <2>1 DEF Inv, TypeOK, CutManifest
<1>9. CASE CutState
  BY <1>9, NewManifestType DEF Inv, TypeOK, CutState, CutCopy
<1>10. CASE CutFormat
  <2>1. NoEntries \in [Paths -> Slots]
    BY DEF NoEntries, Slots
  <2>. QED
    BY <1>10, <2>1 DEF CutFormat
<1>11. CASE CutNothing
  BY <1>11 DEF Inv, TypeOK, CutNothing, disk
<1>. QED
  BY <1>5, <1>6, <1>7, <1>8, <1>9, <1>10, <1>11 DEF Interrupt

LEMMA NextType == Inv /\ [Next]_vars => TypeOK'
<1>. SUFFICES ASSUME Inv, [Next]_vars PROVE TypeOK'
  OBVIOUS
<1>1. ASSUME NEW image \in Images, BootImage(image) PROVE TypeOK'
  BY <1>1, ManifestValues DEF Inv, TypeOK, BootImage, disk
<1>2. ASSUME NEW p \in EditPaths, NEW v \in EditValues, UserEdit(p, v)
      PROVE  TypeOK'
  BY <1>2, ManifestValues, BoundsAssumption DEF Inv, TypeOK, UserEdit, Slots
<1>3. CASE UNCHANGED vars
  BY <1>3 DEF Inv, TypeOK, vars, disk, run, env
<1>. QED
  BY <1>1, <1>2, <1>3, CommandType, UpdateType, OtherType, InterruptType
     DEF Next, Step, Environment

(***************************************************************************)
(* Steps keep what the phases rely on.                                     *)
(***************************************************************************)

\* Only the phases of a shell update carry obligations about files.
LEMMA OutsideUpdate ==
  ASSUME pc' \notin UpdatePhases
  PROVE  CopyInv' /\ ListInv' /\ BackupInv'
  BY DEF CopyInv, ListInv, BackupInv, UpdatePhases, BeforeRefresh

LEMMA CommandPhase == Inv /\ Command => WorkInv'
<1>. SUFFICES ASSUME Inv, Command PROVE WorkInv'
  OBVIOUS
<1>. USE DEF Inv, WorkInv, RunInv, UpdatePhases
<1>1. CASE StartInstall
  BY <1>1, OutsideUpdate DEF StartInstall, Begin
<1>2. CASE StartResetRoot
  BY <1>2, OutsideUpdate DEF StartResetRoot, Begin
<1>3. CASE DryRun
  BY <1>3, OutsideUpdate DEF DryRun
<1>4. CASE StartUpdateShell
  <2>1. CASE Loadable
    BY <1>4, <2>1 DEF StartUpdateShell, CopyInv, ListInv, BackupInv, BeforeRefresh, disk
  <2>2. CASE ~Loadable
    BY <1>4, <2>2, OutsideUpdate DEF StartUpdateShell
  <2>. QED
    BY <2>1, <2>2
<1>5. ASSUME NEW c \in {"kernel", "all"}, StartUpdateKernel(c) PROVE WorkInv'
  BY <1>5, OutsideUpdate DEF StartUpdateKernel, Begin
<1>6. ASSUME NEW work \in SUBSET Paths, StartRepair(work) PROVE WorkInv'
  BY <1>6, OutsideUpdate DEF StartRepair, Begin
<1>. QED
  BY <1>1, <1>2, <1>3, <1>4, <1>5, <1>6, PathsAssumption
     DEF Command, RepairManifest, RepairConf, RepairPath

LEMMA OtherPhase == Inv /\ OtherStep => WorkInv'
<1>. SUFFICES ASSUME Inv, OtherStep PROVE WorkInv'
  OBVIOUS
<1>. USE DEF Inv, WorkInv, RunInv, UpdatePhases
<1>1. CASE Format
  BY <1>1, OutsideUpdate DEF Format, Goto
<1>2. CASE OverwriteDone
  <2>1. CASE op = "all" /\ Loadable
    BY <1>2, <2>1
       DEF OverwriteDone, Loadable, CopyInv, ListInv, BackupInv, BeforeRefresh, disk, Goto, End
  <2>2. CASE ~(op = "all" /\ Loadable)
    BY <1>2, <2>2, OutsideUpdate DEF OverwriteDone, Goto, End
  <2>. QED
    BY <2>1, <2>2
<1>3. CASE SetupRootAccount
  BY <1>3, OutsideUpdate DEF SetupRootAccount, Goto, End
<1>4. CASE SetupBlocked
  BY <1>4, OutsideUpdate DEF SetupBlocked, End
<1>5. CASE BlankManifest
  BY <1>5, OutsideUpdate DEF BlankManifest, Goto, IsFile
<1>6. CASE ScanDone
  BY <1>6, OutsideUpdate DEF ScanDone, End
<1>7. ASSUME NEW p \in todo, Overwrite(p) PROVE WorkInv'
  BY <1>7, OutsideUpdate DEF Overwrite, OverwriteNext, Goto
<1>8. ASSUME NEW p \in todo, OverwriteBlocked(p) PROVE WorkInv'
  BY <1>8, OutsideUpdate DEF OverwriteBlocked, OverwriteNext, End
<1>9. ASSUME NEW p \in todo, Scan(p) PROVE WorkInv'
  BY <1>9, OutsideUpdate DEF Scan, AppendEntry, ManifestFull, Goto, End, IsFile
<1>. QED
  BY <1>1, <1>2, <1>3, <1>4, <1>5, <1>6, <1>7, <1>8, <1>9 DEF OtherStep

\* Steps of update-shell that change neither the image nor what it compares
\* with keep the plan.
LEMMA SamePlan ==
  ASSUME UNCHANGED <<iso, base>>
  PROVE  NewPaths' = NewPaths /\ Obsolete' = Obsolete /\ Kept' = Kept
  BY DEF NewPaths, Obsolete, Kept

LEMMA UpdatePhase == Inv /\ UpdateStep => WorkInv'
<1>. SUFFICES ASSUME Inv, UpdateStep PROVE WorkInv'
  OBVIOUS
<1>. USE PathsAssumption DEF WorkInv, RunInv, UpdatePhases, BeforeRefresh
<1>1. CASE WriteState
  BY <1>1, SamePlan DEF Inv, WriteState, Goto, env, CopyInv, ListInv, BackupInv
<1>2. CASE BackupManifest
  BY <1>2, SamePlan DEF Inv, BackupManifest, Goto, env, CopyInv, ListInv, BackupInv
<1>3. CASE StageManifest
  BY <1>3, SamePlan
     DEF Inv, StageManifest, Goto, env, CopyInv, ListInv, BackupInv, ImageOnDisk
<1>4. ASSUME NEW p \in todo, CopyEntry(p) PROVE WorkInv'
  BY <1>4, SamePlan
     DEF Inv, TypeOK, CopyEntry, Goto, env, CopyInv, ListInv, BackupInv, ImageOnDisk
<1>5. ASSUME NEW p \in todo, SkipEntry(p) PROVE WorkInv'
  BY <1>5, SamePlan
     DEF Inv, SkipEntry, PlanCopy, TargetMatches, Goto, env, disk, CopyInv,
         ListInv, BackupInv, ImageOnDisk
<1>6. ASSUME NEW p \in todo, CopyBlocked(p) PROVE WorkInv'
  BY <1>6, OutsideUpdate DEF Inv, CopyBlocked, End
<1>7. ASSUME NEW p \in todo, DeleteObsolete(p) PROVE WorkInv'
  <2>1. p \in Obsolete /\ p \notin NewPaths
    BY <1>7 DEF Inv, DeleteObsolete, CopyInv, Obsolete, NewPaths
  <2>2. target'[p] \in {NoFile, Dir} /\ \A q \in Paths \ {p} : target'[q] = target[q]
    BY <1>7, <2>1 DEF Inv, TypeOK, DeleteObsolete, IsFile, Obsolete
  <2>3. ImageOnDisk({})'
    BY <1>7, <2>1, <2>2, SamePlan
       DEF Inv, DeleteObsolete, Goto, env, CopyInv, ImageOnDisk, NewPaths
  <2>4. (todo \subseteq Obsolete /\ ObsoleteGone(todo))'
    BY <1>7, <2>1, <2>2, SamePlan
       DEF Inv, DeleteObsolete, Goto, env, CopyInv, ObsoleteGone, IsFile, Obsolete
  <2>. QED
    BY <1>7, <2>3, <2>4
       DEF Inv, DeleteObsolete, Goto, CopyInv, ListInv, BackupInv
<1>8. ASSUME NEW p \in todo, KeepEntry(p) PROVE WorkInv'
  <2>1. CASE IsFile(p) /\ AppendEntry(p) /\ Goto("keep", todo \ {p})
    <3>1. /\ Listed(manifest)' = Listed(manifest) \cup {p}
          /\ ListsTruth'
          /\ manifest'.torn = manifest.torn
      BY <1>8, <2>1, ContentsAssumption
         DEF Inv, TypeOK, KeepEntry, AppendEntry, Recorded, ListInv, ListsTruth,
             Listed, IsFile, ManifestFile
    <3>. QED
      BY <1>8, <2>1, <3>1, SamePlan
         DEF Inv, KeepEntry, AppendEntry, Goto, env, CopyInv, ListInv, BackupInv,
             ImageOnDisk, ObsoleteGone, KeptListed, IsFile
  <2>2. CASE IsFile(p) /\ ManifestFull
    BY <2>2, OutsideUpdate DEF ManifestFull, End
  <2>3. CASE /\ ~IsFile(p) /\ Goto("keep", todo \ {p})
             /\ UNCHANGED <<disk, env, owned, cut>>
    BY <1>8, <2>3, SamePlan
       DEF Inv, KeepEntry, Goto, disk, env, CopyInv, ListInv, BackupInv,
           ImageOnDisk, ObsoleteGone, KeptListed, ListsTruth, Listed, IsFile
  <2>. QED
    BY <1>8, <2>1, <2>2, <2>3 DEF KeepEntry
<1>9. ASSUME NEW p \in todo, RefreshEntry(p) PROVE WorkInv'
  <2>1. CASE AppendEntry(p) /\ Goto("append", todo \ {p})
    <3>1. p \in NewPaths /\ target[p] = iso[p]
      BY <1>9 DEF Inv, RefreshEntry, CopyInv, ListInv, ImageOnDisk
    <3>2. /\ Listed(manifest)' = Listed(manifest) \cup {p}
          /\ ListsTruth'
          /\ manifest'.torn = manifest.torn
      BY <1>9, <2>1, <3>1, ContentsAssumption
         DEF Inv, TypeOK, RefreshEntry, AppendEntry, Recorded, ListInv, ListsTruth,
             Listed, NewPaths, ManifestFile
    <3>. QED
      BY <1>9, <2>1, <3>2, SamePlan
         DEF Inv, RefreshEntry, AppendEntry, Goto, env, CopyInv, ListInv, BackupInv,
             ImageOnDisk, ObsoleteGone, KeptListed, NewListed, IsFile
  <2>2. CASE ManifestFull
    BY <2>2, OutsideUpdate DEF ManifestFull, End
  <2>. QED
    BY <1>9, <2>1, <2>2 DEF RefreshEntry
<1>10. CASE CopyDone
  BY <1>10, SamePlan
     DEF Inv, CopyDone, Goto, disk, env, CopyInv, ListInv, BackupInv,
         ImageOnDisk, ObsoleteGone
<1>11. CASE ObsoleteDone
  BY <1>11, SamePlan
     DEF Inv, ObsoleteDone, Goto, disk, env, CopyInv, ListInv, BackupInv,
         ImageOnDisk, ObsoleteGone, IsFile
<1>12. CASE TruncateManifest
  BY <1>12, SamePlan
     DEF Inv, TruncateManifest, Goto, env, CopyInv, ListInv, BackupInv,
         ImageOnDisk, ObsoleteGone, IsFile, ListsTruth, Listed, KeptListed,
         EmptyManifest, NoEntries
<1>13. CASE KeepDone
  BY <1>13, SamePlan
     DEF Inv, KeepDone, Goto, disk, env, CopyInv, ListInv, BackupInv,
         ImageOnDisk, ObsoleteGone, IsFile, ListsTruth, Listed, KeptListed, NewListed
<1>14. CASE RefreshDone
  BY <1>14, SamePlan
     DEF Inv, RefreshDone, Goto, disk, env, CopyInv, ListInv, BackupInv,
         ImageOnDisk, ObsoleteGone, IsFile, ListsTruth, Listed, KeptListed, NewListed
<1>15. CASE Cleanup
  BY <1>15, OutsideUpdate DEF Inv, Cleanup, End
<1>. QED
  BY <1>1, <1>2, <1>3, <1>4, <1>5, <1>6, <1>7, <1>8, <1>9, <1>10, <1>11,
     <1>12, <1>13, <1>14, <1>15 DEF UpdateStep

LEMMA NextWork == Inv /\ [Next]_vars => WorkInv'
<1>. SUFFICES ASSUME Inv, [Next]_vars PROVE WorkInv'
  OBVIOUS
<1>1. CASE Interrupt
  BY <1>1, OutsideUpdate
     DEF Inv, WorkInv, RunInv, UpdatePhases, Interrupt, End
<1>2. ASSUME NEW image \in Images, BootImage(image) PROVE WorkInv'
  BY <1>2, OutsideUpdate DEF Inv, WorkInv, RunInv, UpdatePhases, BootImage, disk
<1>3. ASSUME NEW p \in EditPaths, NEW v \in EditValues, UserEdit(p, v)
      PROVE  WorkInv'
  BY <1>3, OutsideUpdate DEF Inv, WorkInv, RunInv, UpdatePhases, UserEdit
<1>4. CASE UNCHANGED vars
  BY <1>4 DEF Inv, WorkInv, RunInv, CopyInv, ListInv, BackupInv, vars, disk, run,
              env, ImageOnDisk, ObsoleteGone, IsFile, ListsTruth, Listed,
              KeptListed, NewListed, NewPaths, Obsolete, Kept
<1>. QED
  BY <1>1, <1>2, <1>3, <1>4, CommandPhase, UpdatePhase, OtherPhase
     DEF Next, Step, Environment

(***************************************************************************)
(* Steps keep what is known of the installer's own files.                  *)
(***************************************************************************)

LEMMA OwnedInit == Init => OwnedInv
  BY DEF Init, OwnedInv, OverwriteInv, ShellOwned, OutsideShell

LEMMA OwnedCommand == Inv /\ OwnedInv /\ Command => OwnedInv'
<1>. SUFFICES ASSUME Inv, OwnedInv, Command PROVE OwnedInv'
  OBVIOUS
<1>. USE PathsAssumption
     DEF OwnedInv, OverwriteInv, ShellOwned, OutsideShell, disk, env, IsFile, Listed
<1>0. \A p \in ConfPaths \cup {KernelFile} : iso[p] # NoFile /\ p \notin ShellPaths
  BY BoundsAssumption DEF Inv, TypeOK, Included
<1>1. CASE StartInstall
  BY <1>1 DEF StartInstall, Begin
<1>2. CASE StartResetRoot
  BY <1>2 DEF StartResetRoot, Begin
<1>3. CASE DryRun
  BY <1>3 DEF DryRun
<1>4. CASE StartUpdateShell
  BY <1>4 DEF StartUpdateShell
<1>5. ASSUME NEW c \in {"kernel", "all"}, StartUpdateKernel(c) PROVE OwnedInv'
  BY <1>0, <1>5 DEF StartUpdateKernel, Begin
<1>6. ASSUME NEW work, \A p \in work : iso[p] # NoFile, StartRepair(work)
      PROVE  OwnedInv'
  BY <1>6 DEF StartRepair, Begin
<1>. QED
  BY <1>0, <1>1, <1>2, <1>3, <1>4, <1>5, <1>6
     DEF Command, RepairManifest, RepairConf, RepairPath

LEMMA OwnedUpdate == Inv /\ OwnedInv /\ UpdateStep => OwnedInv'
<1>. SUFFICES ASSUME Inv, OwnedInv, UpdateStep PROVE OwnedInv'
  OBVIOUS
<1>. USE PathsAssumption
     DEF OwnedInv, OverwriteInv, ShellOwned, OutsideShell, Inv, WorkInv
<1>0. iso \in [Paths -> Contents \cup {NoFile}]
  BY BoundsAssumption DEF TypeOK
<1>1. CASE WriteState \/ BackupManifest \/ StageManifest
  BY <1>1 DEF WriteState, BackupManifest, StageManifest, Goto, env, IsFile,
              Listed, NewPaths
<1>2. ASSUME NEW p \in todo, CopyEntry(p) PROVE OwnedInv'
  <2>1. p \in NewPaths /\ iso[p] \in Contents
    BY <1>0, <1>2 DEF CopyEntry, CopyInv, NewPaths
  <2>2. \A q \in owned' : IsFile(q)'
    BY <1>2, <2>1, ContentsAssumption DEF CopyEntry, IsFile, TypeOK
  <2>. QED
    BY <1>2, <2>1, <2>2, SamePlan DEF CopyEntry, Goto, env, Listed
<1>3. ASSUME NEW p \in todo, SkipEntry(p) PROVE OwnedInv'
  BY <1>3, SamePlan DEF SkipEntry, Goto, env, disk, IsFile, Listed
<1>4. ASSUME NEW p \in todo, CopyBlocked(p) PROVE OwnedInv'
  BY <1>4 DEF CopyBlocked, End, disk, IsFile
<1>5. ASSUME NEW p \in todo, DeleteObsolete(p) PROVE OwnedInv'
  <2>1. \A q \in owned' : IsFile(q)'
    BY <1>5 DEF DeleteObsolete, IsFile, TypeOK
  <2>. QED
    BY <1>5, <2>1, SamePlan DEF DeleteObsolete, Goto, env
<1>6. ASSUME NEW p \in todo, KeepEntry(p) \/ RefreshEntry(p) PROVE OwnedInv'
  BY <1>6, SamePlan DEF KeepEntry, RefreshEntry, AppendEntry, ManifestFull,
                        Goto, End, env, disk, IsFile
<1>7. CASE CopyDone
  <2>1. ~cut => ShellOwned \subseteq NewPaths \cup Obsolete
    BY <1>7 DEF CopyDone, NewPaths, Obsolete, Listed
  <2>. QED
    BY <1>7, <2>1, SamePlan DEF CopyDone, Goto, env, disk, IsFile
<1>8. CASE ObsoleteDone \/ TruncateManifest \/ KeepDone \/ RefreshDone
  BY <1>8, SamePlan DEF ObsoleteDone, TruncateManifest, KeepDone, RefreshDone,
                        Goto, env, disk, IsFile
<1>9. CASE Cleanup
  BY <1>9 DEF Cleanup, End, env, IsFile, Listed, ListInv, NewListed
<1>. QED
  BY <1>1, <1>2, <1>3, <1>4, <1>5, <1>6, <1>7, <1>8, <1>9 DEF UpdateStep

LEMMA OwnedOther == Inv /\ OwnedInv /\ OtherStep => OwnedInv'
<1>. SUFFICES ASSUME Inv, OwnedInv, OtherStep PROVE OwnedInv'
  OBVIOUS
<1>. USE PathsAssumption
     DEF OwnedInv, OverwriteInv, ShellOwned, OutsideShell, Inv, WorkInv, RunInv,
         UpdatePhases
<1>0. iso \in [Paths -> Contents \cup {NoFile}]
  BY BoundsAssumption DEF TypeOK
<1>1. CASE Format
  <2>1. \A p \in InstallTree : iso[p] # NoFile
    BY BoundsAssumption DEF InstallTree, TypeOK
  <2>2. target'[UsersDb] # Dir
    BY <1>1, ContentsAssumption DEF Format, NoEntries
  <2>. QED
    BY <1>1, <2>1, <2>2 DEF Format, Goto, env
<1>2. CASE OverwriteDone
  BY <1>2 DEF OverwriteDone, Goto, End, disk, env, IsFile, Listed
<1>3. CASE SetupRootAccount
  <2>1. \A q \in owned' : IsFile(q)'
    BY <1>3, ContentsAssumption DEF SetupRootAccount, IsFile, TypeOK
  <2>2. ShellOwned' = ShellOwned
    BY <1>3 DEF SetupRootAccount, Included
  <2>. QED
    BY <1>3, <2>1, <2>2 DEF SetupRootAccount, Goto, End, env, Listed
<1>4. CASE SetupBlocked
  BY <1>4 DEF SetupBlocked, End, disk, env, IsFile, Listed
<1>5. CASE BlankManifest
  BY <1>5 DEF BlankManifest, Goto, env, IsFile, Included, TypeOK
<1>6. CASE ScanDone
  BY <1>6 DEF ScanDone, End, disk, env, IsFile, Listed
<1>7. ASSUME NEW p \in todo, Overwrite(p) PROVE OwnedInv'
  <2>1. iso[p] # NoFile /\ iso[p] \in Contents
    BY <1>0, <1>7 DEF Overwrite, OverwriteNext, TypeOK
  <2>2. /\ \A q \in owned' : IsFile(q)'
        /\ target[UsersDb] # Dir => target'[UsersDb] # Dir
    BY <1>7, <2>1, ContentsAssumption DEF Overwrite, IsFile, TypeOK
  <2>. QED
    BY <1>7, <2>2 DEF Overwrite, OverwriteNext, Goto, env, Listed
<1>8. ASSUME NEW p \in todo, OverwriteBlocked(p) PROVE OwnedInv'
  BY <1>8 DEF OverwriteBlocked, End, disk, IsFile
<1>9. ASSUME NEW p \in todo, Scan(p) PROVE OwnedInv'
  <2>1. CASE AppendEntry(p) /\ Goto("scan", todo \ {p})
    <3>1. Listed(manifest) \cup {p} \subseteq Listed(manifest)'
      BY <1>9, <2>1 DEF Scan, AppendEntry, Recorded, Listed, IsFile, TypeOK,
                        ManifestFile
    <3>. QED
      BY <1>9, <2>1, <3>1 DEF Scan, AppendEntry, Goto, env, IsFile
  <2>2. CASE ManifestFull
    BY <2>2 DEF ManifestFull, End, disk, IsFile
  <2>. QED
    BY <1>9, <2>1, <2>2 DEF Scan
<1>. QED
  BY <1>1, <1>2, <1>3, <1>4, <1>5, <1>6, <1>7, <1>8, <1>9 DEF OtherStep

\* A cut ends the run: what is left to show is that it forgets the files it
\* removed.
LEMMA OwnedInterrupt == Inv /\ OwnedInv /\ Interrupt => OwnedInv'
<1>. SUFFICES ASSUME Inv, OwnedInv, Interrupt PROVE OwnedInv'
  OBVIOUS
<1>. USE PathsAssumption DEF OwnedInv
<1>1. pc' = "idle" /\ cut' = TRUE
  BY DEF Interrupt, End
<1>2. SUFFICES \A q \in owned' : IsFile(q)'
  BY <1>1 DEF OverwriteInv
<1>3. ASSUME NEW p \in Paths, NEW slots, slots \subseteq {target[p], NoFile, Partial},
             CutTarget(p, slots)
      PROVE  \A q \in owned' : IsFile(q)'
  <2>1. PICK s \in slots :
          /\ target' = [target EXCEPT ![p] = s]
          /\ owned' = IF s = target[p] THEN owned
                      ELSE IF s = NoFile THEN owned \ {p} ELSE owned \cup {p}
    BY <1>3 DEF CutTarget
  <2>. QED
    BY <1>3, <2>1, ContentsAssumption DEF IsFile, Inv, TypeOK
<1>4. ASSUME NEW p \in todo, CutOverwrite(p) \/ CutCopyEntry(p) PROVE <1>2!1
  BY <1>3, <1>4 DEF Inv, TypeOK, CutOverwrite, CutCopyEntry
<1>5. CASE CutAccount
  BY <1>3, <1>5 DEF CutAccount
<1>6. CASE CutManifest \/ CutState \/ CutNothing
  BY <1>6 DEF CutManifest, CutState, CutNothing, disk, IsFile
<1>7. CASE CutFormat
  BY <1>7 DEF CutFormat
<1>. QED
  BY <1>4, <1>5, <1>6, <1>7 DEF Interrupt

LEMMA OwnedNext == Inv /\ OwnedInv /\ [Next]_vars => OwnedInv'
<1>. SUFFICES ASSUME Inv, OwnedInv, [Next]_vars PROVE OwnedInv'
  OBVIOUS
<1>. USE DEF OwnedInv, OverwriteInv, ShellOwned, OutsideShell, IsFile, Listed
<1>1. ASSUME NEW image \in Images, BootImage(image) PROVE OwnedInv'
  BY <1>1 DEF BootImage, disk
<1>2. ASSUME NEW p \in EditPaths, NEW v \in EditValues, UserEdit(p, v)
      PROVE  OwnedInv'
  BY <1>2, BoundsAssumption DEF UserEdit, Inv, TypeOK
<1>3. CASE UNCHANGED vars
  BY <1>3 DEF vars, disk, run, env, NewPaths
<1>. QED
  BY <1>1, <1>2, <1>3, OwnedCommand, OwnedUpdate, OwnedOther, OwnedInterrupt
     DEF Next, Step, Environment

\* Type correctness and the phase invariant hold in every reachable state, for
\* every disk, every set of images and any number of cuts and edits.
THEOREM Invariance == Spec => [](TypeOK /\ PhaseInv)
<1>1. Inv /\ [Next]_vars => Inv'
  BY NextType, NextWork DEF Inv
<1>2. Spec => []Inv
  BY InitInv, <1>1, PTL DEF Spec
<1>3. Spec => []OwnedInv
  BY <1>2, OwnedInit, OwnedNext, PTL DEF Spec
<1>. QED
  BY <1>2, <1>3, PTL DEF Inv, PhaseInv

LEMMA InvHolds == Spec => []Inv
  BY Invariance, PTL DEF Inv, PhaseInv

\* An update across any sequence of images loses track of no file of its own,
\* unless a run was cut since the manifest last described the whole disk.
THEOREM NothingIsLost == Spec => []TrackedUnlessCut
<1>1. PhaseInv => TrackedUnlessCut
  BY DEF PhaseInv, OwnedInv, OutsideShell, ShellOwned, TrackedUnlessCut
<1>. QED
  BY <1>1, Invariance, PTL

\* Every variable keeps its type.
THEOREM TypeCorrect == Spec => []TypeOK
  BY Invariance, PTL

(***************************************************************************)
(* How a shell update can end: every step out of its phases is the clean   *)
(* end, a failure or a cut.                                                *)
(***************************************************************************)
Failure ==
    /\ outcome' = "failed" /\ pc \in UpdatePhases \ {"mark", "backup"}
    /\ UNCHANGED <<disk, iso, base>>
Ending ==
    \/ UNCHANGED vars
    \/ Cleanup
    \/ Interrupt /\ pc \in UpdatePhases
    \/ Failure

LEMMA EndOfUpdate ==
  ASSUME Inv, [Next]_vars, op' = "shell", pc' = "idle"
  PROVE  Ending
<1>. USE DEF Inv, WorkInv, RunInv, UpdatePhases, Ending, Failure
<1>1. CASE Command
  BY <1>1 DEF Command, StartInstall, StartResetRoot, DryRun, StartUpdateShell,
              StartUpdateKernel, RepairManifest, RepairConf, RepairPath,
              StartRepair, Begin
<1>2. CASE UpdateStep
  <2>1. ASSUME NEW p \in todo, CopyBlocked(p) PROVE Ending
    BY <2>1 DEF CopyBlocked, End, env
  <2>2. ASSUME NEW p \in todo, KeepEntry(p) PROVE Ending
    BY <2>2 DEF KeepEntry, ManifestFull, Goto, End, env
  <2>3. ASSUME NEW p \in todo, RefreshEntry(p) PROVE Ending
    BY <2>3 DEF RefreshEntry, ManifestFull, Goto, End, env
  <2>4. ASSUME NEW p \in todo, CopyEntry(p) \/ SkipEntry(p) \/ DeleteObsolete(p)
        PROVE  FALSE
    BY <2>4 DEF CopyEntry, SkipEntry, DeleteObsolete, Goto
  <2>5. CASE WriteState \/ BackupManifest \/ StageManifest \/ CopyDone
               \/ ObsoleteDone \/ TruncateManifest \/ KeepDone \/ RefreshDone
    BY <2>5 DEF WriteState, BackupManifest, StageManifest, CopyDone,
                ObsoleteDone, TruncateManifest, KeepDone, RefreshDone, Goto
  <2>. QED
    BY <1>2, <2>1, <2>2, <2>3, <2>4, <2>5 DEF UpdateStep
<1>3. CASE OtherStep
  BY <1>3 DEF OtherStep, Format, OverwriteDone, SetupRootAccount, SetupBlocked,
              BlankManifest, ScanDone, Overwrite, OverwriteNext, OverwriteBlocked,
              Scan, ManifestFull, Goto, End
<1>4. CASE Interrupt
  BY <1>4 DEF Interrupt, End
<1>5. ASSUME NEW image \in Images, BootImage(image) PROVE FALSE
  BY <1>5 DEF BootImage
<1>6. ASSUME NEW p \in EditPaths, NEW v \in EditValues, UserEdit(p, v) PROVE FALSE
  BY <1>6 DEF UserEdit
<1>. QED
  BY <1>1, <1>2, <1>3, <1>4, <1>5, <1>6 DEF Next, Step, Environment

(***************************************************************************)
(* What an ended update leaves behind.                                     *)
(***************************************************************************)
ResultInv == ShellUpdated /\ BackupKept /\ InterruptionMarked

\* While the update runs, the phase invariant is all the three need.
LEMMA ResultRunning == Inv /\ pc # "idle" => ResultInv
  BY DEF Inv, WorkInv, RunInv, BackupInv, ListInv, UpdatePhases, BeforeRefresh,
         ResultInv, ShellUpdated, BackupKept, InterruptionMarked, UpdateSucceeded,
         NewListed

LEMMA ResultCleanup == Inv /\ Cleanup => ResultInv'
<1>. SUFFICES ASSUME Inv, Cleanup PROVE ResultInv'
  OBVIOUS
<1>. USE DEF Cleanup, End, env, Inv, WorkInv
<1>1. NewPaths' = NewPaths /\ Obsolete' = Obsolete /\ Kept' = Kept
  BY SamePlan
<1>2. ShellUpdated'
  BY <1>1 DEF CopyInv, ListInv, ShellUpdated, ImageOnDisk, ObsoleteGone,
              ListsTruth, KeptListed, NewListed, IsFile, Listed
<1>3. BackupKept' /\ InterruptionMarked'
  BY DEF BackupKept, InterruptionMarked
<1>. QED
  BY <1>2, <1>3 DEF ResultInv

LEMMA ResultFailure == Inv /\ Failure /\ pc' = "idle" => ResultInv'
<1>. SUFFICES ASSUME Inv, Failure PROVE ResultInv'
  OBVIOUS
<1>. USE DEF Failure, disk, Inv, WorkInv, UpdatePhases
<1>1. ShellUpdated'
  BY DEF ShellUpdated, UpdateSucceeded
<1>2. BackupKept'
  BY DEF BackupKept, BackupInv
<1>3. InterruptionMarked'
  BY DEF InterruptionMarked, BackupInv
<1>. QED
  BY <1>1, <1>2, <1>3 DEF ResultInv

\* A cut in a phase that writes one of the state files leaves the others alone.
LEMMA ResultCut == Inv /\ Interrupt /\ pc \in UpdatePhases => ResultInv'
<1>. SUFFICES ASSUME Inv, Interrupt, pc \in UpdatePhases PROVE ResultInv'
  OBVIOUS
<1>. USE DEF Inv, WorkInv, UpdatePhases
<1>0. base' = base /\ iso' = iso /\ outcome' = "cut" /\ op = "shell" /\ NewPaths' = NewPaths
  BY SamePlan DEF Interrupt, End, RunInv
<1>1. ShellUpdated'
  BY <1>0 DEF ShellUpdated, UpdateSucceeded
<1>2. CASE UNCHANGED <<manifest, prev, marker>>
  BY <1>0, <1>2 DEF BackupInv, ListInv, ResultInv, BackupKept, InterruptionMarked,
                    BeforeRefresh, NewListed, Listed, ShellUpdated, UpdateSucceeded
<1>3. CASE CutManifest
  BY <1>0, <1>1, <1>3
     DEF CutManifest, BackupInv, BeforeRefresh, ResultInv, BackupKept, InterruptionMarked
<1>4. CASE CutState
  <2>1. manifest' = manifest
    BY <1>4 DEF CutState
  <2>2. CASE pc \in {"mark", "backup", "stage"}
    BY <1>0, <1>1, <1>4, <2>1, <2>2
       DEF CutState, BackupInv, BeforeRefresh, ResultInv, BackupKept, InterruptionMarked
  <2>3. CASE pc = "cleanup"
    <3>1. NewPaths \subseteq Listed(manifest) /\ ~manifest.torn
      BY <2>3 DEF ListInv, NewListed
    <3>2. Listed(manifest)' = Listed(manifest)
      BY <2>1 DEF Listed
    <3>. QED
      BY <1>0, <1>1, <1>4, <2>1, <2>3, <3>1, <3>2
         DEF CutState, BackupInv, ResultInv, BackupKept, InterruptionMarked
  <2>. QED
    BY <1>4, <2>2, <2>3 DEF CutState
<1>5. CASE \E p \in todo : CutOverwrite(p) \/ CutCopyEntry(p)
  BY <1>2, <1>5 DEF CutOverwrite, CutCopyEntry
<1>6. CASE CutAccount
  BY <1>2, <1>6 DEF CutAccount
<1>7. CASE CutFormat
  BY <1>7 DEF CutFormat
<1>8. CASE CutNothing
  BY <1>2, <1>8 DEF CutNothing, disk
<1>. QED
  BY <1>3, <1>4, <1>5, <1>6, <1>7, <1>8 DEF Interrupt

LEMMA ResultNext == Inv /\ Inv' /\ ResultInv /\ [Next]_vars => ResultInv'
<1>. SUFFICES ASSUME Inv, Inv', ResultInv, [Next]_vars PROVE ResultInv'
  OBVIOUS
<1>1. CASE pc' # "idle"
  <2>1. (Inv /\ pc # "idle" => ResultInv)'
    BY ResultRunning, PTL
  <2>. QED
    BY <1>1, <2>1
<1>2. CASE op' # "shell"
  BY <1>2 DEF ResultInv, ShellUpdated, BackupKept, InterruptionMarked, UpdateSucceeded
<1>3. CASE op' = "shell" /\ pc' = "idle"
  <2>1. CASE UNCHANGED vars
    BY <2>1 DEF vars, disk, run, env, ResultInv, ShellUpdated, BackupKept,
                InterruptionMarked, UpdateSucceeded, NewPaths, Obsolete, Kept,
                IsFile, Listed
  <2>. QED
    BY <1>3, <2>1, EndOfUpdate, ResultCleanup, ResultFailure, ResultCut DEF Ending
<1>. QED
  BY <1>1, <1>2, <1>3

LEMMA ResultInvariance == Spec => []ResultInv
<1>1. Init => ResultInv
  BY DEF Init, ResultInv, ShellUpdated, BackupKept, InterruptionMarked, UpdateSucceeded
<1>2. Spec => []Inv
  BY InvHolds
<1>. QED
  BY <1>1, <1>2, ResultNext, PTL DEF Spec

\* A shell update that reports success has put the image on the disk, removed
\* what the image dropped, and written a manifest that is true of the disk.
THEOREM UpdateIsComplete == Spec => []ShellUpdated
  BY ResultInvariance, PTL DEF ResultInv

\* However an update ends, the list of tracked files it started from survives.
THEOREM BackupSurvives == Spec => []BackupKept
  BY ResultInvariance, PTL DEF ResultInv

\* An incomplete manifest is never left without the update's state file.
THEOREM CutsAreMarked == Spec => []InterruptionMarked
  BY ResultInvariance, PTL DEF ResultInv

(***************************************************************************)
(* What an update touches while it runs.                                   *)
(***************************************************************************)
TouchesScope ==
    \A p \in Paths : target'[p] # target[p] =>
        p \in NewPaths \cup Obsolete /\ target'[p] \in {iso[p], NoFile, Partial}

\* Every step of a running update changes at most files of its scope, and a
\* shell entry of the manifest only to the contents of a file of the image.
LEMMA RunningTouches ==
  ASSUME Inv, [Next]_vars, UpdateRunning
  PROVE  /\ TouchesScope
         /\ \A p \in ShellPaths :
                manifest'.list[p] # manifest.list[p] => manifest'.list[p] # Partial
<1>. DEFINE Entries == \A p \in ShellPaths :
                manifest'.list[p] # manifest.list[p] => manifest'.list[p] # Partial
<1>. USE PathsAssumption DEF Inv, WorkInv, RunInv, UpdatePhases, UpdateRunning, TouchesScope
<1>0. iso \in [Paths -> Contents \cup {NoFile}]
  BY BoundsAssumption DEF TypeOK
<1>1. CASE UNCHANGED vars
  BY <1>1 DEF vars, disk
<1>2. CASE Command
  BY <1>2 DEF Command, StartInstall, StartResetRoot, DryRun, StartUpdateShell,
              StartUpdateKernel, RepairManifest, RepairConf, RepairPath,
              StartRepair, Begin
<1>3. CASE UpdateStep
  <2>1. ASSUME NEW p \in todo, CopyEntry(p) PROVE TouchesScope /\ Entries
    BY <2>1 DEF CopyEntry, CopyInv, TypeOK
  <2>2. ASSUME NEW p \in todo, DeleteObsolete(p) PROVE TouchesScope /\ Entries
    BY <2>2 DEF DeleteObsolete, CopyInv, TypeOK
  <2>3. ASSUME NEW p \in todo, SkipEntry(p) \/ CopyBlocked(p)
        PROVE  TouchesScope /\ Entries
    BY <2>3 DEF SkipEntry, CopyBlocked, disk
  <2>4. ASSUME NEW p \in todo, KeepEntry(p) PROVE TouchesScope /\ Entries
    <3>1. p \notin ShellPaths
      BY <2>4 DEF KeepEntry, ListInv, Kept
    <3>. QED
      BY <2>4, <3>1 DEF KeepEntry, AppendEntry, ManifestFull, Recorded, disk,
                        TypeOK, ManifestFile
  <2>5. ASSUME NEW p \in todo, RefreshEntry(p) PROVE TouchesScope /\ Entries
    <3>1. target[p] = iso[p] /\ iso[p] \in Contents
      BY <1>0, <2>5 DEF RefreshEntry, CopyInv, ListInv, ImageOnDisk, NewPaths
    <3>. QED
      BY <2>5, <3>1, ContentsAssumption
         DEF RefreshEntry, AppendEntry, ManifestFull, Recorded, disk, TypeOK, ManifestFile
  <2>6. CASE TruncateManifest
    BY <2>6, ContentsAssumption DEF TruncateManifest, EmptyManifest, NoEntries
  <2>7. CASE WriteState \/ BackupManifest \/ StageManifest \/ CopyDone
               \/ ObsoleteDone \/ KeepDone \/ RefreshDone \/ Cleanup
    BY <2>7 DEF WriteState, BackupManifest, StageManifest, CopyDone,
                ObsoleteDone, KeepDone, RefreshDone, Cleanup, disk
  <2>. QED
    BY <1>3, <2>1, <2>2, <2>3, <2>4, <2>5, <2>6, <2>7 DEF UpdateStep
<1>4. CASE OtherStep
  BY <1>4 DEF OtherStep, Format, OverwriteDone, SetupRootAccount, SetupBlocked,
              BlankManifest, ScanDone, Overwrite, OverwriteNext, OverwriteBlocked, Scan
<1>5. CASE Interrupt
  <2>1. ASSUME NEW p \in todo, CutCopyEntry(p) PROVE TouchesScope /\ Entries
    BY <2>1 DEF CutCopyEntry, CutTarget, CopyInv, TypeOK
  <2>2. CASE CutManifest
    BY <2>2, ContentsAssumption
       DEF CutManifest, NoManifest, NoEntries, TypeOK, ManifestFile
  <2>3. CASE CutState
    BY <2>3 DEF CutState
  <2>4. CASE CutNothing
    BY <2>4 DEF CutNothing, disk
  <2>5. CASE CutAccount \/ CutFormat \/ \E p \in todo : CutOverwrite(p)
    BY <2>5 DEF CutAccount, CutFormat, CutOverwrite, OverwriteNext
  <2>. QED
    BY <1>5, <2>1, <2>2, <2>3, <2>4, <2>5 DEF Interrupt
<1>6. CASE (\E image \in Images : BootImage(image))
             \/ \E p \in EditPaths, v \in EditValues : UserEdit(p, v)
  BY <1>6 DEF BootImage, UserEdit
<1>. QED
  BY <1>1, <1>2, <1>3, <1>4, <1>5, <1>6 DEF Next, Step, Environment

\* A shell update never changes a file outside the image's files and the files
\* it removes, at whatever point it fails or is cut.
THEOREM OnlyScopeIsTouched == Spec => ScopeOnly
<1>1. Inv /\ [Next]_vars =>
        [UpdateRunning => \A p \in Paths :
            target'[p] # target[p] => p \in NewPaths \cup Obsolete]_vars
  BY RunningTouches DEF TouchesScope
<1>2. Spec => []Inv
  BY InvHolds
<1>. QED
  BY <1>1, <1>2, PTL DEF Spec, ScopeOnly

\* No step of a shell update certifies a torn shell file.
THEOREM TornFilesAreNotCertified == Spec => NoTornCertified
<1>1. Inv /\ [Next]_vars =>
        [UpdateRunning => \A p \in ShellPaths :
            manifest'.list[p] = Partial => manifest.list[p] = Partial]_vars
  BY RunningTouches
<1>2. Spec => []Inv
  BY InvHolds
<1>. QED
  BY <1>1, <1>2, PTL DEF Spec, NoTornCertified

(***************************************************************************)
(* The phases implement UpdatePromise.                                     *)
(***************************************************************************)

\* A step that enters the phases of update-shell fixes the plan and nothing
\* else; a step inside them leaves it.
LEMMA EnterOrStay ==
  ASSUME Inv, [Next]_vars, op' = "shell", pc' # "idle"
  PROVE  /\ UNCHANGED iso
         /\ UpdateRunning => UNCHANGED base
         /\ ~UpdateRunning => base' = manifest /\ UNCHANGED <<target, manifest>>
<1>. DEFINE Goal == /\ UNCHANGED iso
                    /\ UpdateRunning => UNCHANGED base
                    /\ ~UpdateRunning => base' = manifest /\ UNCHANGED <<target, manifest>>
<1>. USE DEF Inv, WorkInv, RunInv, UpdatePhases, UpdateRunning, env, disk
<1>1. CASE UNCHANGED vars
  BY <1>1 DEF vars, run
<1>2. CASE Command
  BY <1>2 DEF Command, StartInstall, StartResetRoot, DryRun, StartUpdateShell,
              StartUpdateKernel, RepairManifest, RepairConf, RepairPath,
              StartRepair, Begin
<1>3. CASE UpdateStep
  <2>1. ASSUME NEW p \in todo,
               CopyEntry(p) \/ SkipEntry(p) \/ CopyBlocked(p) \/ DeleteObsolete(p)
        PROVE  Goal
    BY <2>1 DEF CopyEntry, SkipEntry, CopyBlocked, DeleteObsolete, Goto, End
  <2>2. ASSUME NEW p \in todo, KeepEntry(p) \/ RefreshEntry(p) PROVE Goal
    BY <2>2 DEF KeepEntry, RefreshEntry, AppendEntry, ManifestFull, Goto, End
  <2>3. CASE WriteState \/ BackupManifest \/ StageManifest \/ CopyDone
               \/ ObsoleteDone \/ TruncateManifest \/ KeepDone \/ RefreshDone
               \/ Cleanup
    BY <2>3 DEF WriteState, BackupManifest, StageManifest, CopyDone,
                ObsoleteDone, TruncateManifest, KeepDone, RefreshDone, Cleanup,
                Goto, End
  <2>. QED
    BY <1>3, <2>1, <2>2, <2>3 DEF UpdateStep
<1>4. CASE OtherStep
  BY <1>4 DEF OtherStep, Format, OverwriteDone, SetupRootAccount, SetupBlocked,
              BlankManifest, ScanDone, Overwrite, OverwriteNext, OverwriteBlocked,
              Scan, AppendEntry, ManifestFull, Goto, End
<1>5. CASE Environment
  BY <1>5 DEF Environment, Interrupt, BootImage, UserEdit, End
<1>. QED
  BY <1>1, <1>2, <1>3, <1>4, <1>5 DEF Next, Step

LEMMA PromiseStep == Inv /\ Inv' /\ [Next]_vars => [P!Next]_(P!promise)
<1>. SUFFICES ASSUME Inv, Inv', [Next]_vars, ~ UNCHANGED vars
              PROVE  P!Next
  BY DEF vars, disk, run, env, P!promise, PromiseState, PromiseScope, NewPaths, Obsolete
<1>. USE PathsAssumption
<1>1. CASE op' = "shell" /\ pc' # "idle" /\ ~UpdateRunning
  <2>1. /\ PromiseState # "updating" /\ PromiseState' = "updating"
        /\ PromiseScope' = (NewPaths \cup Obsolete)'
    BY <1>1 DEF PromiseState, PromiseScope, UpdateRunning
  <2>2. (NewPaths \cup Obsolete)' =
          P!Shipped \cup {p \in ShellPaths : manifest.list[p] # NoFile}
    BY <1>1, EnterOrStay DEF NewPaths, Obsolete, P!Shipped
  <2>. QED
    BY <1>1, <2>1, <2>2, EnterOrStay DEF P!Next, P!Start
<1>2. CASE op' = "shell" /\ pc' # "idle" /\ UpdateRunning
  <2>1. UNCHANGED <<PromiseState, PromiseScope>> /\ PromiseState = "updating"
    BY <1>2, EnterOrStay, SamePlan DEF PromiseState, PromiseScope, UpdateRunning
  <2>2. PromiseScope = NewPaths \cup Obsolete
    BY <2>1 DEF PromiseScope
  <2>. QED
    BY <1>2, <2>1, <2>2, EnterOrStay, RunningTouches
       DEF TouchesScope, P!Next, P!Work, P!Touch
<1>3. CASE op' = "shell" /\ pc' = "idle" /\ Cleanup
  <2>. USE <1>3 DEF Cleanup, End, env, Inv, WorkInv, RunInv, UpdatePhases
  <2>1. NewPaths' = NewPaths /\ Obsolete' = Obsolete
    BY SamePlan
  <2>2. /\ PromiseState = "updating" /\ PromiseState' = "updated"
        /\ PromiseScope = NewPaths \cup Obsolete /\ PromiseScope' = PromiseScope
    BY <2>1 DEF PromiseState, PromiseScope
  <2>3. P!UpToDate
    BY <2>2 DEF P!UpToDate, P!Shipped, P!Recorded, CopyInv, ListInv, ImageOnDisk,
                ObsoleteGone, ListsTruth, NewListed, NewPaths, Listed, IsFile
  <2>. QED
    BY <2>2, <2>3 DEF P!Next, P!Succeed
<1>4. CASE op' = "shell" /\ pc' = "idle" /\ ~Cleanup
  <2>1. UpdateRunning /\ outcome' # "ok" /\ iso' = iso
    BY <1>4, EndOfUpdate
       DEF Ending, Failure, Interrupt, End, UpdateRunning, Inv, WorkInv, RunInv,
           UpdatePhases
  <2>2. /\ PromiseState = "updating" /\ PromiseState' = "quiet"
        /\ PromiseScope = NewPaths \cup Obsolete /\ PromiseScope' = {}
    BY <1>4, <2>1 DEF PromiseState, PromiseScope, UpdateRunning
  <2>. QED
    BY <2>1, <2>2, RunningTouches DEF TouchesScope, P!Next, P!Abandon, P!Touch
<1>5. CASE op' # "shell"
  <2>1. ~UpdateRunning
    BY <1>5 DEF UpdateRunning, Inv, WorkInv, RunInv, UpdatePhases, Next, Command,
         Step, UpdateStep, OtherStep, Environment, StartInstall, StartResetRoot,
         DryRun, StartUpdateShell, StartUpdateKernel, RepairManifest, RepairConf,
         RepairPath, StartRepair, Begin, WriteState, BackupManifest,
         StageManifest, CopyEntry, SkipEntry, CopyBlocked, DeleteObsolete,
         KeepEntry, RefreshEntry, AppendEntry, ManifestFull, CopyDone,
         ObsoleteDone, TruncateManifest, KeepDone, RefreshDone, Cleanup, Format,
         OverwriteDone, SetupRootAccount, SetupBlocked, BlankManifest, ScanDone,
         Overwrite, OverwriteBlocked, OverwriteNext, Scan, Interrupt, BootImage,
         UserEdit, Goto, End
  <2>. QED
    BY <1>5, <2>1 DEF PromiseState, PromiseScope, UpdateRunning, P!Next, P!Quiet
<1>. QED
  BY <1>1, <1>2, <1>3, <1>4, <1>5

\* update-shell, with its cuts and failures, implements UpdatePromise.
THEOREM UpdateKeepsPromise == Spec => KeepsPromise
<1>1. Init => P!Init
  BY DEF Init, P!Init, PromiseState, PromiseScope
<1>2. Spec => []Inv
  BY InvHolds
<1>. QED
  BY <1>1, <1>2, PromiseStep, PTL DEF Spec, KeepsPromise, P!Promise
=============================================================================
