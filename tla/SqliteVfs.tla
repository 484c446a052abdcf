------------------------------ MODULE SqliteVfs ------------------------------
(***************************************************************************)
(* The VFS that lets SQLite run on XiaoBaiOS, under the rollback journal   *)
(* of SQLite (journal_mode=DELETE).  The VFS keeps every open file whole   *)
(* in memory; xSync and xClose write it back by truncating the file and    *)
(* writing all of it again, which a crash can interrupt at any write.      *)
(* One process at a time has the database open.  Files are sequences of    *)
(* cells: a cell of the database is a page, a cell of the journal is its   *)
(* header or the record of one page.                                       *)
(***************************************************************************)
EXTENDS Naturals, Sequences, FiniteSets

CONSTANTS
    Db, Journal,   \* the two paths
    MaxPages,      \* bound: pages of the database
    MaxTxn,        \* bound: transactions of a run
    NoFile,        \* nothing at a path
    Closed,        \* a handle that is not open
    Idle           \* no write-back is under way

ASSUME PathAssumption  == Db # Journal
ASSUME BoundAssumption == MaxPages \in Nat /\ MaxTxn \in Nat

VARIABLES
    disk,       \* the file at each path
    file,       \* the handle on each path: cleonos_sqlite_file
    io,         \* the write-back under way: path and cells written so far
    pc,         \* what SQLite is about to do
    txn,        \* number of the current or last transaction
    want,       \* the database the current transaction is to produce
    committed,  \* the database as of the last commit
    torn,       \* the database file on disk is cut off
    lost        \* the process ended while it was

vars == <<disk, file, io, pc, txn, want, committed, torn, lost>>
ghosts == <<want, committed>>

Paths  == {Db, Journal}
Zero   == <<0>>
Page(t) == <<t>>
Header(n) == <<"pages", n>>
Record(i, v) == <<"page", i, v>>

Pages == {Page(t) : t \in 0 .. MaxTxn}
Cells == Pages \cup {Header(n) : n \in 0 .. MaxPages}
         \cup {Record(i, v) : i \in 1 .. MaxPages, v \in Pages}
Handles == [buf : Seq(Cells), size : Nat, dirty : BOOLEAN]
Flushes == [path : Paths, done : Nat]

ASSUME NoneAssumption ==
    NoFile \notin Seq(Cells) /\ Closed \notin Handles /\ Idle \notin Flushes

----------------------------------------------------------------------------
(* A handle: buf is the allocated memory, of which the first `size` cells are *)
(* the file.                                                                  *)

View(f) == SubSeq(f.buf, 1, f.size)

Loaded(p) ==
    [buf |-> IF disk[p] = NoFile THEN <<>> ELSE disk[p],
     size |-> IF disk[p] = NoFile THEN 0 ELSE Len(disk[p]),
     dirty |-> FALSE]

\* Fault: one cell too few.
Reserve_Short(f, need) ==
    IF need <= Len(f.buf) + 1 THEN f
    ELSE [f EXCEPT !.buf = [i \in 1 .. need - 1 |-> IF i <= Len(f.buf) THEN f.buf[i] ELSE Zero]]

\* The capacities tried: the present one, doubled over and over.
Doubled(c, n) ==
    LET to[i \in 0 .. n] == IF i = 0 THEN c ELSE 2 * to[i - 1]
    IN  to

\* The first of them that is enough; memory that is new is zero.
Capacity(start, need) ==
    Doubled(start, need)[CHOOSE i \in 0 .. need :
        Doubled(start, need)[i] >= need /\ \A j \in 0 .. i - 1 : Doubled(start, need)[j] < need]

Reserve(f, need) ==
    LET start == IF Len(f.buf) > 0 THEN Len(f.buf) ELSE 1
    IN  IF need <= Len(f.buf) THEN f
        ELSE [f EXCEPT !.buf = [i \in 1 .. Capacity(start, need) |->
                                  IF i <= Len(f.buf) THEN f.buf[i] ELSE Zero]]

\* Fault: a write leaves the size alone.
WriteCell_KeepsSize(f, i, v) ==
    LET r == Reserve(f, i)
    IN  [buf |-> [j \in 1 .. Len(r.buf) |-> IF j = i THEN v
                                            ELSE IF j > f.size /\ j < i THEN Zero ELSE r.buf[j]],
         size |-> f.size,
         dirty |-> TRUE]

WriteCell(f, i, v) ==
    LET r == Reserve(f, i)
    IN  [buf |-> [j \in 1 .. Len(r.buf) |-> IF j = i THEN v
                                            ELSE IF j > f.size /\ j < i THEN Zero ELSE r.buf[j]],
         size |-> IF i > f.size THEN i ELSE f.size,
         dirty |-> TRUE]


Truncated(f, n) ==
    LET r == Reserve(f, n)
    IN  [buf |-> [j \in 1 .. Len(r.buf) |-> IF j > f.size /\ j <= n THEN Zero ELSE r.buf[j]],
         size |-> n,
         dirty |-> TRUE]

----------------------------------------------------------------------------
(* SQLite's journal: a header with the number of pages, then the pages a    *)
(* transaction is about to change.                                          *)

\* The file f after the writes of ws, each a cell's number and its value, in order.
Written(f, ws) ==
    LET after[k \in 0 .. Len(ws)] ==
            IF k = 0 THEN f ELSE WriteCell(after[k - 1], ws[k][1], ws[k][2])
    IN  after[Len(ws)]

Appended(f, cells) == Written(f, [k \in 1 .. Len(cells) |-> <<k, cells[k]>>])

\* Rollback: write the journal's pages back and restore the size.
Restored(f, j) ==
    IF j = <<>> THEN f
    ELSE Truncated(Written(f, [k \in 1 .. Len(j) - 1 |-> <<j[k + 1][2], j[k + 1][3]>>]), j[1][2])

\* The pages S, each once; SQLite's order among them makes no difference here.
Listed(S) == CHOOSE s \in [1 .. Cardinality(S) -> S] : {s[k] : k \in 1 .. Cardinality(S)} = S

\* The journal of a transaction that changes the pages S of the database d.
JournalOf(d, S) ==
    LET old == Listed(S \cap 1 .. Len(d))
    IN  <<Header(Len(d))>> \o [k \in 1 .. Len(old) |-> Record(old[k], d[old[k]])]

\* The pages S of d become those of transaction t, and d gets n pages.
Changed(d, S, n, t) == [i \in 1 .. n |-> IF i \in S THEN Page(t) ELSE d[i]]

\* The file f after the pages of transaction t were written to make it w.
Overwritten(f, w, t) ==
    LET todo == Listed({i \in 1 .. Len(w) : w[i] = Page(t)})
        g == Written(f, [k \in 1 .. Len(todo) |-> <<todo[k], w[todo[k]]>>])
    IN  IF Len(w) < f.size THEN Truncated(g, Len(w)) ELSE g

Hot == disk[Journal] # NoFile /\ disk[Journal] # <<>>

----------------------------------------------------------------------------
Init ==
    /\ disk = [p \in Paths |-> NoFile]
    /\ file = [p \in Paths |-> Closed]
    /\ io = Idle /\ pc = "off"
    /\ txn = 0 /\ want = <<>> /\ committed = <<>>
    /\ torn = FALSE /\ lost = FALSE

(* xSync and xClose.  Where SQLite stands says which file it writes back and  *)
(* where it goes when that succeeds or fails.                                 *)

SyncOf == [syncHot |-> Db, syncJournal |-> Journal, syncDb |-> Db, syncUndo |-> Db,
           commit |-> Journal, drop |-> Journal, close |-> Db]
Closes == {"commit", "drop", "close"}
AfterOk == [syncHot |-> "drop", syncJournal |-> "write", syncDb |-> "commit",
            syncUndo |-> "drop", commit |-> "deleteCommit", drop |-> "delete", close |-> "off"]
AfterFail == [syncHot |-> "check", syncJournal |-> "drop", syncDb |-> "undo",
              syncUndo |-> "check", commit |-> "deleteCommit", drop |-> "delete", close |-> "off"]

Syncing(p) == pc \in DOMAIN SyncOf /\ SyncOf[pc] = p

\* A handle is given back when it is closed, and the journal's also when SQLite
\* gives up and starts again from the files.
HandleAfter(p, next, f) ==
    [q \in Paths |-> IF q = p /\ pc \in Closes THEN Closed
                     ELSE IF q = Journal /\ next = "check" THEN Closed
                     ELSE IF q = p THEN f ELSE file[q]]

\* Fault: a sync that SQLITE_FCNTL_SYNC announced counts as done.
Clean_Announced(p) ==
    /\ Syncing(p) /\ io = Idle
    /\ pc' = AfterOk[pc]
    /\ file' = HandleAfter(p, pc', file[p])
    /\ UNCHANGED <<disk, io, txn, ghosts, torn, lost>>

Clean(p) ==
    /\ Syncing(p) /\ io = Idle /\ ~file[p].dirty
    /\ pc' = AfterOk[pc]
    /\ file' = HandleAfter(p, pc', file[p])
    /\ UNCHANGED <<disk, io, txn, ghosts, torn, lost>>

\* O_TRUNC.
FlushBegin(p) ==
    /\ Syncing(p) /\ io = Idle /\ file[p].dirty
    /\ disk' = [disk EXCEPT ![p] = <<>>]
    /\ io' = [path |-> p, done |-> 0]
    /\ torn' = (p = Db \/ torn)
    /\ UNCHANGED <<file, pc, txn, ghosts, lost>>

FlushWrite(n) ==
    /\ io # Idle /\ n > io.done /\ n <= file[io.path].size
    /\ disk' = [disk EXCEPT ![io.path] = SubSeq(View(file[io.path]), 1, n)]
    /\ io' = [io EXCEPT !.done = n]
    /\ UNCHANGED <<file, pc, txn, ghosts, torn, lost>>

FlushEnd ==
    /\ io # Idle /\ io.done = file[io.path].size
    /\ pc' = AfterOk[pc]
    /\ file' = HandleAfter(io.path, pc', [file[io.path] EXCEPT !.dirty = FALSE])
    /\ torn' = (torn /\ io.path # Db)
    /\ io' = Idle
    /\ UNCHANGED <<disk, txn, ghosts, lost>>

\* Fault: the handle counts as clean although the write failed.
FlushFail_Clean(p) ==
    /\ Syncing(p) /\ file[p].dirty
    /\ pc' = AfterFail[pc]
    /\ file' = HandleAfter(p, pc', [file[p] EXCEPT !.dirty = FALSE])
    /\ io' = Idle
    /\ lost' = (lost \/ (torn /\ pc = "close"))
    /\ UNCHANGED <<disk, txn, ghosts, torn>>

\* The open or a write fails: the handle stays dirty, or is freed by xClose.
FlushFail(p) ==
    /\ Syncing(p) /\ file[p].dirty
    /\ pc' = AfterFail[pc]
    /\ file' = HandleAfter(p, pc', file[p])
    /\ io' = Idle
    /\ lost' = (lost \/ (torn /\ pc = "close"))
    /\ UNCHANGED <<disk, txn, ghosts, torn>>

----------------------------------------------------------------------------
(* SQLite above the VFS.                                                      *)

OpenDb ==
    /\ pc = "off"
    /\ file' = [file EXCEPT ![Db] = Loaded(Db)]
    /\ pc' = "check"
    /\ UNCHANGED <<disk, io, txn, ghosts, torn, lost>>

NoHotJournal ==
    /\ pc = "check" /\ ~Hot /\ ~file[Db].dirty
    /\ pc' = "ready"
    /\ UNCHANGED <<disk, file, io, txn, ghosts, torn, lost>>

\* A journal on disk means a transaction that did not end: undo it.
HotJournal ==
    /\ pc = "check" /\ Hot
    /\ file' = [file EXCEPT ![Journal] = Loaded(Journal),
                            ![Db] = Restored(@, disk[Journal])]
    /\ pc' = "syncHot"
    /\ UNCHANGED <<disk, io, txn, ghosts, torn, lost>>

\* A transaction that changes the pages S and leaves n pages.
Begin(S, n) ==
    LET d == View(file[Db])
    IN  /\ pc = "ready" /\ txn < MaxTxn
        /\ Len(d) + 1 .. n \subseteq S /\ (S # {} \/ n # Len(d))
        /\ txn' = txn + 1
        /\ want' = Changed(d, S, n, txn + 1)
        /\ file' = [file EXCEPT ![Journal] =
                      Appended(Loaded(Journal), JournalOf(d, S \cup n + 1 .. Len(d)))]
        /\ pc' = "syncJournal"
        /\ UNCHANGED <<disk, io, committed, torn, lost>>

WritePages ==
    /\ pc = "write"
    /\ file' = [file EXCEPT ![Db] = Overwritten(@, want, txn)]
    /\ pc' = "syncDb"
    /\ UNCHANGED <<disk, io, txn, ghosts, torn, lost>>

Undo ==
    /\ pc = "undo"
    /\ file' = [file EXCEPT ![Db] = Restored(@, View(file[Journal]))]
    /\ pc' = "syncUndo"
    /\ UNCHANGED <<disk, io, txn, ghosts, torn, lost>>

\* xDelete of the journal: a transaction is committed when it succeeds.
DeleteJournal ==
    /\ pc \in {"delete", "deleteCommit"}
    /\ disk' = [disk EXCEPT ![Journal] = NoFile]
    /\ committed' = IF pc = "deleteCommit" THEN want ELSE committed
    /\ pc' = "ready"
    /\ UNCHANGED <<file, io, txn, want, torn, lost>>

DeleteFails ==
    /\ pc \in {"delete", "deleteCommit"}
    /\ disk[Journal] # NoFile
    /\ pc' = "check"
    /\ UNCHANGED <<disk, file, io, txn, ghosts, torn, lost>>

CloseDb ==
    /\ pc \in {"ready", "check"}
    /\ pc' = "close"
    /\ UNCHANGED <<disk, file, io, txn, ghosts, torn, lost>>

\* The process ends, or the power does: what is in memory is gone.
Kill ==
    /\ pc # "off"
    /\ file' = [p \in Paths |-> Closed]
    /\ io' = Idle /\ pc' = "off"
    /\ lost' = (lost \/ torn)
    /\ UNCHANGED <<disk, txn, ghosts, torn>>

Next ==
    \/ \E p \in Paths : Clean(p) \/ FlushBegin(p) \/ FlushFail(p)
    \/ \E n \in 1 .. MaxPages + 1 : FlushWrite(n)
    \/ FlushEnd
    \/ OpenDb \/ NoHotJournal \/ HotJournal \/ WritePages \/ Undo
    \/ \E n \in 0 .. MaxPages : \E S \in SUBSET (1 .. n) : Begin(S, n)
    \/ DeleteJournal \/ DeleteFails \/ CloseDb \/ Kill

Spec == Init /\ [][Next]_vars

----------------------------------------------------------------------------
(* Properties. *)

Contents(p) == IF disk[p] = NoFile THEN <<>> ELSE disk[p]

TypeOK ==
    /\ \A p \in Paths : \A i \in 1 .. Len(Contents(p)) : Contents(p)[i] \in Cells
    /\ \A p \in Paths : file[p] # Closed =>
         /\ file[p].size \in 0 .. Len(file[p].buf) /\ file[p].dirty \in BOOLEAN
    /\ io # Idle => io.done \in 0 .. file[io.path].size
    /\ pc \in DOMAIN SyncOf \cup {"off", "check", "ready", "write", "undo", "delete", "deleteCommit"}
    /\ txn \in 0 .. MaxTxn /\ torn \in BOOLEAN /\ lost \in BOOLEAN

\* At every moment the two files on disk together hold the last committed
\* database, whatever SQLite has in memory and wherever it is killed, as long
\* as the database file itself is not cut off.  While it is, the handle still
\* holds all of it and is still dirty: an error of the disk alone loses nothing.
Recoverable ==
    /\ TypeOK
    /\ (~torn /\ ~lost) =>
          View(Restored([buf |-> Contents(Db), size |-> Len(Contents(Db)), dirty |-> FALSE],
                        Contents(Journal))) = committed
    /\ (torn /\ ~lost) =>
          /\ file[Db] # Closed /\ file[Db].dirty
          /\ View(Restored(file[Db], IF file[Journal] # Closed THEN View(file[Journal])
                                     ELSE Contents(Journal))) = committed

\* What SQLite reads between two transactions is the last committed database:
\* no failed, undone or interrupted transaction leaves a page behind.
AtomicCommit == (pc = "ready" /\ ~lost) => View(file[Db]) = committed

----------------------------------------------------------------------------
(* The inductive invariant. *)

Rest == DOMAIN SyncOf \cup {"off", "check", "ready", "write", "undo", "delete", "deleteCommit"}

\* A database, and what a rollback can read as a journal.
Databases == {d \in Seq(Pages) : Len(d) <= MaxPages}
Opens(j) == \E n \in 0 .. MaxPages : j[1] = Header(n)
Records(j) == \A k \in 2 .. Len(j) : \E i \in 1 .. MaxPages, v \in Pages : j[k] = Record(i, v)
IsJournal(j) == j \in Seq(Cells) /\ (j # <<>> => Opens(j) /\ Records(j))

\* A handle whose file is within its memory.
Sized(f) == f \in Handles /\ f.size <= Len(f.buf)

JournalOpen == {"syncHot", "syncJournal", "write", "syncDb", "undo", "syncUndo", "commit", "drop"}

Typed ==
    /\ disk \in [Paths -> Seq(Cells) \cup {NoFile}]
    /\ file \in [Paths -> Handles \cup {Closed}]
    /\ io \in Flushes \cup {Idle}
    /\ pc \in Rest
    /\ txn \in 0 .. MaxTxn /\ torn \in BOOLEAN /\ lost \in BOOLEAN
    /\ want \in Databases /\ committed \in Databases

Shaped ==
    /\ Contents(Db) \in Databases /\ IsJournal(Contents(Journal))
    /\ file[Db] # Closed => Sized(file[Db]) /\ View(file[Db]) \in Databases
    /\ file[Journal] # Closed => Sized(file[Journal]) /\ IsJournal(View(file[Journal]))

\* Which handles are open.
OpenInv ==
    /\ file[Db] = Closed <=> pc = "off"
    /\ file[Journal] = Closed <=> pc \notin JournalOpen

\* A write-back writes what the handle holds, from the start.
FlushInv ==
    io # Idle =>
        /\ Syncing(io.path) /\ file[io.path].dirty /\ io.done <= file[io.path].size
        /\ disk[io.path] = SubSeq(View(file[io.path]), 1, io.done)
        /\ io.path = Db => torn

\* A handle that is clean holds the file, and these are clean.
CleanInv ==
    /\ \A p \in Paths : file[p] # Closed /\ ~file[p].dirty => View(file[p]) = Contents(p)
    /\ pc \in {"ready", "drop", "delete", "commit", "deleteCommit", "syncJournal", "write"}
          => ~file[Db].dirty
    /\ pc \in {"write", "syncDb", "undo", "syncUndo", "commit", "syncHot"} => ~file[Journal].dirty
    /\ pc = "ready" => ~Hot

\* Rolling the journal j back turns the file f into the database d: it restores
\* the size of d, writes no page that is not d's, and every page it does not
\* write is already d's.
Undoes(j, f, d) ==
    IF j = <<>> THEN f = d
    ELSE /\ j[1] = Header(Len(d))
         /\ \A k \in 2 .. Len(j) : \E i \in 1 .. Len(d) : j[k] = Record(i, d[i])
         /\ \A i \in 1 .. Len(d) : \/ \E k \in 2 .. Len(j) : j[k] = Record(i, d[i])
                                   \/ i <= Len(f) /\ f[i] = d[i]

\* The pages of w that transaction t does not write are those of d.
Keeps(w, d, t) ==
    \A i \in 1 .. Len(w) : w[i] = Page(t) \/ (i <= Len(d) /\ w[i] = d[i])

DiskInv ==
    /\ ~torn => Undoes(Contents(Journal), Contents(Db), committed)
    /\ torn => file[Db] # Closed /\ file[Db].dirty

HandleInv ==
    /\ file[Db] # Closed => Undoes(Contents(Journal), View(file[Db]), committed)
    /\ pc \in {"ready", "syncJournal", "write", "syncHot", "syncUndo", "drop", "delete"}
          => View(file[Db]) = committed
    /\ pc \in {"syncDb", "commit", "deleteCommit"} => View(file[Db]) = want
    /\ pc \in {"syncJournal", "drop"} => Undoes(View(file[Journal]), committed, committed)
    /\ pc \in {"syncJournal", "write", "syncDb"} => Undoes(View(file[Journal]), want, committed)
    /\ pc \in {"syncJournal", "write"} => Keeps(want, committed, txn)

VfsInv ==
    /\ Typed /\ Shaped /\ OpenInv /\ FlushInv /\ CleanInv
    /\ ~lost => DiskInv /\ HandleInv
=============================================================================
