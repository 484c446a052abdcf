------------------------------- MODULE Editor -------------------------------
(***************************************************************************)
(* vim (apps/vim_main.c): a buffer of short lines, three modes, prefixes   *)
(* of two-key commands, and a file that is truncated before it is written. *)
(***************************************************************************)
EXTENDS Naturals, Sequences, SequencesExt

CONSTANTS
    MaxLines, MaxLen,   \* USH_VIM_MAX_LINES, USH_VIM_MAX_LINE_LEN
    Tab,                \* the blanks a tab key inserts
    J, Space, NL, CR,   \* the characters the code tells apart
    Letters,            \* the others that are typed
    Paths, NoPath, Absent,
    Starts,             \* the disks a session may start from
    MaxKeys             \* bound on the keys of a session

Glyphs == Letters \cup {J, Space}
Characters == Glyphs \cup {NL, CR}

ASSUME LimitsAssumption ==
    MaxLines \in Nat \ {0} /\ MaxLen \in Nat \ {0} /\ Tab \in Nat \ {0} /\ MaxKeys \in Nat
ASSUME CharactersAssumption == NL # CR /\ {NL, CR} \cap Glyphs = {}
ASSUME DiskAssumption ==
    NoPath \notin Paths /\ Starts \subseteq [Paths -> {Absent} \cup Seq(Characters)]

VARIABLES
    ed,        \* lines, row, col (characters left of the cursor), modified
    mode, pending,
    path, disk,
    faithful,  \* ghost: what was last read or written was so without loss
    phase,     \* "start", "edit", "ended", "left" or "failed"
    keys       \* ghost: the keys pressed so far

vars == <<ed, mode, pending, path, disk, faithful, phase, keys>>

Least(m, n) == IF m <= n THEN m ELSE n
Line(e) == e.lines[e.row]

EmptyBuffer == [lines |-> << <<>> >>, row |-> 1, col |-> 0, modified |-> FALSE]

KeepCursorValid(e) ==
    LET r == Least(e.row, Len(e.lines))
    IN [e EXCEPT !.row = r, !.col = Least(e.col, Len(e.lines[r]))]

(***************************************************************************)
(* Moving the cursor.                                                      *)
(***************************************************************************)
MoveLeft(e) ==
    IF e.col > 0 THEN [e EXCEPT !.col = @ - 1]
    ELSE IF e.row > 1 THEN [e EXCEPT !.row = @ - 1, !.col = Len(e.lines[e.row - 1])]
    ELSE e

MoveRight(e) ==
    IF e.col < Len(Line(e)) THEN [e EXCEPT !.col = @ + 1]
    ELSE IF e.row < Len(e.lines) THEN [e EXCEPT !.row = @ + 1, !.col = 0]
    ELSE e

MoveUp(e) == KeepCursorValid([e EXCEPT !.row = IF @ > 1 THEN @ - 1 ELSE @])
MoveDown(e) == KeepCursorValid([e EXCEPT !.row = Least(@ + 1, Len(e.lines))])
Home(e) == [e EXCEPT !.col = 0]
End(e) == [e EXCEPT !.col = Len(Line(e))]
Moves == {"left", "right", "up", "down", "home", "end"}
Moved(e, m) ==
    CASE m = "left"  -> MoveLeft(e)
      [] m = "right" -> MoveRight(e)
      [] m = "up"    -> MoveUp(e)
      [] m = "down"  -> MoveDown(e)
      [] m = "home"  -> Home(e)
      [] m = "end"   -> End(e)

(***************************************************************************)
(* Changing the text.                                                      *)
(***************************************************************************)
\* A line takes what fits; each character is refused by itself.
Insert(e, s) ==
    LET fit == SubSeq(s, 1, Least(Len(s), MaxLen - 1 - Len(Line(e))))
    IN IF fit = <<>> THEN e
       ELSE [e EXCEPT !.lines[e.row] = SubSeq(@, 1, e.col) \o fit \o SubSeq(@, e.col + 1, Len(@)),
                      !.col = @ + Len(fit), !.modified = TRUE]

HasRoom(e) == Len(e.lines) < MaxLines
InsertLineAfter(e) == [e EXCEPT !.lines = InsertAt(@, e.row + 1, <<>>)]

SplitLine(e) ==
    IF ~HasRoom(e) THEN e
    ELSE [InsertLineAfter(e) EXCEPT
              !.lines[e.row] = SubSeq(@, 1, e.col),
              !.lines[e.row + 1] = SubSeq(Line(e), e.col + 1, Len(Line(e))),
              !.row = @ + 1, !.col = 0, !.modified = TRUE]

OpenBelow(e) == [InsertLineAfter(e) EXCEPT !.row = @ + 1, !.col = 0, !.modified = TRUE]

\* Fault: the merged line may fill the array up to its last cell.
Merge_OffByOne(e) ==
    LET prev == e.lines[e.row - 1]
    IN IF Len(prev) + Len(Line(e)) > MaxLen THEN e
       ELSE [lines |-> RemoveAt([e.lines EXCEPT ![e.row - 1] = prev \o Line(e)], e.row),
             row |-> e.row - 1, col |-> Len(prev), modified |-> TRUE]

Merge(e) ==
    LET prev == e.lines[e.row - 1]
    IN IF Len(prev) + Len(Line(e)) >= MaxLen THEN e
       ELSE [lines |-> RemoveAt([e.lines EXCEPT ![e.row - 1] = prev \o Line(e)], e.row),
             row |-> e.row - 1, col |-> Len(prev), modified |-> TRUE]

Backspace(e) ==
    IF e.col > 0
    THEN [e EXCEPT !.lines[e.row] = RemoveAt(@, e.col), !.col = @ - 1, !.modified = TRUE]
    ELSE IF e.row = 1 THEN e ELSE Merge(e)

\* Fault: the text changes without the flag.
DeleteChar_NotNoted(e) ==
    IF e.col >= Len(Line(e)) THEN e ELSE [e EXCEPT !.lines[e.row] = RemoveAt(@, e.col + 1)]

DeleteChar(e) ==
    IF e.col >= Len(Line(e)) THEN e
    ELSE [e EXCEPT !.lines[e.row] = RemoveAt(@, e.col + 1), !.modified = TRUE]

DeleteLine(e) ==
    IF Len(e.lines) = 1 THEN [EmptyBuffer EXCEPT !.modified = TRUE]
    ELSE KeepCursorValid([e EXCEPT !.lines = RemoveAt(@, e.row), !.modified = TRUE])

(***************************************************************************)
(* The file: characters beyond the limits and carriage returns are left    *)
(* out; the first are reported, the second are not.                        *)
(***************************************************************************)
LoadStep(acc, ch) ==
    LET r == Len(acc.lines)
    IN CASE ch = CR -> [acc EXCEPT !.lossless = FALSE]
         [] ch = NL -> IF r < MaxLines THEN [acc EXCEPT !.lines = Append(@, <<>>)]
                       ELSE [acc EXCEPT !.lossless = FALSE]
         [] OTHER   -> IF Len(acc.lines[r]) + 1 < MaxLen
                       THEN [acc EXCEPT !.lines[r] = Append(@, ch)]
                       ELSE [acc EXCEPT !.lossless = FALSE]

Loaded(file) ==
    LET read[n \in 0..Len(file)] ==
            IF n = 0 THEN [lines |-> << <<>> >>, lossless |-> TRUE] ELSE LoadStep(read[n - 1], file[n])
    IN read[Len(file)]

\* Every line with its line feed; the last one is saved without it.
Ended(lines) ==
    LET upto[n \in 0..Len(lines)] == IF n = 0 THEN <<>> ELSE upto[n - 1] \o Append(lines[n], NL)
    IN upto[Len(lines)]
Text(e) == Front(Ended(e.lines))

Init ==
    /\ disk \in Starts
    /\ path = NoPath /\ ed = EmptyBuffer
    /\ mode = "normal" /\ pending = "none"
    /\ faithful = FALSE /\ phase = "start" /\ keys = 0

\* ush_cmd_vim before its loop: a file that cannot be opened is a new file.
Start ==
    /\ phase = "start"
    /\ \/ /\ phase' = "edit" /\ UNCHANGED <<ed, path, faithful>>
       \/ phase' = "failed" /\ UNCHANGED <<ed, path, faithful>>
       \/ \E p \in Paths :
             LET got == Loaded(disk[p])
             IN /\ phase' = "edit" /\ path' = p
                /\ \/ UNCHANGED <<ed, faithful>>
                   \/ /\ disk[p] # Absent
                      /\ ed' = [EmptyBuffer EXCEPT !.lines = got.lines]
                      /\ faithful' = got.lossless
    /\ UNCHANGED <<mode, pending, disk, keys>>

\* One round of the loop; the cursor is put right after every handler.
Key(m) == phase = "edit" /\ mode = m /\ keys < MaxKeys /\ keys' = keys + 1
Becomes(e) == ed' = KeepCursorValid(e)
Quiet == UNCHANGED <<path, disk, faithful, phase>>

(***************************************************************************)
(* Normal mode.                                                            *)
(***************************************************************************)
SecondD ==
    /\ Key("normal") /\ pending = "dd" /\ Quiet
    /\ Becomes(ed) \/ Becomes(DeleteLine(ed))
    /\ pending' = "none" /\ UNCHANGED mode

SecondG ==
    /\ Key("normal") /\ pending = "gg" /\ Quiet
    /\ Becomes(ed) \/ Becomes([ed EXCEPT !.row = 1, !.col = 0])
    /\ pending' = "none" /\ UNCHANGED mode

FirstKey == Key("normal") /\ pending = "none" /\ Quiet

NormalMove ==
    /\ FirstKey
    /\ \/ \E m \in Moves : Becomes(Moved(ed, m))
       \/ Becomes([ed EXCEPT !.row = Len(ed.lines)])
    /\ UNCHANGED <<mode, pending>>

Prefix == FirstKey /\ pending' \in {"dd", "gg"} /\ UNCHANGED <<ed, mode>>

EnterInsert ==
    /\ FirstKey /\ mode' = "insert" /\ UNCHANGED pending
    /\ Becomes(ed) \/ Becomes([ed EXCEPT !.col = Least(@ + 1, Len(Line(ed)))])

OpenInsert ==
    /\ FirstKey /\ UNCHANGED pending
    /\ IF HasRoom(ed) THEN Becomes(OpenBelow(ed)) /\ mode' = "insert"
                      ELSE UNCHANGED <<ed, mode>>

NormalDelete == FirstKey /\ Becomes(DeleteChar(ed)) /\ UNCHANGED <<mode, pending>>

EnterCommand == FirstKey /\ mode' = "command" /\ UNCHANGED <<ed, pending>>

(***************************************************************************)
(* Insert mode: a j waits for the next key; j again leaves the mode, any   *)
(* other key but escape puts the waiting j in first.                       *)
(***************************************************************************)
LeaveInsert ==
    /\ Key("insert") /\ Quiet
    /\ mode' = "normal" /\ pending' = "none" /\ UNCHANGED ed

\* Fault: a waiting j is forgotten.
Flushed_Dropped == ed

Flushed == IF pending = "jj" THEN Insert(ed, <<J>>) ELSE ed

HoldJ ==
    /\ Key("insert") /\ pending = "none" /\ Quiet
    /\ pending' = "jj" /\ UNCHANGED <<ed, mode>>

InsertKey ==
    /\ Key("insert") /\ Quiet
    /\ pending' = "none" /\ UNCHANGED mode
    /\ \/ \E m \in Moves : Becomes(Moved(Flushed, m))
       \/ Becomes(SplitLine(Flushed))
       \/ Becomes(Backspace(Flushed))
       \/ Becomes(Insert(Flushed, [i \in 1..Tab |-> Space]))
       \/ \E ch \in Letters \cup {Space} : Becomes(Insert(Flushed, <<ch>>))
       \/ Becomes(Flushed)

(***************************************************************************)
(* Command mode: the text of the command is chosen when it is entered.     *)
(***************************************************************************)
LeaveCommand == Key("command") /\ mode' = "normal" /\ Quiet /\ UNCHANGED <<ed, pending>>

Entered == Key("command") /\ mode' = "normal" /\ UNCHANGED pending

\* save_file: truncates first, so a failing write leaves a part on the disk.
Saved(p) ==
    /\ disk' = [disk EXCEPT ![p] = Text(ed)]
    /\ path' = p /\ faithful' = TRUE
    /\ ed' = [ed EXCEPT !.modified = FALSE]
OpenRefused == UNCHANGED <<ed, path, disk, faithful, phase>>
WriteFails(p) ==
    /\ \E n \in 0..Len(Text(ed)) - 1 : disk' = [disk EXCEPT ![p] = SubSeq(Text(ed), 1, n)]
    /\ faithful' = (faithful /\ p # path)
    /\ UNCHANGED <<ed, path, phase>>

Quit == Entered /\ ~ed.modified /\ phase' = "ended" /\ UNCHANGED <<ed, path, disk, faithful>>
QuitAnyway == Entered /\ phase' = "left" /\ UNCHANGED <<ed, path, disk, faithful>>
Refuse == Entered /\ UNCHANGED <<ed, path, disk, faithful, phase>>

Write ==
    /\ Entered
    /\ \E p \in Paths : (Saved(p) /\ UNCHANGED phase) \/ WriteFails(p) \/ OpenRefused

WriteQuit ==
    /\ Entered /\ path # NoPath
    /\ (Saved(path) /\ phase' = "ended") \/ WriteFails(path) \/ OpenRefused

Next ==
    \/ Start \/ SecondD \/ SecondG \/ NormalMove \/ Prefix \/ EnterInsert
    \/ OpenInsert \/ NormalDelete \/ EnterCommand \/ LeaveInsert \/ HoldJ
    \/ InsertKey \/ LeaveCommand \/ Quit \/ QuitAnyway \/ Refuse \/ Write \/ WriteQuit

Spec == Init /\ [][Next]_vars

(***************************************************************************)
(* Properties.                                                             *)
(***************************************************************************)
\* The fixed arrays are never overrun and the cursor is always in the text:
\* every operation indexes the lines with it and checks nothing.
Buffer(e) ==
    /\ e \in [lines : Seq(Seq(Glyphs)), row : Nat, col : Nat, modified : BOOLEAN]
    /\ Len(e.lines) \in 1..MaxLines
    /\ \A i \in DOMAIN e.lines : Len(e.lines[i]) < MaxLen
    /\ e.row \in DOMAIN e.lines /\ e.col \in 0..Len(Line(e))

Pendings == [normal |-> {"none", "dd", "gg"}, insert |-> {"none", "jj"}, command |-> {"none"}]

TypeOK ==
    /\ Buffer(ed)
    /\ mode \in DOMAIN Pendings /\ pending \in Pendings[mode]
    /\ path \in Paths \cup {NoPath} /\ disk \in [Paths -> {Absent} \cup Seq(Characters)]
    /\ faithful \in BOOLEAN /\ keys \in 0..MaxKeys
    /\ phase \in {"start", "edit", "ended", "left", "failed"}

\* An unmodified buffer that was read whole or written whole is what its
\* file holds: the flag that lets :q leave misses no edit and no file name.
UnmodifiedIsOnDisk == (~ed.modified /\ faithful) => path # NoPath /\ disk[path] = Text(ed)

\* What the proofs add: before the first key nothing was read.
EditorInv ==
    /\ TypeOK /\ UnmodifiedIsOnDisk
    /\ faithful => path # NoPath
    /\ phase = "start" => ~faithful

\* The text with the place in it that the user sees: a j that waits is typed.
Shown == IF pending = "jj" THEN Insert(ed, <<J>>) ELSE ed
Place(e) == Len(Ended(SubSeq(e.lines, 1, e.row - 1))) + e.col
Promise == INSTANCE TextPromise WITH MaxTyped <- Tab, text <- Text(Shown), at <- Place(Shown)

\* Every key is one edit of one text at one place, whatever limits, lines
\* and waiting keys the code goes through.
KeyIsEdit == phase = "edit" => Promise!Next
KeysAreEdits == [][KeyIsEdit]_vars
=============================================================================
