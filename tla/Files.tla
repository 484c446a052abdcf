-------------------------------- MODULE Files --------------------------------
(***************************************************************************)
(* Paths and the small commands that change files: cd, mkdir, touch,       *)
(* write, append, rm, cp and mv, with the path code they share (apps/      *)
(* cmd_runtime.c), the terminal's copy of it (apps/xde_main.c) and the     *)
(* three ways a typed name becomes a program.                              *)
(*                                                                         *)
(* A typed path is a sequence of names and slashes; a resolved one is the  *)
(* sequence of its names.                                                  *)
(***************************************************************************)
EXTENDS Naturals, Sequences, SequencesExt

CONSTANTS
    Widths,             \* the length of every name
    Begins,             \* for every name, the names its text begins with
    WithElf,            \* for every name without ".elf", the one with it
    PathMax,            \* USH_PATH_MAX
    CommandMax,         \* XDE_USH_CMD_MAX, the shorter buffer of a command
    CopyMax,            \* XCP_MAX and XMV_MAX: cells one read takes
    Places,             \* the paths a node can be at
    Absent, Dir, TooLong, NoFile,
    Texts, Cells,       \* typed paths; what is written
    Commands, Search,   \* typed names of programs; the directories of PATH
    Users, Root, Starts,
    MaxFiles,           \* cells of a file
    MaxRuns             \* bound on the commands of a behaviour

Names == DOMAIN Widths
\* What stands in a typed path and is not a name.
Special == {"/", ".", ".."}

ASSUME NamesAssumption ==
    /\ Widths \in [Names -> Nat] /\ PathMax \in Nat /\ Special \cap Names = {}
    /\ {"home", "temp", "shell"} \subseteq Names
    /\ TooLong \notin Seq(Names) /\ NoFile \notin Seq(Names) /\ TooLong # NoFile
ASSUME TextsAssumption ==
    /\ Texts \subseteq Seq(Names \cup Special) \ {<<>>}
    /\ Commands \subseteq Seq(Names \cup Special) \ {<<>>}
\* A command is typed so that it fits both shells' buffers, which cut a longer
\* one, the terminal's and xsh's each at its own length.
TypedWidth(t) ==
    LET upto[i \in 0..Len(t)] ==
            IF i = 0 THEN 0
            ELSE upto[i - 1] + (IF t[i] \in Names THEN Widths[t[i]] ELSE IF t[i] = ".." THEN 2 ELSE 1)
    IN upto[Len(t)]
ASSUME CommandsAssumption == \A t \in Commands : TypedWidth(t) < CommandMax
\* The home of every user is a path; PATH starts with /shell, as it does
\* unless the environment of xsh has another one.
ASSUME UsersAssumption ==
    \A u \in Users : u \in Names /\ 2 + Widths["home"] + Widths[u] < PathMax
ASSUME SearchAssumption == Search \in Seq(Seq(Names)) \ {<<>>} /\ Search[1] = <<"shell">>

VARIABLES
    tree, user, cwd,
    job,      \* the cp or mv that runs, with what it has read
    asked,    \* ghost: what the last cp or mv was asked for
    runs

vars == <<tree, user, cwd, job, asked, runs>>
NoJob == [op |-> "none"]

(***************************************************************************)
(* Paths.                                                                  *)
(***************************************************************************)
Width(p) ==
    LET upto[i \in 0..Len(p)] == IF i = 0 THEN 0 ELSE upto[i - 1] + 1 + Widths[p[i]]
    IN upto[Len(p)]
IsAbsolute(t) == t # <<>> /\ t[1] = "/"
HasSlash(t) == "/" \in ToSet(t)

PushComponent(p, c) ==
    IF (IF p = <<>> THEN 1 ELSE Width(p) + 1) + Widths[c] < PathMax THEN Append(p, c) ELSE TooLong
PopComponent(p) == IF p = <<>> THEN p ELSE Front(p)

Component(p, c) ==
    CASE p = TooLong \/ c \in {"/", "."} -> p
      [] c = ".." /\ p # TooLong         -> PopComponent(p)
      [] OTHER                            -> PushComponent(p, c)
ParseInto(t, out) ==
    LET upto[i \in 0..Len(t)] == IF i = 0 THEN out ELSE Component(upto[i - 1], t[i])
    IN upto[Len(t)]

\* Fault: a path that is empty or starts with ".." is taken from the root.
ResolvePath_Rooted(from, t) ==
    IF IsAbsolute(t) \/ Head(t) = ".." THEN ParseInto(t, <<>>) ELSE ParseInto(t, ParseInto(from, <<>>))

ResolvePath(from, t) ==
    IF IsAbsolute(t) THEN ParseInto(t, <<>>) ELSE ParseInto(t, ParseInto(from, <<>>))
TerminalResolvePath(from, t) == ParseInto(t, IF IsAbsolute(t) THEN <<>> ELSE ParseInto(from, <<>>))

\* The texts are compared up to the prefix's length, then the next character.
StartsWith(p, prefix) ==
    /\ Len(p) >= Len(prefix) /\ prefix # <<>>
    /\ Front(prefix) = SubSeq(p, 1, Len(prefix) - 1)
    /\ Last(prefix) \in Begins[p[Len(prefix)]] \cup {p[Len(prefix)]}
\* Fault: the character behind the prefix is not looked at.
IsUnder_Text(p, prefix) == StartsWith(p, prefix)
IsUnder(p, prefix) == StartsWith(p, prefix) /\ p[Len(prefix)] = Last(prefix)

HomeOf(u) == <<"home", u>>
IsUnderCurrentHome(p) == IF user = Root THEN IsUnder(p, <<"home">>) ELSE IsUnder(p, HomeOf(user))
CanModify(p) == user = Root \/ IsUnder(p, <<"temp">>) \/ IsUnderCurrentHome(p)

(***************************************************************************)
(* The file system (external): a call may fail, a write in the middle.     *)
(***************************************************************************)
At(p) == IF p \in Places THEN tree[p] ELSE Absent
IsFile(n) == n \notin {Absent, Dir}
Writable(p) == p \in Places /\ p # <<>> /\ tree[p] # Dir /\ At(Front(p)) = Dir
Put(p, n) == tree' = [tree EXCEPT ![p] = n]
WriteFails(p, s) ==
    \/ UNCHANGED tree
    \/ Writable(p) /\ \E k \in 0..Len(s) - 1 : Put(p, SubSeq(s, 1, k))
Removable(p) == p \in Places /\ p # <<>> /\ tree[p] # Absent
                /\ \A q \in Places : IsStrictPrefix(p, q) => tree[q] = Absent

Asked(a) == job = NoJob /\ runs < MaxRuns /\ runs' = runs + 1 /\ asked' = a
Refused == UNCHANGED <<tree, user, cwd, job>>

(***************************************************************************)
(* The commands.                                                           *)
(***************************************************************************)
Cd ==
    \E t \in Texts \cup {<<>>} :
        LET target == IF t = <<>> THEN HomeOf(user) ELSE ResolvePath(cwd, t)
        IN /\ Asked(NoJob)
           /\ IF target # TooLong /\ At(target) = Dir
              THEN cwd' = target /\ UNCHANGED <<tree, user, job>> ELSE Refused

\* The other commands resolve a typed path, refuse one that the user may not
\* change, and then make one call of the file system.
Named == {ResolvePath(cwd, t) : t \in Texts}
TurnAway == Asked(NoJob) /\ ~(\A p \in Named : p # TooLong /\ CanModify(p)) /\ Refused
OnPath(p) == Asked(NoJob) /\ p # TooLong /\ CanModify(p) /\ UNCHANGED <<user, cwd, job>>

MakeDir(p) ==
    \/ p \in Places /\ p # <<>> /\ tree[p] = Absent /\ At(Front(p)) = Dir /\ Put(p, Dir)
    \/ UNCHANGED tree
Overwrite(p, s) == (Writable(p) /\ Put(p, s)) \/ WriteFails(p, s)
AppendTo(p, s) == LET old == IF IsFile(At(p)) THEN At(p) ELSE <<>>
                  IN (Writable(p) /\ Len(old \o s) <= MaxFiles /\ Put(p, old \o s)) \/ UNCHANGED tree
Unlink(p) == (Removable(p) /\ Put(p, Absent)) \/ UNCHANGED tree

Mkdir == \E p \in Named : OnPath(p) /\ MakeDir(p)
Touch == \E p \in Named : OnPath(p) /\ Overwrite(p, <<>>)
Write == \E p \in Named, c \in Cells : OnPath(p) /\ Overwrite(p, <<c>>)
AppendText == \E p \in Named, c \in Cells : OnPath(p) /\ AppendTo(p, <<c>>)
Rm == \E p \in Named : OnPath(p) /\ Unlink(p)

Buffered(s) == IF Len(s) <= CopyMax THEN s ELSE SubSeq(s, 1, CopyMax)

\* cp and mv read at most one buffer; mv asks for both places, cp for one.
MayCopy(op, src, dst) == CanModify(dst) /\ (op = "mv" => CanModify(src))
Copy(op) ==
    \E t, u \in Texts :
        LET src == ResolvePath(cwd, t)  dst == ResolvePath(cwd, u)
        IN /\ Asked([src |-> src, dst |-> dst, was |-> IF src = TooLong THEN Absent ELSE At(src)])
           /\ IF TooLong \in {src, dst} THEN Refused
              ELSE IF ~IsFile(At(src)) \/ ~MayCopy(op, src, dst) THEN Refused
              ELSE /\ job' = [op |-> op, src |-> src, dst |-> dst, step |-> "write",
                              read |-> Buffered(tree[src])]
                   /\ UNCHANGED <<tree, user, cwd>>
Cp == Copy("cp")
Mv == Copy("mv")

\* Fault: the source goes although the write of the copy failed.
CopyWrite_GoesOn ==
    /\ job # NoJob /\ job.step = "write"
    /\ (Writable(job.dst) /\ Put(job.dst, job.read)) \/ WriteFails(job.dst, job.read)
    /\ job' = IF job.op = "mv" THEN [job EXCEPT !.step = "remove"] ELSE NoJob
    /\ UNCHANGED <<user, cwd, asked, runs>>

CopyWrite ==
    /\ job # NoJob /\ job.step = "write"
    /\ \/ /\ Writable(job.dst) /\ Put(job.dst, job.read)
          /\ job' = IF job.op = "mv" THEN [job EXCEPT !.step = "remove"] ELSE NoJob
       \/ WriteFails(job.dst, job.read) /\ job' = NoJob
    /\ UNCHANGED <<user, cwd, asked, runs>>

MvRemove ==
    /\ job # NoJob /\ job.step = "remove"
    /\ Unlink(job.src) /\ job' = NoJob
    /\ UNCHANGED <<user, cwd, asked, runs>>

Killed == job # NoJob /\ job' = NoJob /\ UNCHANGED <<tree, user, cwd, asked, runs>>

(***************************************************************************)
(* From a typed name to a program.                                         *)
(***************************************************************************)
ElfOf(n) == IF n \in DOMAIN WithElf THEN WithElf[n] ELSE n
FileAt(p) == IF p # TooLong /\ IsFile(At(p)) THEN p ELSE NoFile
\* The ending is looked for in the resolved path, in an absolute text as it
\* stands: no file has the name that a dot or a slash at its end then gets.
ResolveExecPath(t) ==
    LET p == ResolvePath(cwd, t)
    IN IF p \in {TooLong, <<>>} \/ (IsAbsolute(t) /\ Last(t) \in Special) THEN TooLong
       ELSE Append(Front(p), ElfOf(Last(p)))

\* xsh: a path gets its ".elf", a bare name is looked for along PATH.
RunExternal(t) ==
    IF HasSlash(t) THEN FileAt(ResolveExecPath(t))
    ELSE LET found == {i \in DOMAIN Search : IsFile(At(Append(Search[i], ElfOf(t[1]))))}
         IN IF found = {} THEN NoFile
            ELSE Append(Search[CHOOSE i \in found : \A j \in found : i <= j], ElfOf(t[1]))

\* The terminal: no PATH, and a path is taken as it stands.
ResolveCommandPath(t) ==
    FileAt(IF HasSlash(t) THEN TerminalResolvePath(cwd, t) ELSE <<"shell", ElfOf(t[1])>>)

Init ==
    /\ tree \in Starts /\ user \in Users /\ cwd \in {<<>>, HomeOf(user)}
    /\ job = NoJob /\ runs = 0
    /\ asked = NoJob

Next == Cd \/ TurnAway \/ Mkdir \/ Touch \/ Write \/ AppendText \/ Rm \/ Cp \/ Mv \/ CopyWrite \/ MvRemove \/ Killed

Spec == Init /\ [][Next]_vars

(***************************************************************************)
(* The inductive invariant.                                                *)
(***************************************************************************)
\* A resolved path: names only, and short enough.
Path == {p \in Seq(Names) : Width(p) < PathMax}

\* Every node is in a directory.
Tree(f) ==
    /\ f \in [Places -> {f[p] : p \in Places}] /\ <<>> \in Places /\ f[<<>>] = Dir
    /\ \A p \in Places : f[p] # Absent /\ p # <<>> => Front(p) \in Places /\ f[Front(p)] = Dir

ASSUME TreesAssumption == Places \subseteq Seq(Names) /\ Absent # Dir /\ \A f \in Starts : Tree(f)

StateInv == Tree(tree) /\ user \in Users /\ cwd \in Path

\* A cp or mv that runs may change what it is about to change, and has read
\* the front of a file that is still there.
JobInv ==
    job # NoJob =>
        /\ job \in [op : {"cp", "mv"}, src : Path, dst : Path, step : {"write", "remove"},
                     read : {job.read}]
        /\ MayCopy(job.op, job.src, job.dst) /\ (job.step = "remove" => job.op = "mv")
        /\ asked = [src |-> job.src, dst |-> job.dst, was |-> asked.was]
        /\ IsFile(asked.was) /\ job.read = Buffered(asked.was)
        /\ job.src # job.dst =>
              /\ job.step = "write" => asked.was = At(job.src)
              /\ job.step = "remove" => At(job.dst) = job.read

(***************************************************************************)
(* Properties.                                                             *)
(***************************************************************************)
TypeOK ==
    /\ Tree(tree)
    /\ Width(cwd) < PathMax /\ Special \cap ToSet(cwd) = {}

\* A user other than root changes nothing outside /temp and the own home,
\* however the paths were typed and wherever the command was cut short.
Owned(p) == IsPrefix(<<"temp">>, p) \/ IsPrefix(HomeOf(user), p)
OwnedChange == user # Root => \A p \in Places : Owned(p) \/ tree'[p] = tree[p]
ChangesOwned == [][OwnedChange]_vars

\* What cp and mv take is there all the time, at the old place or whole at the
\* new one, whichever step fails or is the last; files longer than one buffer
\* and a copy or move of a file onto itself left out (see the README).
SourceKept ==
    (/\ asked # NoJob
     /\ asked.src # asked.dst /\ IsFile(asked.was) /\ Len(asked.was) <= CopyMax)
    => asked.was = At(asked.src) \/ (asked.dst # TooLong /\ asked.was = At(asked.dst))

FilesInv == StateInv /\ JobInv /\ SourceKept

\* Going to a place and naming a file from there names the file that both
\* typed together name; and of a command that fits both buffers
\* the terminal runs the program xsh runs, except for a path without ".elf" at
\* its end, which only xsh completes, and a bare name that is not in /shell,
\* which only xsh looks for elsewhere.
IsCompleted(t) ==
    LET p == ResolvePath(cwd, t)
    IN IF IsAbsolute(t) /\ Last(t) \in Special THEN TRUE
       ELSE p \notin {TooLong, <<>>} /\ Last(p) \in DOMAIN WithElf
PathsAgree ==
    /\ TypeOK
    /\ \A t, u \in Texts :
          LET there == ResolvePath(cwd, t)
          IN there = TooLong \/ IsAbsolute(u)
             \/ ResolvePath(cwd, t \o <<"/">> \o u) = ResolvePath(there, u)
    /\ \A t \in Commands :
          \/ HasSlash(t) /\ IsCompleted(t)
          \/ ResolveCommandPath(t) = RunExternal(t)
          \/ ~HasSlash(t) /\ ResolveCommandPath(t) = NoFile
=============================================================================
