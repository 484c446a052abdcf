----------------------------- MODULE MCCommands -----------------------------
(***************************************************************************)
(* The small commands, the account libraries, the terminal window and      *)
(* partctl, one behaviour each: the first state chooses which program      *)
(* runs; the variables of the others stay at the first states that are     *)
(* called AtRest.                                                          *)
(***************************************************************************)
EXTENDS Files, Partition, Accounts, Terminal, TLC

CONSTANTS x, U, V, BS, Rubout

VARIABLES program

commandVars == <<program, accountVars, vars, terminalVars, partitionVars>>

(***************************************************************************)
(* Accounts: two names, files of up to five lines.                         *)
(***************************************************************************)
User(n, role) == [name |-> n, role |-> role, hash |-> <<"sha256", <<U>>>>, home |-> "own"]
IdLine(n, id) == [name |-> n, id |-> id]
Secret(n) == [name |-> n, hash |-> <<"x1", <<U>>>>]
Ended(s) == [lines |-> s, ended |-> TRUE]
Open(s) == [lines |-> s, ended |-> FALSE]
AccountStarts ==
    {[users |-> Missing, passwd |-> Missing, shadow |-> Missing],
     [users |-> Ended(<<User("root", "admin"), Junk, User("ann", "user")>>),
      passwd |-> Ended(<<IdLine("root", 0), IdLine("new", 3), IdLine("old", 2)>>),
      shadow |-> Open(<<Secret("ann"), Secret("root")>>)],
     [users |-> Open(<<User("root", "admin"), User("ann", "user")>>),
      passwd |-> Open(<<IdLine("root", 0), Junk, IdLine("ann", BadId)>>),
      shadow |-> Ended(<<Secret("root"), Junk>>)],
     [users |-> Ended([i \in 1..4 |-> IF i = 4 THEN User("ann", "user") ELSE Junk]),
      passwd |-> Ended([i \in 1..5 |-> IF i = 1 THEN IdLine("ann", 7) ELSE Junk]),
      shadow |-> Ended([i \in 1..5 |-> IF i = 5 THEN Secret("ann") ELSE Junk])]}
AccountNames == {"root", "ann"}
OtherNames == {"new", "old"}
LibraryPasswords == {<<U>>, <<V>>}
TypedPasswords == {<<>>, <<U>>, <<V, BS, U>>, <<U, V, U>>, <<U, Rubout, V>>}
AccountsAtRest == AccountsInit /\ users = Missing /\ session = Unset

(***************************************************************************)
(* Files: two homes of which one name begins with the other, a buffer of   *)
(* two cells and paths of up to 13 characters.                             *)
(***************************************************************************)
FilePlaces ==
    {<<>>, <<"temp">>, <<"home">>, <<"shell">>, <<"home", "ann">>, <<"home", "anna">>,
     <<"temp", "f">>, <<"home", "ann", "f">>, <<"home", "anna", "f">>, <<"shell", "ls.elf">>}
FileTree(here, there) ==
    [p \in FilePlaces |->
        IF p \in {<<"temp", "f">>, <<"shell", "ls.elf">>} THEN here
        ELSE IF p \in {<<"home", "ann", "f">>, <<"home", "anna", "f">>} THEN there ELSE Dir]
FileStarts == {FileTree(here, there) : here \in {<<x>>, <<x, U, x>>}, there \in {Absent, <<x>>, <<x, U, x>>}}
FileNames == [home |-> 4, temp |-> 4, shell |-> 5, ann |-> 3, anna |-> 4, f |-> 1, ls |-> 2,
              root |-> 4] @@ ("ls.elf" :> 6)
NameBegins == [n \in DOMAIN FileNames |-> IF n = "anna" THEN {"ann"} ELSE {}]
TypedPaths ==
    {<<"f">>, <<"..">>, <<"..", "/", "anna", "/", "f">>, <<"/", "temp", "/", "f">>,
     <<"/", "home", "/", "ann", "/", ".", "/", "f">>, <<"f", "/", "f", "/", "f">>}
TypedCommands ==
    {<<"ls">>, <<"ls.elf">>, <<"..", "/", "shell", "/", "ls.elf">>, <<"..", "/", "..", "/", "shell", "/", "ls">>}
ElfNames == [ls |-> "ls.elf", f |-> "f.elf"]
FileUsers == {"ann", "root"}
WrittenCells == {V}
SearchPath == << <<"shell">> >>
FilesAtRest == Init /\ tree = FileTree(<<x>>, Absent) /\ user = "root" /\ cwd = <<>>

(***************************************************************************)
(* Terminal: three rows of three characters; k clears, c is caps, e exits, *)
(* z runs a program.                                                       *)
(***************************************************************************)
Capitals == [k |-> "K", c |-> "C", z |-> "Z", e |-> "E"]
Builtins == (<<"k">> :> "clear") @@ (<<"c">> :> "caps") @@ (<<"e">> :> "exit") @@ (<<"z">> :> "external")
ProgramOutputs ==
    {<<>>, <<"a", "b", "c", "d", "NL">>, <<"a", "BS", "BS", "TAB", "NL", "NL", "b">>,
     <<"a", "ESC", "[", "2", "J", "b">>, <<"a", "ESC", "[", "0", "1", "1", "2", "J">>, <<"a", "ESC", "[", "K", "b", "NUL", "b">>,
     <<"a", "CR", "b", "ESC", "x", "y", "ESC", "[", "1">>,
     <<"m", "NL", "m", "NL", "m", "NL", "a", "b", "ESC", "[", "1", "m", "c", "d">>}
TypedCharacters == {"k", "c", "z", "e", "BS"}
PrintedCharacters ==
    UNION {{out[i] : i \in DOMAIN out} : out \in ProgramOutputs} \cup TypedCharacters
    \cup {Capitals[k] : k \in DOMAIN Capitals} \cup {" ", "$", "s", "C", "t", "f"}

(***************************************************************************)
(* Partition: words of 64 values, fields of 16, a disk of 20 sectors; an   *)
(* empty boot record, one with two partitions, and leftovers in the place  *)
(* of entries.  33 is the letter x.                                        *)
(***************************************************************************)
Part(active, type, start, size) == [boot |-> active, type |-> type, start |-> start, size |-> size]
NoPart == Part(FALSE, 0, 0, 0)
BootRecords ==
    {[signed |-> FALSE, entries |-> <<NoPart, NoPart, NoPart, NoPart>>],
     [signed |-> TRUE, entries |-> <<Part(FALSE, 1, 2, 4), NoPart, Part(TRUE, 2, 6, 3), NoPart>>],
     [signed |-> FALSE, entries |-> <<Part(TRUE, 7, 15, 15), Part(FALSE, 0, 2, 3), Part(FALSE, 1, 4, 2), NoPart>>]}
PartCommands ==
    {<<"init-mbr">>, <<"delete", <<1>>>>, <<"delete", <<5>>>>, <<"delete", <<0, 33, 3>>>>,
     <<"set-boot", <<2>>, <<1>>>>, <<"set-boot", <<3>>, <<0>>>>, <<"set-boot", <<4>>, <<2>>>>}
    \cup {<<"create", <<i>>, start, size, <<1>>>> :
            i \in {1, 2, 4}, size \in {<<3>>, <<5>>},
            start \in {<<1>>, <<0, 1, 1>>, <<6, 5>>, <<Minus, 9, 9>>, <<0, 33, 2>>}}
    \cup {<<"create", <<2>>, <<2>>, size, type, flag>> :
            size \in {<<1, 5>>, <<0, 33>>, <<>>, <<0>>, <<Plus, 1, 8>>}, type \in {<<0, 33, 1, 7>>, <<1, 6>>, <<2, 0, 0>>},
            flag \in {<<0>>, <<1>>, <<2>>}}
DiskAtRest == PartitionInit /\ mbr.entries = [i \in Index |-> NoPart]

CommandsInit ==
    \/ program = "accounts" /\ AccountsInit /\ FilesAtRest /\ TerminalInit /\ DiskAtRest
    \/ program = "files" /\ Init /\ AccountsAtRest /\ TerminalInit /\ DiskAtRest
    \/ program = "terminal" /\ TerminalInit /\ AccountsAtRest /\ FilesAtRest /\ DiskAtRest
    \/ program = "partctl" /\ PartitionInit /\ AccountsAtRest /\ FilesAtRest /\ TerminalInit

Administering == program = "accounts" /\ AccountsNext /\ UNCHANGED <<program, vars, terminalVars, partitionVars>>
Filing == program = "files" /\ Next /\ UNCHANGED <<program, accountVars, terminalVars, partitionVars>>
Typing == program = "terminal" /\ TerminalNext /\ UNCHANGED <<program, accountVars, vars, partitionVars>>
Partitioning == program = "partctl" /\ PartitionNext /\ UNCHANGED <<program, accountVars, vars, terminalVars>>
CommandsNext == Administering \/ Filing \/ Typing \/ Partitioning

CommandsSpec == CommandsInit /\ [][CommandsNext]_commandVars
=============================================================================
