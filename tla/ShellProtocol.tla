--------------------------- MODULE ShellProtocol ---------------------------
(***************************************************************************)
(* How XiaoBaiOS shells run programs.  A shell (xsh, an xsh started inside *)
(* another one, or the terminal window of the desktop) tells the program   *)
(* who and where it is through one context file, CTX, and learns what the  *)
(* program changed through one return file, RET.  Both are global: every   *)
(* shell and every program uses the same two names under /temp.            *)
(* A program can crash at any point and the terminal kills a program that  *)
(* runs for too long, which leaves the programs below it running: the      *)
(* orphans.                                                                *)
(***************************************************************************)
EXTENDS Naturals, FiniteSets

CONSTANTS
    Procs,        \* process slots
    Root,         \* the outermost shell
    RootKinds,    \* what it may be: "xsh", "terminal"
    Users,        \* account names
    RootUser,     \* "root"
    Dirs,         \* directories a shell can be in
    Slash,        \* "/"
    Home,         \* Home[u] is u's home, or NoDir when it is not a directory
    NoDir,
    Codes,        \* arguments of exit
    MaxCmds,      \* bound: commands typed in a run, by the kind of the root
    NoProc, NoFile, NoExit

\* Programs by what they do to the shell's state.  "plain" stands for every
\* command that changes nothing of it (ls, cat, id, ...), "app" for a program
\* that knows nothing of the two files.
Commands == {"xsh", "cd", "su", "exit", "plain", "app"}

State   == [cwd : Dirs, user : Users]
Context == [cmd : Commands, cwd : Dirs, user : Users, by : Procs]
Return  == [cwd : Dirs \cup {NoDir}, user : Users \cup {NoProc}, exit : Codes \cup {NoExit}]

ASSUME RootAssumption  == Root \in Procs /\ NoProc \notin Procs
ASSUME KindAssumption  == RootKinds \subseteq {"xsh", "terminal"}
ASSUME UserAssumption  == RootUser \in Users /\ NoProc \notin Users
ASSUME DirAssumption   == /\ Slash \in Dirs /\ NoDir \notin Dirs
                          /\ Home \in [Users -> Dirs \cup {NoDir}]
ASSUME CodeAssumption  == NoExit \notin Codes
ASSUME FileAssumption  == NoFile \notin Context \cup Return
ASSUME BoundAssumption == MaxCmds \in [RootKinds -> Nat]

VARIABLES
    pc,        \* where each process is; "free" when the slot is unused
    kind,      \* the program each process runs
    parent,    \* the process that waits for it; NoProc for the root and orphans
    sh,        \* ush_state: current directory and identity
    ex,        \* exit_requested and exit_code
    has,       \* the context a program accepted at its start, or NoFile
    status,    \* how a finished program ended
    ctx, ret,  \* the two files
    kuser,     \* the identity of the kernel's session
    login,     \* whether somebody has logged in
    gate,      \* disk_login_required
    cmds,      \* commands typed so far
    alone      \* no orphan has been alive since the root's last command was typed

vars == <<pc, kind, parent, sh, ex, has, status, ctx, ret, kuser, login, gate, cmds, alone>>
files == <<ctx, ret>>
session == <<kuser, login, gate>>

Points == {"free", "boot", "login", "prompt", "exec", "wait", "apply", "rewrite",
           "work", "flush", "closing", "done", "closed"}

TypeOK ==
    /\ pc \in [Procs -> Points]
    /\ kind \in [Procs -> Commands \cup {"terminal"}]
    /\ parent \in [Procs -> Procs \cup {NoProc}]
    /\ sh \in [Procs -> State]
    /\ ex \in [Procs -> Codes \cup {NoExit}]
    /\ has \in [Procs -> Context \cup {NoFile}]
    /\ status \in [Procs -> {"flushed", "silent", "signal"}]
    /\ ctx \in Context \cup {NoFile}
    /\ ret \in Return \cup {NoFile}
    /\ kuser \in Users /\ login \in BOOLEAN /\ gate \in BOOLEAN
    /\ cmds \in 0 .. MaxCmds[kind[Root]] /\ alone \in BOOLEAN

----------------------------------------------------------------------------
\* ush_init_state: what a process believes before it has read anything.
InitState == [cwd |-> Slash, user |-> RootUser]

IsShell(p) == kind[p] = "xsh"
ChildOf(q, p) == pc[q] # "free" /\ parent[q] = p
Orphans == {q \in Procs \ {Root} : pc[q] # "free" /\ parent[q] = NoProc}

Init ==
    /\ kind \in {[p \in Procs |-> IF p = Root THEN k ELSE "app"] : k \in RootKinds}
    /\ pc = [p \in Procs |-> IF p # Root THEN "free"
                             ELSE IF IsShell(Root) THEN "boot" ELSE "prompt"]
    /\ parent = [p \in Procs |-> NoProc]
    /\ sh = [p \in Procs |-> InitState]
    /\ ex = [p \in Procs |-> NoExit]
    /\ has = [p \in Procs |-> NoFile]
    /\ status = [p \in Procs |-> "silent"]
    /\ ctx = NoFile /\ ret = NoFile
    /\ gate \in BOOLEAN
    /\ login \in (IF IsShell(Root) THEN BOOLEAN ELSE {TRUE})
    /\ kuser \in (IF login THEN Users ELSE {RootUser})
    /\ cmds = 0 /\ alone = TRUE

\* Fault: the directory is compared with "/" and not with the context's.
Flushed_FromSlash(s, c, e) ==
    [cwd  |-> IF s.cwd # Slash THEN s.cwd ELSE NoDir,
     user |-> IF s.user # c.user THEN s.user ELSE NoProc,
     exit |-> e]

\* ush_command_flush_state: only what differs from the context is flagged.
Flushed(s, c, e) ==
    [cwd  |-> IF s.cwd # c.cwd THEN s.cwd ELSE NoDir,
     user |-> IF s.user # c.user THEN s.user ELSE NoProc,
     exit |-> e]

\* xsh_write_ret: an inner shell republishes all it knows.
Republished(s) == [cwd |-> s.cwd, user |-> s.user, exit |-> NoExit]

\* The shell's side of RET: each flagged field replaces the shell's own.
Applied(s, r) ==
    [cwd  |-> IF r = NoFile \/ r.cwd = NoDir THEN s.cwd ELSE r.cwd,
     user |-> IF r = NoFile \/ r.user = NoProc THEN s.user ELSE r.user]

ExitIn(r) == IF r = NoFile THEN NoExit ELSE r.exit

\* Fault: the home is entered without asking whether it is a directory.
AtHome_Unchecked(s, u) == [cwd |-> Home[u], user |-> u]

\* ush_apply_home_if_any and xsh_apply_user_info: enter the home if there is one.
AtHome(s, u) == [cwd |-> IF Home[u] # NoDir THEN Home[u] ELSE s.cwd, user |-> u]

\* An orphan has nobody to wait for it: its slot is free once it ends.
Ended(p) == IF parent[p] = NoProc THEN "free" ELSE "done"

----------------------------------------------------------------------------
(* The start of a program. *)

\* The context counts only if it names this program; the kernel's identity
\* replaces the one in the context.
Accepted(p) == IF ctx # NoFile /\ kind[p] # "app" /\ ctx.cmd = kind[p]
               THEN ctx ELSE NoFile

\* Fault: the identity of the context is kept.
Boot_NoSync(p) ==
    /\ pc[p] = "boot"
    /\ has' = [has EXCEPT ![p] = Accepted(p)]
    /\ sh' = [sh EXCEPT ![p] = IF Accepted(p) = NoFile THEN InitState
                              ELSE [cwd |-> ctx.cwd, user |-> ctx.user]]
    /\ pc' = [pc EXCEPT ![p] = IF IsShell(p) THEN "login" ELSE "work"]
    /\ UNCHANGED <<kind, parent, ex, status, files, session, cmds, alone>>

Boot(p) ==
    /\ pc[p] = "boot"
    /\ has' = [has EXCEPT ![p] = Accepted(p)]
    /\ sh' = [sh EXCEPT ![p] =
                [cwd |-> IF Accepted(p) = NoFile THEN Slash ELSE ctx.cwd, user |-> kuser]]
    /\ pc' = [pc EXCEPT ![p] = IF IsShell(p) THEN "login" ELSE "work"]
    /\ UNCHANGED <<kind, parent, ex, status, files, session, cmds, alone>>

\* xsh_login_if_needed, and the first report of an inner shell to its parent.
Enter(p, s) ==
    /\ sh' = [sh EXCEPT ![p] = s]
    /\ ret' = IF has[p] # NoFile THEN Republished(s) ELSE ret
    /\ pc' = [pc EXCEPT ![p] = "prompt"]
    /\ UNCHANGED <<kind, parent, ex, has, status, ctx, gate, cmds, alone>>

LoginKnown(p) ==
    /\ pc[p] = "login" /\ (login \/ ~gate)
    /\ Enter(p, IF login THEN AtHome(sh[p], kuser) ELSE sh[p])
    /\ UNCHANGED <<kuser, login>>

LoginTyped(p, u) ==
    /\ pc[p] = "login" /\ gate /\ ~login
    /\ kuser' = u /\ login' = TRUE
    /\ Enter(p, AtHome(sh[p], u))

----------------------------------------------------------------------------
(* Running a command: remove RET, write CTX, start the program, wait. *)

\* Fault: a context that is already there is not replaced.
Launch_KeepsCtx(p, c) ==
    /\ pc[p] = "prompt" /\ cmds < MaxCmds[kind[Root]]
    /\ cmds' = cmds + 1
    /\ ret' = NoFile
    /\ ctx' = IF ctx # NoFile THEN [ctx EXCEPT !.cmd = c]
              ELSE [cmd |-> c, cwd |-> sh[p].cwd, user |-> sh[p].user, by |-> p]
    /\ alone' = IF p = Root THEN Orphans = {} ELSE alone
    /\ pc' = [pc EXCEPT ![p] = "exec"]
    /\ UNCHANGED <<kind, parent, sh, ex, has, status, session>>

Launch(p, c) ==
    /\ pc[p] = "prompt" /\ cmds < MaxCmds[kind[Root]]
    /\ cmds' = cmds + 1
    /\ ret' = NoFile
    /\ ctx' = [cmd |-> c, cwd |-> sh[p].cwd, user |-> sh[p].user, by |-> p]
    /\ alone' = IF p = Root THEN Orphans = {} ELSE alone
    /\ pc' = [pc EXCEPT ![p] = "exec"]
    /\ UNCHANGED <<kind, parent, sh, ex, has, status, session>>

Spawn(p, q) ==
    /\ pc[p] = "exec" /\ pc[q] = "free" /\ ctx # NoFile
    /\ pc' = [pc EXCEPT ![p] = "wait", ![q] = "boot"]
    /\ kind' = [kind EXCEPT ![q] = ctx.cmd]
    /\ parent' = [parent EXCEPT ![q] = p]
    /\ sh' = [sh EXCEPT ![q] = InitState]
    /\ ex' = [ex EXCEPT ![q] = NoExit]
    /\ has' = [has EXCEPT ![q] = NoFile]
    /\ status' = [status EXCEPT ![q] = "silent"]
    /\ UNCHANGED <<files, session, cmds, alone>>

\* The kernel refuses the program: the shell takes CTX back and prompts again.
\* The terminal removes RET as well.
SpawnFails(p) ==
    /\ pc[p] = "exec"
    /\ ctx' = NoFile
    /\ ret' = IF kind[p] = "terminal" THEN NoFile ELSE ret
    /\ pc' = [pc EXCEPT ![p] = "prompt"]
    /\ UNCHANGED <<kind, parent, sh, ex, has, status, session, cmds, alone>>

----------------------------------------------------------------------------
(* The programs. *)

Working(p, k) == pc[p] = "work" /\ kind[p] = k

Work(p, s, e) ==
    /\ sh' = [sh EXCEPT ![p] = s]
    /\ ex' = [ex EXCEPT ![p] = e]
    /\ pc' = [pc EXCEPT ![p] = "flush"]
    /\ UNCHANGED <<kind, parent, has, status, files, gate, cmds, alone>>

\* cd enters a directory, or changes nothing when it is none.
Cd(p, d) ==
    /\ Working(p, "cd")
    /\ Work(p, [sh[p] EXCEPT !.cwd = d], NoExit)
    /\ UNCHANGED <<kuser, login>>

\* su: the kernel's session changes first, RET is written later.
Su(p, u) ==
    /\ Working(p, "su")
    /\ kuser' = u /\ login' = TRUE
    /\ Work(p, AtHome(sh[p], u), NoExit)

\* A wrong password, and every command that leaves the shell's state alone.
Plain(p) ==
    /\ Working(p, "plain") \/ Working(p, "su")
    /\ Work(p, sh[p], NoExit)
    /\ UNCHANGED <<kuser, login>>

Exit(p, e) ==
    /\ Working(p, "exit")
    /\ Work(p, sh[p], e)
    /\ UNCHANGED <<kuser, login>>

\* Fault: exit reports before it looks at its argument.
Silent_Reports(p) ==
    /\ Working(p, "app") \/ Working(p, "exit")
    /\ ret' = IF has[p] # NoFile THEN [cwd |-> NoDir, user |-> NoProc, exit |-> CHOOSE e \in Codes : TRUE]
              ELSE ret
    /\ status' = [status EXCEPT ![p] = "silent"]
    /\ pc' = [pc EXCEPT ![p] = Ended(p)]
    /\ UNCHANGED <<kind, parent, sh, ex, has, ctx, session, cmds, alone>>

\* A program that leaves RET alone: one outside the protocol, or exit with an
\* argument that is no number.
Silent(p) ==
    /\ Working(p, "app") \/ Working(p, "exit")
    /\ status' = [status EXCEPT ![p] = "silent"]
    /\ pc' = [pc EXCEPT ![p] = Ended(p)]
    /\ UNCHANGED <<kind, parent, sh, ex, has, files, session, cmds, alone>>

Report(p) ==
    /\ ret' = IF has[p] # NoFile THEN Flushed(sh[p], has[p], ex[p]) ELSE ret
    /\ status' = [status EXCEPT ![p] = "flushed"]
    /\ pc' = [pc EXCEPT ![p] = Ended(p)]
    /\ UNCHANGED <<kind, parent, sh, ex, has, ctx, session, cmds, alone>>

Flush(p) == pc[p] = "flush" /\ Report(p)

\* A fault kills the program; the kernel reports it to whoever waits.  The
\* command whose end a shell has seen and not yet applied is forgotten with it.
Crash(p) ==
    /\ p # Root
    /\ pc[p] \notin {"free", "wait", "done"}
    /\ status' = [status EXCEPT ![p] = "signal"]
    /\ pc' = [r \in Procs |-> IF r = p THEN Ended(p)
                              ELSE IF ChildOf(r, p) THEN "free" ELSE pc[r]]
    /\ UNCHANGED <<kind, parent, sh, ex, has, files, session, cmds, alone>>

----------------------------------------------------------------------------
(* xsh after its command: drop CTX, take what RET says, publish it further. *)

Reap(p, q) ==
    /\ IsShell(p) /\ pc[p] = "wait"
    /\ ChildOf(q, p) /\ pc[q] = "done"
    /\ ctx' = NoFile
    /\ pc' = [pc EXCEPT ![p] = "apply"]
    /\ UNCHANGED <<kind, parent, sh, ex, has, status, ret, session, cmds, alone>>

Apply(p, q) ==
    /\ IsShell(p) /\ pc[p] = "apply"
    /\ ChildOf(q, p)
    /\ sh' = [sh EXCEPT ![p] = Applied(sh[p], ret)]
    /\ ex' = [ex EXCEPT ![p] = ExitIn(ret)]
    /\ ret' = IF ExitIn(ret) # NoExit THEN NoFile ELSE ret
    /\ pc' = [pc EXCEPT ![p] = IF ExitIn(ret) # NoExit THEN "closing" ELSE "rewrite",
                        ![q] = "free"]
    /\ UNCHANGED <<kind, parent, has, status, ctx, session, cmds, alone>>

Rewrite(p) ==
    /\ pc[p] = "rewrite"
    /\ ret' = IF has[p] # NoFile THEN Republished(sh[p]) ELSE NoFile
    /\ pc' = [pc EXCEPT ![p] = "prompt"]
    /\ UNCHANGED <<kind, parent, sh, ex, has, status, ctx, session, cmds, alone>>

\* Fault: an inner shell ends without passing the request on.
Close_Quiet(p) ==
    /\ pc[p] = "closing"
    /\ pc' = [pc EXCEPT ![p] = IF p = Root THEN "closed" ELSE Ended(p)]
    /\ UNCHANGED <<kind, parent, sh, ex, has, status, files, session, cmds, alone>>

\* An inner shell that was told to exit tells its own parent to exit too.
Close(p) ==
    /\ pc[p] = "closing"
    /\ IF p = Root
       THEN /\ pc' = [pc EXCEPT ![p] = "closed"]
            /\ UNCHANGED <<kind, parent, sh, ex, has, status, files, session, cmds, alone>>
       ELSE Report(p)

----------------------------------------------------------------------------
(* The terminal window of the desktop. *)

Terminal == kind[Root] = "terminal"

TermCd(d) ==
    /\ Terminal /\ pc[Root] = "prompt"
    /\ sh' = [sh EXCEPT ![Root].cwd = d]
    /\ UNCHANGED <<pc, kind, parent, ex, has, status, files, session, cmds, alone>>

TermExit ==
    /\ Terminal /\ pc[Root] = "prompt"
    /\ pc' = [pc EXCEPT ![Root] = "closed"]
    /\ UNCHANGED <<kind, parent, sh, ex, has, status, files, session, cmds, alone>>

TermReap(q) ==
    /\ Terminal /\ pc[Root] = "wait"
    /\ ChildOf(q, Root) /\ pc[q] = "done"
    /\ sh' = [sh EXCEPT ![Root] = Applied(sh[Root], ret)]
    /\ ex' = [ex EXCEPT ![Root] = ExitIn(ret)]
    /\ ctx' = NoFile /\ ret' = NoFile
    /\ pc' = [pc EXCEPT ![Root] = IF ExitIn(ret) # NoExit THEN "closed" ELSE "prompt",
                        ![q] = "free"]
    /\ UNCHANGED <<kind, parent, has, status, session, cmds, alone>>

\* Fault: a timeout leaves the two files where they are.
TermTimeout_KeepsFiles(q) ==
    /\ Terminal /\ pc[Root] = "wait"
    /\ ChildOf(q, Root) /\ pc[q] # "done"
    /\ pc' = [pc EXCEPT ![Root] = "prompt", ![q] = "free"]
    /\ parent' = [r \in Procs |-> IF parent[r] = q THEN NoProc ELSE parent[r]]
    /\ alone' = (alone /\ \A r \in Procs : ~(ChildOf(r, q) /\ pc[r] # "done"))
    /\ UNCHANGED <<kind, sh, ex, has, status, files, session, cmds>>

\* Fault: only a program that computes is ever killed.
TermTimeout_BusyOnly(q) ==
    /\ Terminal /\ pc[Root] = "wait"
    /\ ChildOf(q, Root) /\ pc[q] = "work"
    /\ pc' = [pc EXCEPT ![Root] = "prompt", ![q] = "free"]
    /\ ctx' = NoFile /\ ret' = NoFile
    /\ UNCHANGED <<kind, parent, sh, ex, has, status, session, cmds, alone>>

\* After 8192 polls the terminal kills the program it started, and only that
\* one: a program running below it becomes an orphan.
TermTimeout(q) ==
    /\ Terminal /\ pc[Root] = "wait"
    /\ ChildOf(q, Root) /\ pc[q] # "done"
    /\ pc' = [r \in Procs |-> IF r = Root THEN "prompt"
                              ELSE IF r = q \/ (ChildOf(r, q) /\ pc[r] = "done") THEN "free"
                              ELSE pc[r]]
    /\ parent' = [r \in Procs |-> IF parent[r] = q THEN NoProc ELSE parent[r]]
    /\ ctx' = NoFile /\ ret' = NoFile
    /\ alone' = (alone /\ \A r \in Procs : ~(ChildOf(r, q) /\ pc[r] # "done"))
    /\ status' = [status EXCEPT ![q] = "signal"]
    /\ UNCHANGED <<kind, sh, ex, has, session, cmds>>

----------------------------------------------------------------------------
Step(p) ==
    \/ Boot(p)
    \/ LoginKnown(p)
    \/ \E u \in Users : LoginTyped(p, u)
    \/ \E q \in Procs : Spawn(p, q)
    \/ \E d \in Dirs : Cd(p, d)
    \/ \E u \in Users : Su(p, u)
    \/ Plain(p)
    \/ \E e \in Codes : Exit(p, e)
    \/ Silent(p)
    \/ Flush(p)
    \/ \E q \in Procs : Reap(p, q)
    \/ \E q \in Procs : Apply(p, q)
    \/ Rewrite(p)
    \/ Close(p)

TermStep == \E q \in Procs : TermReap(q) \/ TermTimeout(q)

Next ==
    \/ \E p \in Procs : Step(p) \/ Crash(p) \/ SpawnFails(p)
    \/ \E p \in Procs, c \in Commands : Launch(p, c)
    \/ TermStep
    \/ \E d \in Dirs : TermCd(d)
    \/ TermExit

Spec == Init /\ [][Next]_vars

\* The kernel schedules every process, and whoever is asked for a name or a
\* password answers.  Nobody has to type a command.
FairSpec == Spec /\ (\A p \in Procs : WF_vars(Step(p) \/ SpawnFails(p))) /\ WF_vars(TermStep)

----------------------------------------------------------------------------
(* Properties. *)

\* The step in which p, still alive, is done with its program q.
Collects(p, q) ==
    ChildOf(q, p) /\ pc[q] = "done" /\ pc'[q] = "free" /\ pc'[p] \notin {"free", "done"}

\* The shell ends up where the program was, as who the program was, and exits
\* exactly if the program asked for it, with the same code.  This spans the
\* flags of RET, the inner shells that rewrite RET behind their own commands,
\* and the session identity read from the kernel: a switch that a crash hid
\* from the shell is caught up by the next command.  (An inner shell that exits
\* because a shell below it crashed over an exit has had no next command: it
\* reports the identity it knows.)
EffectReturns(p, q) ==
    Collects(p, q) /\ status[q] = "flushed" /\ alone
        => sh'[p] = sh[q] /\ ex'[p] = ex[q] /\ (kind[q] # "xsh" => sh'[p].user = kuser)

\* A program that ended without a report (it crashed, or does not know the
\* protocol) changes nothing of its parent, unless it was itself a shell that
\* had reported before.
SilentChangesNothing(p, q) ==
    Collects(p, q) /\ status[q] # "flushed" /\ kind[q] # "xsh" /\ alone
        => sh'[p] = sh[p] /\ ex'[p] = NoExit

\* A program that knows the protocol and whose shell wrote a context for it
\* accepts exactly that context: neither an inner shell nor a crashed program
\* leaves another one in its place.
ContextIsMine(p) ==
    (pc[p] = "boot" /\ pc'[p] \in {"login", "work"} /\ parent[p] # NoProc /\ kind[p] # "app" /\ alone)
        => /\ has'[p] # NoFile /\ has'[p].by = parent[p]
           /\ has'[p].cwd = sh[parent[p]].cwd /\ has'[p].user = sh[parent[p]].user

\* Contexts reach the program they were written for, what a command did reaches
\* the shell that ran it, and nothing else reaches either.
Delivered ==
    [][\A p \in Procs :
         /\ ContextIsMine(p)
         /\ \A q \in Procs : EffectReturns(p, q) /\ SilentChangesNothing(p, q)]_vars

\* At the outermost prompt both files are gone, however the command ended, and
\* every shell and program holds an identity and a directory it may hold.
CleanAtPrompt ==
    /\ TypeOK
    /\ (pc[Root] \in {"prompt", "closed"} /\ alone) => ctx = NoFile /\ ret = NoFile

\* exit typed at any depth closes every shell up to the outermost one, unless
\* one of the shells crashes or is killed before it has passed the request on.
ExitClosesAll ==
    \A p \in Procs :
        (kind[p] = "exit" /\ pc[p] = "done" /\ status[p] = "flushed" /\ ex[p] # NoExit /\ alone)
            ~> (pc[Root] = "closed" \/ \E q \in Procs : status[q] = "signal")

\* The terminal gets its prompt back whatever the program does.
TerminalReturns ==
    (Terminal /\ pc[Root] = "wait") ~> pc[Root] \in {"prompt", "closed"}

(***************************************************************************)
(* The inductive invariant behind Delivered and CleanAtPrompt.             *)
(***************************************************************************)

\* Which points each kind of process passes through, and what the root never
\* has: a parent, a context, a place among the finished.
PointsInv ==
    /\ kind[Root] \in RootKinds /\ parent[Root] = NoProc /\ has[Root] = NoFile
    /\ pc[Root] \notin {"free", "done"}
    /\ \A p \in Procs :
        /\ kind[p] = "terminal" => p = Root /\ pc[p] \in {"prompt", "exec", "wait", "closed"}
        /\ kind[p] = "xsh" => pc[p] \notin {"work", "flush"}
        /\ kind[p] \notin {"xsh", "terminal"} =>
             pc[p] \in {"free", "boot", "work", "flush", "done"}
        /\ kind[p] = "app" => pc[p] # "flush"
        /\ pc[p] = "closed" => p = Root

\* Who waits for whom: a shell has a program exactly while it waits for it or
\* has seen its end, and only one.
ChainInv ==
    /\ \A q \in Procs : pc[q] # "free" /\ parent[q] # NoProc =>
         /\ pc[parent[q]] \in {"wait", "apply"}
         /\ pc[parent[q]] = "apply" => pc[q] = "done"
    /\ \A p, q, r \in Procs : ChildOf(q, p) /\ ChildOf(r, p) => q = r
    /\ \A p \in Procs : pc[p] = "wait" => \E q \in Procs : ChildOf(q, p)

\* Whose turn it is: the process at the end of the chain.
Active(p) ==
    /\ pc[p] \notin {"free", "wait"}
    /\ ~(pc[p] = "done" /\ parent[p] # NoProc /\ pc[parent[p]] = "apply")

TurnInv ==
    /\ alone => Orphans = {}
    /\ alone => \A p, q \in Procs : Active(p) /\ Active(q) => p = q
    /\ pc[Root] \in {"boot", "login"} => alone

\* The context written for a program by its shell.
WrittenBy(c, p) == c.cwd = sh[p].cwd /\ c.user = sh[p].user

ContextInv ==
    /\ \A p \in Procs : pc[p] = "exec" => ctx \in Context /\ ctx.by = p /\ WrittenBy(ctx, p)
    /\ \A p \in Procs : parent[p] # NoProc /\ pc[p] = "boot" =>
         /\ ctx \in Context /\ ctx.cmd = kind[p]
         /\ ctx.by = parent[p] /\ WrittenBy(ctx, parent[p])
    /\ \A p \in Procs : parent[p] # NoProc /\ pc[p] \notin {"free", "boot", "done"} /\ kind[p] # "app" =>
         has[p] \in Context /\ WrittenBy(has[p], parent[p])

ReturnInv ==
    /\ \A p \in Procs : pc[p] \in {"exec", "boot", "login", "work", "flush"} => ret = NoFile
    /\ \A p \in Procs : pc[p] \in {"work", "flush"} => sh[p].user = kuser
    /\ \A q \in Procs : parent[q] # NoProc /\ pc[q] = "done" =>
         /\ status[q] = "flushed" =>
              /\ Applied(sh[parent[q]], ret) = sh[q] /\ ExitIn(ret) = ex[q]
              /\ kind[q] # "xsh" => sh[q].user = kuser
         /\ status[q] # "flushed" /\ kind[q] # "xsh" => ret = NoFile

RootFilesInv ==
    /\ pc[Root] \in {"boot", "login", "prompt", "apply", "rewrite", "closing", "closed"} => ctx = NoFile
    /\ pc[Root] \in {"boot", "login", "prompt", "closing", "closed"} => ret = NoFile

\* While no orphan interferes, the two files hold what the process at the end
\* of the chain and its shell have written for each other.
FileInv == alone => ContextInv /\ ReturnInv /\ RootFilesInv
============================================================================
