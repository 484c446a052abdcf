------------------------- MODULE ShellProtocolProofs -------------------------
(***************************************************************************)
(* Theorems about ShellProtocol, for any number of processes, users and    *)
(* directories: the two files are gone at the outermost prompt, and what a *)
(* shell and its program write reaches the other one and nobody else.      *)
(***************************************************************************)
EXTENDS ShellProtocol, WellFoundedInduction, TLAPS

\* The chain of waiting shells has no cycle.
Ranked ==
    \E rank \in [Procs -> Nat] :
        \A q \in Procs : pc[q] # "free" /\ parent[q] # NoProc => rank[parent[q]] < rank[q]

Inv == TypeOK /\ PointsInv /\ ChainInv /\ Ranked /\ TurnInv /\ FileInv

(***************************************************************************)
(* Values.                                                                 *)
(***************************************************************************)
LEMMA AtHomeType ==
  ASSUME NEW s \in State, NEW u \in Users
  PROVE  AtHome(s, u) \in State /\ AtHome(s, u).user = u
  BY DirAssumption DEF AtHome, State

LEMMA AppliedType ==
  ASSUME NEW s \in State, NEW r \in Return \cup {NoFile}
  PROVE  Applied(s, r) \in State /\ ExitIn(r) \in Codes \cup {NoExit}
  BY FileAssumption DEF Applied, ExitIn, State, Return

LEMMA ReportType ==
  ASSUME NEW s \in State, NEW c \in Context, NEW e \in Codes \cup {NoExit}
  PROVE  Flushed(s, c, e) \in Return /\ Republished(s) \in Return
  BY DEF Flushed, Republished, State, Context, Return

\* A report read by the shell whose context the program had carries the whole
\* state over, flagged or not.
LEMMA ReportCarries ==
  ASSUME NEW s \in State, NEW c \in Context, NEW e \in Codes \cup {NoExit},
         NEW t \in State, c.cwd = t.cwd, c.user = t.user
  PROVE  Applied(t, Flushed(s, c, e)) = s /\ ExitIn(Flushed(s, c, e)) = e
<1>1. Flushed(s, c, e) # NoFile
  BY ReportType, FileAssumption
<1>. QED
  BY <1>1, UserAssumption, DirAssumption DEF Applied, ExitIn, Flushed, State

\* No report changes nothing.
LEMMA SilenceCarries ==
  ASSUME NEW t \in State
  PROVE  Applied(t, NoFile) = t /\ ExitIn(NoFile) = NoExit
  BY DEF Applied, ExitIn, State

(***************************************************************************)
(* Types.                                                                  *)
(***************************************************************************)
LEMMA StepType ==
  ASSUME TypeOK, PointsInv, NEW p \in Procs, Step(p)
  PROVE  TypeOK'
<1>. USE RootAssumption, UserAssumption, DirAssumption
     DEF TypeOK, Points, files, session, PointsInv
<1>1. CASE Boot(p)
  <2>1. Accepted(p) \in Context \cup {NoFile}
    BY DEF Accepted
  <2>2. Accepted(p) # NoFile => ctx.cwd \in Dirs
    BY DEF Accepted, Context
  <2>. QED
    BY <1>1, <2>1, <2>2 DEF Boot, State
<1>2. ASSUME NEW s \in State, Enter(p, s), kuser' \in Users, login' \in BOOLEAN
      PROVE  TypeOK'
  BY <1>2, ReportType DEF Enter
<1>3. CASE LoginKnown(p)
  BY <1>2, <1>3, AtHomeType DEF LoginKnown
<1>4. ASSUME NEW u \in Users, LoginTyped(p, u) PROVE TypeOK'
  BY <1>2, <1>4, AtHomeType DEF LoginTyped
<1>5. ASSUME NEW q \in Procs, Spawn(p, q) PROVE TypeOK'
  BY <1>5 DEF Spawn, InitState, State, Context
<1>6. ASSUME NEW s \in State, NEW e \in Codes \cup {NoExit}, Work(p, s, e),
             kuser' \in Users, login' \in BOOLEAN
      PROVE  TypeOK'
  BY <1>6 DEF Work
<1>7. ASSUME NEW d \in Dirs, Cd(p, d) PROVE TypeOK'
  BY <1>6, <1>7 DEF Cd, State
<1>8. ASSUME NEW u \in Users, Su(p, u) PROVE TypeOK'
  BY <1>6, <1>8, AtHomeType DEF Su
<1>9. CASE Plain(p)
  BY <1>6, <1>9 DEF Plain
<1>10. ASSUME NEW e \in Codes, Exit(p, e) PROVE TypeOK'
  BY <1>6, <1>10 DEF Exit
<1>11. CASE Silent(p)
  BY <1>11 DEF Silent, Ended
<1>12. CASE Report(p)
  BY <1>12, ReportType DEF Report, Ended
<1>13. CASE Flush(p)
  BY <1>12, <1>13 DEF Flush
<1>14. ASSUME NEW q \in Procs, Reap(p, q) PROVE TypeOK'
  BY <1>14 DEF Reap
<1>15. ASSUME NEW q \in Procs, Apply(p, q) PROVE TypeOK'
  BY <1>15, AppliedType DEF Apply
<1>16. CASE Rewrite(p)
  BY <1>16, ReportType DEF Rewrite
<1>17. CASE Close(p)
  BY <1>12, <1>17 DEF Close
<1>. QED
  BY <1>1, <1>3, <1>4, <1>5, <1>7, <1>8, <1>9, <1>10, <1>11, <1>13, <1>14,
     <1>15, <1>16, <1>17 DEF Step

LEMMA NextType == TypeOK /\ PointsInv /\ [Next]_vars => TypeOK'
<1>. SUFFICES ASSUME TypeOK, PointsInv, [Next]_vars PROVE TypeOK'
  OBVIOUS
<1>. USE RootAssumption DEF TypeOK, Points, files, session
<1>1. ASSUME NEW p \in Procs, Crash(p) PROVE TypeOK'
  BY <1>1 DEF Crash, Ended
<1>2. ASSUME NEW p \in Procs, SpawnFails(p) PROVE TypeOK'
  BY <1>2 DEF SpawnFails
<1>3. ASSUME NEW p \in Procs, NEW c \in Commands, Launch(p, c) PROVE TypeOK'
  <2>1. cmds' \in 0 .. MaxCmds[kind[Root]]
    BY <1>3, BoundAssumption DEF Launch, PointsInv
  <2>. QED
    BY <1>3, <2>1 DEF Launch, State, Context
<1>4. ASSUME NEW q \in Procs, TermReap(q) PROVE TypeOK'
  BY <1>4, AppliedType DEF TermReap
<1>5. ASSUME NEW q \in Procs, TermTimeout(q) PROVE TypeOK'
  BY <1>5 DEF TermTimeout
<1>6. ASSUME NEW d \in Dirs, TermCd(d) PROVE TypeOK'
  BY <1>6 DEF TermCd, State
<1>7. CASE TermExit
  BY <1>7 DEF TermExit
<1>8. CASE UNCHANGED vars
  BY <1>8 DEF vars
<1>. QED
  BY <1>1, <1>2, <1>3, <1>4, <1>5, <1>6, <1>7, <1>8, StepType DEF Next, TermStep

(***************************************************************************)
(* Which points a process passes through.                                  *)
(***************************************************************************)
LEMMA NextPoints ==
  ASSUME TypeOK, PointsInv, pc[Root] = "boot" => ctx = NoFile, [Next]_vars
  PROVE  PointsInv'
<1>. USE RootAssumption, KindAssumption, FileAssumption
     DEF TypeOK, Points, PointsInv, IsShell, files
<1>1. ASSUME NEW p \in Procs, Step(p) PROVE PointsInv'
  <2>1. CASE Boot(p)
    BY <1>1, <2>1 DEF Boot, Accepted
  <2>2. ASSUME NEW s, Enter(p, s), pc[p] = "login" PROVE PointsInv'
    BY <2>2 DEF Enter
  <2>3. ASSUME NEW q \in Procs, Spawn(p, q) PROVE PointsInv'
    BY <2>3 DEF Spawn, Context, Commands
  <2>4. ASSUME NEW s, NEW e, Work(p, s, e), pc[p] = "work", kind[p] # "app"
        PROVE  PointsInv'
    BY <2>4 DEF Work
  <2>5. CASE Silent(p)
    BY <2>5 DEF Silent, Ended, Working
  <2>6. CASE p # Root /\ pc[p] \in {"flush", "closing"} /\ Report(p)
    BY <2>6 DEF Report, Ended
  <2>7. CASE Flush(p)
    BY <2>6, <2>7 DEF Flush
  <2>8. ASSUME NEW q \in Procs, Reap(p, q) PROVE PointsInv'
    BY <2>8 DEF Reap
  <2>9. ASSUME NEW q \in Procs, Apply(p, q) PROVE PointsInv'
    BY <2>9 DEF Apply, ChildOf
  <2>10. CASE Rewrite(p)
    BY <2>10 DEF Rewrite
  <2>11. CASE Close(p)
    BY <2>6, <2>11 DEF Close
  <2>. QED
    BY <1>1, <2>1, <2>2, <2>3, <2>4, <2>5, <2>7, <2>8, <2>9, <2>10, <2>11
       DEF Step, LoginKnown, LoginTyped, Cd, Su, Plain, Exit, Working
<1>2. ASSUME NEW p \in Procs, Crash(p) PROVE PointsInv'
  BY <1>2 DEF Crash, Ended, ChildOf
<1>3. ASSUME NEW p \in Procs, SpawnFails(p) PROVE PointsInv'
  BY <1>3 DEF SpawnFails
<1>4. ASSUME NEW p \in Procs, NEW c \in Commands, Launch(p, c) PROVE PointsInv'
  BY <1>4 DEF Launch
<1>5. ASSUME NEW q \in Procs, TermReap(q) PROVE PointsInv'
  BY <1>5 DEF TermReap, Terminal, ChildOf
<1>6. ASSUME NEW q \in Procs, TermTimeout(q) PROVE PointsInv'
  BY <1>6 DEF TermTimeout, Terminal, ChildOf
<1>7. ASSUME NEW d \in Dirs, TermCd(d) PROVE PointsInv'
  BY <1>7 DEF TermCd
<1>8. CASE TermExit
  BY <1>8 DEF TermExit, Terminal
<1>9. CASE UNCHANGED vars
  BY <1>9 DEF vars
<1>. QED
  BY <1>1, <1>2, <1>3, <1>4, <1>5, <1>6, <1>7, <1>8, <1>9 DEF Next, TermStep

(***************************************************************************)
(* The shapes of a step, as far as the chain of processes can tell.        *)
(***************************************************************************)
Busy == Points \ {"free", "wait", "done", "apply"}

\* One process goes on.
Move(p) ==
    /\ pc[p] \in Busy
    /\ \E x \in Busy : pc' = [pc EXCEPT ![p] = x]
    /\ UNCHANGED parent

\* One process ends, and forgets the program whose end it has seen.
Finish(p) ==
    /\ p # Root /\ pc[p] \notin {"free", "wait", "done"}
    /\ pc' = [r \in Procs |-> IF r = p THEN Ended(p)
                              ELSE IF ChildOf(r, p) THEN "free" ELSE pc[r]]
    /\ UNCHANGED parent

\* One process takes the result of its program.
Collect(p, q) ==
    /\ pc[p] \in {"wait", "apply"} /\ ChildOf(q, p) /\ pc[q] = "done"
    /\ \E x \in Busy : pc' = [pc EXCEPT ![p] = x, ![q] = "free"]
    /\ UNCHANGED parent

Shape ==
    \/ UNCHANGED <<pc, parent, alone>>
    \/ \E p \in Procs :
        \/ Move(p) /\ (alone' = alone \/ (p = Root /\ pc'[p] = "exec" /\ (alone' => Orphans = {})))
                   /\ (pc'[p] \in {"boot", "login"} => pc[p] \in {"boot", "login"})
        \/ Finish(p) /\ UNCHANGED alone
        \/ \E q \in Procs :
            \/ Spawn(p, q) \/ Reap(p, q)
            \/ Collect(p, q) /\ UNCHANGED alone /\ pc'[p] \notin {"boot", "login"}
    \/ \E q \in Procs : TermTimeout(q)

LEMMA NextShape ==
  ASSUME TypeOK, PointsInv, ChainInv, [Next]_vars
  PROVE  Shape
<1>. USE RootAssumption, KindAssumption DEF TypeOK, PointsInv, Points, Busy
<1>1. ASSUME NEW p \in Procs, Step(p) PROVE Shape
  <2>1. CASE Boot(p)
    BY <2>1 DEF Boot, Shape, Move, IsShell
  <2>2. ASSUME NEW s, Enter(p, s), pc[p] = "login" PROVE Shape
    BY <2>2 DEF Enter, Shape, Move
  <2>3. ASSUME NEW q \in Procs, Spawn(p, q) \/ Reap(p, q) PROVE Shape
    BY <2>3 DEF Shape
  <2>4. ASSUME NEW s, NEW e, Work(p, s, e), pc[p] = "work" PROVE Shape
    BY <2>4 DEF Work, Shape, Move
  <2>5. ASSUME p # Root, pc[p] \in Busy, pc' = [pc EXCEPT ![p] = Ended(p)],
               UNCHANGED <<parent, alone>>
        PROVE  Shape
    <3>1. \A r \in Procs : ~ChildOf(r, p)
      BY <2>5 DEF ChainInv, ChildOf
    <3>2. pc' = [r \in Procs |-> IF r = p THEN Ended(p)
                                ELSE IF ChildOf(r, p) THEN "free" ELSE pc[r]]
      BY <2>5, <3>1
    <3>3. Finish(p)
      BY <2>5, <3>2 DEF Finish
    <3>. QED
      BY <2>5, <3>3 DEF Shape
  <2>6. CASE Silent(p)
    BY <2>5, <2>6 DEF Silent, Working
  <2>7. CASE Report(p) /\ p # Root /\ pc[p] \in {"flush", "closing"}
    BY <2>5, <2>7 DEF Report
  <2>8. CASE Flush(p)
    BY <2>7, <2>8 DEF Flush
  <2>9. ASSUME NEW q \in Procs, Apply(p, q) PROVE Shape
    <3>1. pc[q] = "done"
      BY <2>9, RootAssumption DEF Apply, ChildOf, ChainInv
    <3>. QED
      BY <2>9, <3>1 DEF Apply, Shape, Collect, ChildOf
  <2>10. CASE Rewrite(p)
    BY <2>10 DEF Rewrite, Shape, Move
  <2>11. CASE Close(p)
    BY <2>7, <2>11 DEF Close, Shape, Move
  <2>. QED
    BY <1>1, <2>1, <2>2, <2>3, <2>4, <2>6, <2>8, <2>9, <2>10, <2>11
       DEF Step, LoginKnown, LoginTyped, Cd, Su, Plain, Exit, Working
<1>2. ASSUME NEW p \in Procs, Crash(p) PROVE Shape
  BY <1>2 DEF Crash, Shape, Finish
<1>3. ASSUME NEW p \in Procs, SpawnFails(p) PROVE Shape
  BY <1>3 DEF SpawnFails, Shape, Move
<1>4. ASSUME NEW p \in Procs, NEW c \in Commands, Launch(p, c) PROVE Shape
  BY <1>4 DEF Launch, Shape, Move
<1>5. ASSUME NEW q \in Procs, TermReap(q) PROVE Shape
  BY <1>5 DEF TermReap, Shape, Collect, ChildOf
<1>6. ASSUME NEW q \in Procs, TermTimeout(q) PROVE Shape
  BY <1>6 DEF Shape
<1>7. CASE (\E d \in Dirs : TermCd(d)) \/ UNCHANGED vars
  BY <1>7 DEF TermCd, vars, Shape
<1>8. CASE TermExit
  BY <1>8 DEF TermExit, Shape, Move
<1>. QED
  BY <1>1, <1>2, <1>3, <1>4, <1>5, <1>6, <1>7, <1>8 DEF Next, TermStep

(***************************************************************************)
(* The chain of waiting shells.                                            *)
(***************************************************************************)
LEMMA NextChain ==
  ASSUME TypeOK, PointsInv, ChainInv, Shape
  PROVE  ChainInv'
<1>0. /\ pc \in [Procs -> Points] /\ parent \in [Procs -> Procs \cup {NoProc}]
      /\ Root \in Procs /\ NoProc \notin Procs
      /\ parent[Root] = NoProc /\ pc[Root] \notin {"free", "done"}
  BY RootAssumption DEF TypeOK, PointsInv
<1>. USE <1>0 DEF Busy, ChainInv, ChildOf
<1>1. CASE UNCHANGED <<pc, parent, alone>>
  BY <1>1
<1>2. ASSUME NEW p \in Procs, Move(p) PROVE ChainInv'
  BY <1>2 DEF Move
<1>3. ASSUME NEW p \in Procs, Finish(p) PROVE ChainInv'
  BY <1>3 DEF Finish, Ended
<1>4. ASSUME NEW p \in Procs, NEW q \in Procs, Spawn(p, q) PROVE ChainInv'
  <2>. USE <1>4 DEF Spawn
  <2>1. p # q /\ \A r \in Procs : ~ChildOf(r, p) /\ ~ChildOf(r, q)
    BY DEF Points
  <2>2. \A r \in Procs : pc'[r] = IF r = p THEN "wait" ELSE IF r = q THEN "boot" ELSE pc[r]
    BY <2>1
  <2>3. \A r \in Procs : parent'[r] = IF r = q THEN p ELSE parent[r]
    OBVIOUS
  <2>. QED
    BY <2>1, <2>2, <2>3
<1>5. ASSUME NEW p \in Procs, NEW q \in Procs, Reap(p, q) PROVE ChainInv'
  BY <1>5 DEF Reap
<1>6. ASSUME NEW p \in Procs, NEW q \in Procs, Collect(p, q) PROVE ChainInv'
  <2>. USE <1>6 DEF Collect
  <2>1. p # q /\ \A r \in Procs : (ChildOf(r, p) => r = q) /\ ~ChildOf(r, q)
    OBVIOUS
  <2>2. /\ \A r \in Procs \ {p} : pc'[r] = IF r = q THEN "free" ELSE pc[r]
        /\ pc'[p] \in Busy
    BY <2>1
  <2>. QED
    BY <2>1, <2>2
<1>7. ASSUME NEW q \in Procs, TermTimeout(q) PROVE ChainInv'
  BY <1>7 DEF TermTimeout
<1>. QED
  BY <1>1, <1>2, <1>3, <1>4, <1>5, <1>6, <1>7 DEF Shape

\* The chain stays free of cycles: a program starts behind everybody.
LEMMA NextRanked ==
  ASSUME TypeOK, PointsInv, ChainInv, Ranked, Shape
  PROVE  Ranked'
<1>0. /\ pc \in [Procs -> Points] /\ parent \in [Procs -> Procs \cup {NoProc}]
      /\ Root \in Procs /\ NoProc \notin Procs
  BY RootAssumption DEF TypeOK
<1>1. PICK rank \in [Procs -> Nat] :
        \A q \in Procs : pc[q] # "free" /\ parent[q] # NoProc => rank[parent[q]] < rank[q]
  BY DEF Ranked
<1>2. ASSUME \A q \in Procs : pc'[q] # "free" /\ parent'[q] # NoProc =>
                pc[q] # "free" /\ parent'[q] = parent[q]
      PROVE  Ranked'
  <2>1. \A q \in Procs : pc'[q] # "free" /\ parent'[q] # NoProc => rank[parent'[q]] < rank[q]
    BY <1>1, <1>2
  <2>. QED
    BY <2>1 DEF Ranked
<1>3. CASE UNCHANGED <<pc, parent, alone>>
  BY <1>2, <1>3
<1>4. ASSUME NEW p \in Procs, Move(p) \/ Finish(p) PROVE Ranked'
  BY <1>0, <1>2, <1>4 DEF Move, Finish, Busy, Ended
<1>5. ASSUME NEW p \in Procs, NEW q \in Procs, Reap(p, q) \/ Collect(p, q) PROVE Ranked'
  BY <1>0, <1>2, <1>5 DEF Reap, Collect, Busy
<1>6. ASSUME NEW q \in Procs, TermTimeout(q) PROVE Ranked'
  BY <1>0, <1>2, <1>6 DEF TermTimeout
<1>7. ASSUME NEW p \in Procs, NEW q \in Procs, Spawn(p, q) PROVE Ranked'
  <2>. DEFINE next == [rank EXCEPT ![q] = rank[p] + 1]
  <2>1. \A r \in Procs : pc[r] # "free" => parent[r] # q
    BY <1>0, <1>7 DEF Spawn, ChainInv, Points
  <2>2. next \in [Procs -> Nat] /\ p # q
    BY <1>1, <1>7 DEF Spawn
  <2>3. ASSUME NEW r \in Procs, pc'[r] # "free", parent'[r] # NoProc
        PROVE  next[parent'[r]] < next[r]
    <3>1. CASE r = q
      BY <1>0, <1>1, <1>7, <2>2, <3>1 DEF Spawn
    <3>2. CASE r # q
      <4>1. parent'[r] = parent[r] /\ pc[r] # "free" /\ parent[r] \in Procs \ {q}
        BY <1>0, <1>7, <2>1, <2>2, <2>3, <3>2 DEF Spawn
      <4>2. next[parent'[r]] = rank[parent[r]] /\ next[r] = rank[r]
        BY <3>2, <4>1
      <4>. QED
        BY <1>1, <2>3, <4>1, <4>2
    <3>. QED
      BY <3>1, <3>2
  <2>. QED
    BY <2>2, <2>3 DEF Ranked
<1>. QED
  BY <1>3, <1>4, <1>5, <1>6, <1>7 DEF Shape

(***************************************************************************)
(* Whose turn it is.                                                       *)
(***************************************************************************)

\* Every set of numbers has a least one.
LEMMA LeastNumber ==
  ASSUME NEW T \in SUBSET Nat, T # {}
  PROVE  \E n \in T : \A m \in T : n <= m
<1>1. PICK n \in T : \A m \in T : ~(<<m, n>> \in OpToRel(<, Nat))
  BY WFMin, NatLessThanWellFounded
<1>2. \A m \in T : ~(m < n)
  BY <1>1 DEF OpToRel
<1>. QED
  BY <1>2

\* Without orphans, a root that waits for nobody is the only process: who is
\* alive has a parent that is alive, closer to the root.
LEMMA Lonely ==
  ASSUME TypeOK, PointsInv, ChainInv, Ranked, Orphans = {}, pc[Root] \notin {"wait", "apply"}
  PROVE  \A q \in Procs \ {Root} : pc[q] = "free"
<1>0. /\ pc \in [Procs -> Points] /\ parent \in [Procs -> Procs \cup {NoProc}]
      /\ Root \in Procs /\ NoProc \notin Procs
  BY RootAssumption DEF TypeOK
<1>1. PICK rank \in [Procs -> Nat] :
        \A q \in Procs : pc[q] # "free" /\ parent[q] # NoProc => rank[parent[q]] < rank[q]
  BY DEF Ranked
<1>. DEFINE Others == {q \in Procs \ {Root} : pc[q] # "free"}
<1>2. SUFFICES ASSUME Others # {} PROVE FALSE
  OBVIOUS
<1>. DEFINE Ranks == {rank[q] : q \in Others}
<1>3. Ranks \in SUBSET Nat /\ Ranks # {}
  BY <1>1, <1>2
<1>. HIDE DEF Ranks
<1>7. PICK n \in Ranks : \A m \in Ranks : n <= m
  BY <1>3, LeastNumber
<1>. USE DEF Ranks
<1>4. PICK q \in Others : rank[q] = n
  BY <1>7
<1>5. parent[q] # NoProc
  BY <1>0 DEF Orphans
<1>6. parent[q] \in Others /\ rank[parent[q]] < rank[q]
  BY <1>0, <1>1, <1>5 DEF ChainInv
<1>. QED
  BY <1>1, <1>4, <1>6, <1>7

\* While no orphan is alive, everybody but the process whose turn it is waits,
\* or is the finished program whose end it has seen.
LEMMA Turn ==
  ASSUME TypeOK, ChainInv, TurnInv, alone, NEW p \in Procs, Active(p), NEW q \in Procs \ {p}
  PROVE  \/ pc[q] \in {"free", "wait"}
         \/ pc[q] = "done" /\ parent[q] = p /\ pc[p] = "apply"
<1>1. parent \in [Procs -> Procs \cup {NoProc}] /\ NoProc \notin Procs
  BY RootAssumption DEF TypeOK
<1>2. ~Active(q)
  BY DEF TurnInv
<1>3. CASE pc[q] = "done" /\ parent[q] # NoProc /\ pc[parent[q]] = "apply"
  <2>1. Active(parent[q])
    BY <1>1, <1>3 DEF Active
  <2>. QED
    BY <1>1, <1>3, <2>1 DEF TurnInv
<1>. QED
  BY <1>2, <1>3 DEF Active

LEMMA NextTurn ==
  ASSUME TypeOK, PointsInv, ChainInv, Ranked, TurnInv, Shape
  PROVE  TurnInv'
<1>0. /\ pc \in [Procs -> Points] /\ parent \in [Procs -> Procs \cup {NoProc}]
      /\ Root \in Procs /\ NoProc \notin Procs
      /\ parent[Root] = NoProc /\ pc[Root] \notin {"free", "done"}
  BY RootAssumption DEF TypeOK, PointsInv
<1>. USE <1>0 DEF Busy, ChainInv, ChildOf, TurnInv, Orphans, Active
<1>1. CASE UNCHANGED <<pc, parent, alone>>
  BY <1>1
<1>2. ASSUME NEW p \in Procs, Move(p), UNCHANGED alone,
             pc'[p] \in {"boot", "login"} => pc[p] \in {"boot", "login"}
      PROVE  TurnInv'
  BY <1>2 DEF Move
<1>3. ASSUME Move(Root), pc'[Root] = "exec", alone' => Orphans = {}
      PROVE  TurnInv'
  <2>1. Orphans' = Orphans
    BY <1>3 DEF Move
  <2>2. alone' => \A q \in Procs \ {Root} : pc'[q] = "free"
    <3>1. (Orphans = {}) => \A q \in Procs \ {Root} : pc[q] = "free"
      BY <1>3, Lonely DEF Move
    <3>. QED
      BY <1>3, <3>1 DEF Move
  <2>. QED
    BY <1>3, <2>1, <2>2
<1>4. ASSUME NEW p \in Procs, Finish(p), UNCHANGED alone PROVE TurnInv'
  BY <1>4 DEF Finish, Ended
<1>5. ASSUME NEW p \in Procs, NEW q \in Procs, Spawn(p, q) PROVE TurnInv'
  BY <1>5 DEF Spawn
<1>6. ASSUME NEW p \in Procs, NEW q \in Procs, Reap(p, q) PROVE TurnInv'
  BY <1>6 DEF Reap
<1>7. ASSUME NEW p \in Procs, NEW q \in Procs, Collect(p, q), UNCHANGED alone,
             pc'[p] \notin {"boot", "login"}
      PROVE  TurnInv'
  BY <1>7 DEF Collect
<1>8. ASSUME NEW q \in Procs, TermTimeout(q) PROVE TurnInv'
  <2>. USE <1>8 DEF TermTimeout
  <2>1. /\ q # Root /\ pc'[Root] = "prompt" /\ pc'[q] = "free"
        /\ \A r \in Procs \ {Root, q} :
             pc'[r] = IF ChildOf(r, q) /\ pc[r] = "done" THEN "free" ELSE pc[r]
        /\ \A r \in Procs : parent'[r] = IF parent[r] = q THEN NoProc ELSE parent[r]
    OBVIOUS
  <2>2. SUFFICES ASSUME alone'
                 PROVE  Orphans' = {} /\ \A r \in Procs : Active(r)' => r = Root
    <3>. HIDE DEF Active, Orphans
    <3>. QED
      BY <2>1
  <2>3. alone /\ \A r \in Procs : ChildOf(r, q) => pc[r] = "done"
    BY <2>2
  <2>4. Orphans' = {}
    BY <2>1, <2>3
  <2>5. ASSUME NEW r \in Procs, r # Root, Active(r)' PROVE FALSE
    <3>1. r # q /\ ~ChildOf(r, q) /\ pc'[r] = pc[r] /\ pc[r] \notin {"free", "wait"}
      BY <2>1, <2>3, <2>5
    <3>2. parent[r] \in Procs /\ parent[r] # q
      BY <2>3, <3>1
    <3>3. Active(r)
      BY <2>1, <2>3, <2>5, <3>1, <3>2
    <3>4. pc[q] = "wait"
      BY <2>3, <3>1, <3>3
    <3>5. PICK c \in Procs : ChildOf(c, q)
      BY <3>4
    <3>6. Active(c)
      BY <2>3, <3>4, <3>5
    <3>. QED
      BY <2>3, <3>1, <3>3, <3>5, <3>6
  <2>. QED
    BY <2>4, <2>5
<1>. QED
  BY <1>1, <1>2, <1>3, <1>4, <1>5, <1>6, <1>7, <1>8 DEF Shape

(***************************************************************************)
(* What the two files hold.                                                *)
(***************************************************************************)
Files == ContextInv /\ ReturnInv /\ RootFilesInv

\* What a step of p may rely on while no orphan is alive.
Calm(p) ==
    /\ TypeOK /\ PointsInv /\ ChainInv /\ Files
    /\ \A q \in Procs \ {p} : \/ pc[q] \in {"free", "wait"}
                              \/ pc[q] = "done" /\ parent[q] = p /\ pc[p] = "apply"

\* The steps of a program, and of a shell that does not wait.
LEMMA OwnFiles ==
  ASSUME NEW p \in Procs, Calm(p), pc[p] \in Busy,
         \/ Boot(p) \/ LoginKnown(p) \/ \E u \in Users : LoginTyped(p, u)
         \/ (\E s \in State, e \in Codes \cup {NoExit} : Work(p, s, e)) /\ pc[p] = "work"
               /\ kind[p] # "app" /\ sh'[p].user = kuser'
         \/ Rewrite(p)
         \/ (\E c \in Commands : Launch(p, c)) \/ SpawnFails(p)
         \/ (\E d \in Dirs : TermCd(d)) /\ p = Root
         \/ TermExit /\ p = Root
  PROVE  Files'
<1>0. /\ pc \in [Procs -> Points] /\ parent \in [Procs -> Procs \cup {NoProc}]
      /\ sh \in [Procs -> State] /\ has \in [Procs -> Context \cup {NoFile}]
      /\ kind \in [Procs -> Commands \cup {"terminal"}]
      /\ ctx \in Context \cup {NoFile} /\ ret \in Return \cup {NoFile}
      /\ kuser \in Users
      /\ Root \in Procs /\ NoProc \notin Procs /\ NoFile \notin Context \cup Return
      /\ parent[Root] = NoProc /\ has[Root] = NoFile
  BY RootAssumption, FileAssumption DEF Calm, TypeOK, PointsInv
<1>1. \A r \in Procs : parent[r] # NoProc /\ pc[r] # "free" =>
        parent[r] \in Procs \ {p} /\ pc[parent[r]] = "wait"
  BY <1>0 DEF Calm, ChainInv, Busy
<1>2. \A q \in Procs \ {p} : pc[q] \in {"free", "wait"}
  BY DEF Calm, Busy
<1>3. \A r \in Procs : parent[r] # NoProc /\ pc[r] = "wait" /\ kind[r] # "app" =>
        has[r] \in Context /\ WrittenBy(has[r], parent[r])
  BY DEF Calm, Files, ContextInv
<1>. USE <1>0, <1>1, <1>2, <1>3
     DEF Busy, Files, ContextInv, ReturnInv, RootFilesInv, WrittenBy, files, session
<1>4. CASE Boot(p)
  <2>1. parent[p] # NoProc /\ kind[p] # "app" => Accepted(p) = ctx
    BY <1>4 DEF Boot, Calm, Accepted
  <2>2. ret = NoFile /\ (p = Root => ctx = NoFile)
    BY <1>4 DEF Boot, Calm
  <2>3. parent[p] # NoProc /\ kind[p] # "app" => ctx \in Context /\ WrittenBy(ctx, parent[p])
    BY <1>4 DEF Boot, Calm
  <2>. QED
    BY <1>4, <2>1, <2>2, <2>3 DEF Boot, IsShell, State
<1>5. ASSUME NEW s \in State, Enter(p, s), pc[p] = "login" PROVE Files'
  BY <1>5 DEF Enter, Calm
<1>6. CASE LoginKnown(p) \/ \E u \in Users : LoginTyped(p, u)
  BY <1>5, <1>6, AtHomeType DEF LoginKnown, LoginTyped
<1>7. ASSUME NEW s \in State, NEW e \in Codes \cup {NoExit}, Work(p, s, e),
             pc[p] = "work", kind[p] # "app", sh'[p].user = kuser'
      PROVE  Files'
  BY <1>7 DEF Work, Calm
<1>8. CASE Rewrite(p)
  BY <1>8 DEF Rewrite, Calm
<1>9. ASSUME NEW c \in Commands, Launch(p, c) PROVE Files'
  BY <1>9 DEF Launch, Calm, Context, State
<1>10. CASE SpawnFails(p)
  BY <1>10 DEF SpawnFails, Calm
<1>11. ASSUME NEW d \in Dirs, TermCd(d), p = Root PROVE Files'
  BY <1>11 DEF TermCd, Calm
<1>12. CASE TermExit /\ p = Root
  BY <1>12 DEF TermExit, Calm
<1>. QED
  BY <1>4, <1>6, <1>7, <1>8, <1>9, <1>10, <1>11, <1>12

\* A program starts: the context on the disk is its own.
LEMMA SpawnFiles ==
  ASSUME NEW p \in Procs, NEW q \in Procs, Calm(p), Spawn(p, q)
  PROVE  Files'
<1>0. /\ pc \in [Procs -> Points] /\ parent \in [Procs -> Procs \cup {NoProc}]
      /\ sh \in [Procs -> State] /\ has \in [Procs -> Context \cup {NoFile}]
      /\ kind \in [Procs -> Commands \cup {"terminal"}]
      /\ status \in [Procs -> {"flushed", "silent", "signal"}]
      /\ Root \in Procs /\ NoProc \notin Procs
      /\ parent[Root] = NoProc /\ pc[Root] # "free"
  BY RootAssumption DEF Calm, TypeOK, PointsInv
<1>1. /\ p # q /\ q # Root /\ pc[p] = "exec" /\ pc[q] = "free"
      /\ \A r \in Procs : pc[r] # "free" => parent[r] # q
      /\ \A r \in Procs \ {p} : pc[r] \in {"free", "wait"}
  BY <1>0 DEF Calm, ChainInv, Spawn
<1>2. ctx \in Context /\ ctx.by = p /\ WrittenBy(ctx, p) /\ ret = NoFile
  BY <1>1 DEF Calm, Files, ContextInv, ReturnInv
<1>. QED
  BY <1>0, <1>1, <1>2
     DEF Spawn, Calm, Files, ContextInv, ReturnInv, RootFilesInv, WrittenBy, files, session

\* A program ends without a report: nothing is in the return file, or what an
\* inner shell had said before.
LEMMA QuietFiles ==
  ASSUME NEW p \in Procs, Calm(p), Finish(p), UNCHANGED <<kind, sh, has, files, kuser>>,
         \E e \in {"silent", "signal"} : status' = [status EXCEPT ![p] = e]
  PROVE  Files'
<1>0. /\ pc \in [Procs -> Points] /\ parent \in [Procs -> Procs \cup {NoProc}]
      /\ kind \in [Procs -> Commands \cup {"terminal"}]
      /\ status \in [Procs -> {"flushed", "silent", "signal"}]
      /\ Root \in Procs /\ NoProc \notin Procs
  BY RootAssumption DEF Calm, TypeOK
<1>1. /\ p # Root /\ pc[p] \notin {"free", "wait", "done"}
      /\ pc'[p] \in {"free", "done"}
      /\ \A r \in Procs \ {p} : pc'[r] = IF pc[r] = "wait" THEN "wait" ELSE "free"
      /\ \A r \in Procs : pc[r] = "wait" => parent[r] # p
  BY <1>0 DEF Finish, Ended, Calm, ChildOf, ChainInv
<1>2. kind[p] # "xsh" => ret = NoFile
  BY <1>1, KindAssumption DEF Calm, Files, ReturnInv, PointsInv
<1>3. pc'[Root] = pc[Root] /\ pc[Root] \in {"free", "wait"}
  BY <1>0, <1>1 DEF Calm, PointsInv
<1>. QED
  BY <1>0, <1>1, <1>2, <1>3
     DEF Finish, Calm, Files, ContextInv, ReturnInv, RootFilesInv, WrittenBy, files

\* A program ends and reports: its shell reads its state from the report.
LEMMA ReportFiles ==
  ASSUME NEW p \in Procs, Calm(p), Finish(p), Report(p), pc[p] \in {"flush", "closing"},
         parent[p] # NoProc
  PROVE  Files'
<1>0. /\ pc \in [Procs -> Points] /\ parent \in [Procs -> Procs \cup {NoProc}]
      /\ kind \in [Procs -> Commands \cup {"terminal"}]
      /\ status \in [Procs -> {"flushed", "silent", "signal"}]
      /\ sh \in [Procs -> State] /\ ex \in [Procs -> Codes \cup {NoExit}]
      /\ Root \in Procs /\ NoProc \notin Procs
  BY RootAssumption DEF Calm, TypeOK
<1>1. /\ p # Root /\ pc'[p] = "done"
      /\ \A r \in Procs \ {p} : pc'[r] = pc[r] /\ pc[r] \in {"free", "wait"}
      /\ \A r \in Procs : pc[r] = "wait" => parent[r] # p
      /\ parent[p] \in Procs \ {p}
  BY <1>0 DEF Finish, Ended, Calm, ChildOf, ChainInv
<1>2. kind[p] # "app" /\ (pc[p] = "closing" => kind[p] = "xsh")
  BY <1>0, <1>1 DEF Calm, PointsInv
<1>3. has[p] \in Context /\ has[p] # NoFile /\ WrittenBy(has[p], parent[p])
  BY <1>1, <1>2, FileAssumption DEF Calm, Files, ContextInv
<1>4. /\ ret' = Flushed(sh[p], has[p], ex[p])
      /\ Applied(sh[parent[p]], ret') = sh[p] /\ ExitIn(ret') = ex[p]
  BY <1>0, <1>1, <1>3, ReportCarries DEF Report, WrittenBy
<1>5. kind[p] # "xsh" => sh[p].user = kuser
  BY <1>2 DEF Calm, Files, ReturnInv
<1>6. pc'[Root] \in {"free", "wait"}
  BY <1>0, <1>1
<1>. QED
  BY <1>0, <1>1, <1>2, <1>4, <1>5, <1>6
     DEF Finish, Report, Calm, Files, ContextInv, ReturnInv, RootFilesInv, WrittenBy, session

\* A shell has seen the end of its program: it drops the context.
LEMMA ReapFiles ==
  ASSUME NEW p \in Procs, NEW q \in Procs, Calm(q), Reap(p, q)
  PROVE  Files'
<1>0. /\ pc \in [Procs -> Points] /\ parent \in [Procs -> Procs \cup {NoProc}]
      /\ Root \in Procs /\ NoProc \notin Procs
  BY RootAssumption DEF Calm, TypeOK
<1>1. /\ p # q /\ pc'[p] = "apply" /\ pc'[q] = "done" /\ parent[q] = p
      /\ \A r \in Procs \ {p, q} : pc'[r] = pc[r] /\ pc[r] \in {"free", "wait"}
  BY <1>0 DEF Reap, Calm, ChildOf
<1>. QED
  BY <1>0, <1>1
     DEF Reap, Calm, Files, ContextInv, ReturnInv, RootFilesInv, WrittenBy, session

\* A shell takes the report: its own state changes, and nobody below it is left
\* to see that.
LEMMA ApplyFiles ==
  ASSUME NEW p \in Procs, NEW q \in Procs, Calm(p), Apply(p, q)
  PROVE  Files'
<1>0. /\ pc \in [Procs -> Points] /\ parent \in [Procs -> Procs \cup {NoProc}]
      /\ sh \in [Procs -> State]
      /\ Root \in Procs /\ NoProc \notin Procs
  BY RootAssumption DEF Calm, TypeOK
<1>1. /\ p # q /\ parent[q] = p /\ pc[p] = "apply" /\ pc'[q] = "free"
      /\ pc'[p] = IF ExitIn(ret) # NoExit THEN "closing" ELSE "rewrite"
      /\ \A r \in Procs \ {p, q} : pc'[r] = pc[r] /\ pc[r] \in {"free", "wait"}
      /\ \A r \in Procs \ {q} : pc[r] # "free" => parent[r] # p
  BY <1>0 DEF Apply, Calm, ChildOf, ChainInv
<1>. QED
  BY <1>0, <1>1
     DEF Apply, Calm, Files, ContextInv, ReturnInv, RootFilesInv, WrittenBy, session

\* The terminal takes the report, or gives up: it is alone afterwards.
LEMMA TermFiles ==
  ASSUME TypeOK, PointsInv, NEW q \in Procs, TermReap(q) \/ TermTimeout(q),
         \A r \in Procs \ {Root} : pc'[r] = "free"
  PROVE  Files'
<1>0. /\ pc \in [Procs -> Points] /\ parent \in [Procs -> Procs \cup {NoProc}]
      /\ Root \in Procs /\ NoProc \notin Procs /\ parent[Root] = NoProc
  BY RootAssumption DEF TypeOK, PointsInv
<1>1. /\ pc'[Root] \in {"prompt", "closed"} /\ parent'[Root] = NoProc
      /\ ctx' = NoFile /\ ret' = NoFile
  BY <1>0 DEF TermReap, TermTimeout, ChildOf
<1>. QED
  BY <1>0, <1>1 DEF Files, ContextInv, ReturnInv, RootFilesInv

\* The root types a command and no orphan is alive: it starts with clean files.
LEMMA LaunchFiles ==
  ASSUME TypeOK, PointsInv, NEW c \in Commands, Launch(Root, c),
         \A q \in Procs \ {Root} : pc[q] = "free"
  PROVE  Files'
<1>0. /\ pc \in [Procs -> Points] /\ parent \in [Procs -> Procs \cup {NoProc}]
      /\ sh \in [Procs -> State]
      /\ Root \in Procs /\ NoProc \notin Procs /\ parent[Root] = NoProc
  BY RootAssumption DEF TypeOK, PointsInv
<1>. QED
  BY <1>0
     DEF Launch, Files, ContextInv, ReturnInv, RootFilesInv, WrittenBy, Context, State

LEMMA IsCalm ==
  ASSUME Inv, alone, NEW p \in Procs, pc[p] \notin {"free", "wait", "done"}
  PROVE  Calm(p)
  BY Turn DEF Inv, FileInv, Files, Calm, Active

LEMMA NextFile ==
  ASSUME Inv, TypeOK', PointsInv', ChainInv', Ranked', TurnInv', [Next]_vars
  PROVE  FileInv'
<1>. SUFFICES ASSUME alone' PROVE Files'
  BY DEF FileInv, Files
<1>0. /\ pc \in [Procs -> Points] /\ parent \in [Procs -> Procs \cup {NoProc}]
      /\ sh \in [Procs -> State] /\ ex \in [Procs -> Codes \cup {NoExit}]
      /\ kind \in [Procs -> Commands \cup {"terminal"}]
      /\ Root \in Procs /\ NoProc \notin Procs /\ parent[Root] = NoProc
  BY RootAssumption DEF Inv, TypeOK, PointsInv
<1>1. ASSUME pc'[Root] \notin {"wait", "apply"}
      PROVE  \A q \in Procs \ {Root} : pc'[q] = "free"
  <2>1. Orphans' = {}
    BY DEF TurnInv
  <2>2. (TypeOK /\ PointsInv /\ ChainInv /\ Ranked /\ Orphans = {}
           /\ pc[Root] \notin {"wait", "apply"}
           => \A q \in Procs \ {Root} : pc[q] = "free")'
    BY Lonely, PTL
  <2>. QED
    BY <1>1, <2>1, <2>2
<1>2. ASSUME NEW p \in Procs, Step(p) PROVE Files'
  <2>0. alone
    BY <1>2 DEF Step, Boot, LoginKnown, LoginTyped, Enter, Spawn, Cd, Su, Plain, Exit,
                Work, Silent, Flush, Report, Reap, Apply, Rewrite, Close
  <2>1. CASE Boot(p) \/ LoginKnown(p) \/ (\E u \in Users : LoginTyped(p, u)) \/ Rewrite(p)
    <3>1. pc[p] \in Busy
      BY <2>1 DEF Boot, LoginKnown, LoginTyped, Rewrite, Busy, Points
    <3>. QED
      BY <2>0, <2>1, <3>1, IsCalm, OwnFiles DEF Busy
  <2>2. ASSUME NEW s \in State, NEW e \in Codes \cup {NoExit}, Work(p, s, e),
               pc[p] = "work", kind[p] # "app", s.user = kuser'
        PROVE  Files'
    <3>1. sh'[p].user = kuser' /\ pc[p] \in Busy
      BY <1>0, <2>2 DEF Work, Busy, Points
    <3>. QED
      BY <2>0, <2>2, <3>1, IsCalm, OwnFiles DEF Busy
  <2>3. pc[p] = "work" => sh[p].user = kuser
    BY <2>0 DEF Inv, FileInv, ReturnInv
  <2>4. ASSUME NEW d \in Dirs, Cd(p, d) PROVE Files'
    <3>1. [sh[p] EXCEPT !.cwd = d] \in State /\ [sh[p] EXCEPT !.cwd = d].user = sh[p].user
      BY <1>0 DEF State
    <3>. QED
      BY <2>2, <2>3, <2>4, <3>1 DEF Cd, Working
  <2>5. ASSUME NEW u \in Users, Su(p, u) PROVE Files'
    BY <1>0, <2>2, <2>5, AtHomeType DEF Su, Working
  <2>6. CASE Plain(p)
    BY <1>0, <2>2, <2>3, <2>6 DEF Plain, Working
  <2>7. ASSUME NEW e \in Codes, Exit(p, e) PROVE Files'
    BY <1>0, <2>2, <2>3, <2>7 DEF Exit, Working
  <2>8. ASSUME NEW q \in Procs, Spawn(p, q) PROVE Files'
    BY <2>0, <2>8, IsCalm, SpawnFiles DEF Spawn
  <2>9. ASSUME p # Root, pc[p] \in {"work", "flush", "closing"},
               pc' = [pc EXCEPT ![p] = Ended(p)], UNCHANGED parent
        PROVE  Finish(p)
    <3>1. \A r \in Procs : ~ChildOf(r, p)
      BY <1>0, <2>9 DEF Inv, ChainInv, ChildOf
    <3>2. pc' = [r \in Procs |-> IF r = p THEN Ended(p)
                                ELSE IF ChildOf(r, p) THEN "free" ELSE pc[r]]
      BY <1>0, <2>9, <3>1
    <3>. QED
      BY <2>9, <3>2 DEF Finish
  <2>10. CASE Silent(p)
    <3>1. p # Root
      BY <2>10, KindAssumption DEF Silent, Working, Inv, PointsInv
    <3>. QED
      BY <2>0, <2>9, <2>10, <3>1, IsCalm, QuietFiles DEF Silent, Working, session
  <2>11. CASE Report(p) /\ p # Root /\ pc[p] \in {"flush", "closing"}
    <3>1. parent[p] # NoProc
      BY <2>0, <2>11 DEF Inv, TurnInv, Orphans
    <3>. QED
      BY <2>0, <2>9, <2>11, <3>1, IsCalm, ReportFiles DEF Report
  <2>12. CASE Flush(p)
    <3>1. p # Root
      BY <2>12, KindAssumption DEF Flush, Inv, PointsInv
    <3>. QED
      BY <2>11, <2>12, <3>1 DEF Flush
  <2>13. CASE Close(p) /\ p = Root
    BY <1>0, <1>1, <2>0, <2>13, KindAssumption
       DEF Close, Inv, FileInv, Files, ContextInv, ReturnInv, RootFilesInv, files
  <2>14. CASE Close(p) /\ p # Root
    BY <2>11, <2>14 DEF Close
  <2>15. ASSUME NEW q \in Procs, Reap(p, q) PROVE Files'
    <3>1. Active(q)
      BY <1>0, <2>15 DEF Reap, ChildOf, Active
    <3>2. Calm(q)
      BY <2>0, <2>15, <3>1, Turn DEF Inv, FileInv, Files, Calm, Reap
    <3>. QED
      BY <2>15, <3>2, ReapFiles
  <2>16. ASSUME NEW q \in Procs, Apply(p, q) PROVE Files'
    BY <2>0, <2>16, IsCalm, ApplyFiles DEF Apply
  <2>. QED
    BY <1>2, <2>1, <2>4, <2>5, <2>6, <2>7, <2>8, <2>10, <2>12, <2>13, <2>14, <2>15, <2>16
       DEF Step
<1>3. ASSUME NEW p \in Procs, Crash(p) PROVE Files'
  <2>1. alone /\ Finish(p)
    BY <1>3 DEF Crash, Finish
  <2>. QED
    BY <1>3, <2>1, IsCalm, QuietFiles DEF Crash, session
<1>4. ASSUME NEW p \in Procs, SpawnFails(p) PROVE Files'
  <2>1. alone /\ pc[p] \in Busy
    BY <1>4 DEF SpawnFails, Busy, Points
  <2>. QED
    BY <1>4, <2>1, IsCalm, OwnFiles DEF Busy
<1>5. ASSUME NEW p \in Procs, NEW c \in Commands, Launch(p, c) PROVE Files'
  <2>1. CASE p = Root
    <3>1. Orphans = {} /\ pc[Root] = "prompt"
      BY <1>5, <2>1 DEF Launch
    <3>. QED
      BY <1>5, <2>1, <3>1, Lonely, LaunchFiles DEF Inv
  <2>2. CASE p # Root
    <3>1. alone /\ pc[p] \in Busy
      BY <1>5, <2>2 DEF Launch, Busy, Points
    <3>. QED
      BY <1>5, <3>1, IsCalm, OwnFiles DEF Busy
  <2>. QED
    BY <2>1, <2>2
<1>6. ASSUME NEW q \in Procs, TermReap(q) \/ TermTimeout(q) PROVE Files'
  <2>1. pc'[Root] \in {"prompt", "closed"}
    BY <1>0, <1>6 DEF TermReap, TermTimeout, ChildOf
  <2>. QED
    BY <1>1, <1>6, <2>1, TermFiles DEF Inv
<1>7. CASE (\E d \in Dirs : TermCd(d)) \/ TermExit
  <2>1. alone /\ pc[Root] \in Busy
    BY <1>7 DEF TermCd, TermExit, Busy, Points
  <2>. QED
    BY <1>0, <1>7, <2>1, IsCalm, OwnFiles DEF Busy
<1>8. CASE UNCHANGED vars
  BY <1>8 DEF vars, Inv, FileInv, Files, ContextInv, ReturnInv, RootFilesInv, WrittenBy
<1>. QED
  BY <1>2, <1>3, <1>4, <1>5, <1>6, <1>7, <1>8 DEF Next, TermStep

(***************************************************************************)
(* The invariant holds.                                                    *)
(***************************************************************************)
LEMMA InitInv == Init => Inv
<1>. SUFFICES ASSUME Init PROVE Inv
  OBVIOUS
<1>0. /\ Root \in Procs /\ NoProc \notin Procs
      /\ parent = [p \in Procs |-> NoProc] /\ ctx = NoFile /\ ret = NoFile
      /\ has = [p \in Procs |-> NoFile] /\ alone
  BY RootAssumption DEF Init
<1>1. PICK k \in RootKinds :
        /\ kind = [p \in Procs |-> IF p = Root THEN k ELSE "app"]
        /\ pc = [p \in Procs |-> IF p # Root THEN "free"
                                 ELSE IF k = "xsh" THEN "boot" ELSE "prompt"]
  BY <1>0 DEF Init, IsShell
<1>2. TypeOK
  <2>1. cmds \in 0 .. MaxCmds[kind[Root]]
    BY <1>0, <1>1, BoundAssumption DEF Init
  <2>2. InitState \in State
    BY UserAssumption, DirAssumption DEF InitState, State
  <2>3. login \in BOOLEAN /\ kuser \in Users
    BY UserAssumption DEF Init
  <2>. QED
    BY <1>0, <1>1, <2>1, <2>2, <2>3, KindAssumption DEF Init, TypeOK, Points, Commands
<1>3. PointsInv
  BY <1>0, <1>1, KindAssumption DEF PointsInv
<1>4. ChainInv /\ Orphans = {}
  BY <1>0, <1>1 DEF ChainInv, ChildOf, Orphans
<1>5. Ranked
  <2>1. [p \in Procs |-> 0] \in [Procs -> Nat]
    OBVIOUS
  <2>. QED
    BY <1>0, <2>1 DEF Ranked
<1>6. TurnInv
  BY <1>0, <1>1, <1>4 DEF TurnInv, Active
<1>7. FileInv
  BY <1>0, <1>1 DEF FileInv, ContextInv, ReturnInv, RootFilesInv
<1>. QED
  BY <1>2, <1>3, <1>4, <1>5, <1>6, <1>7 DEF Inv

LEMMA NextInv == Inv /\ [Next]_vars => Inv'
<1>. SUFFICES ASSUME Inv, [Next]_vars PROVE Inv'
  OBVIOUS
<1>1. TypeOK'
  BY NextType DEF Inv
<1>2. pc[Root] = "boot" => ctx = NoFile
  BY DEF Inv, TurnInv, FileInv, RootFilesInv
<1>3. PointsInv'
  BY <1>2, NextPoints DEF Inv
<1>4. Shape
  BY NextShape DEF Inv
<1>5. ChainInv' /\ Ranked' /\ TurnInv'
  BY <1>4, NextChain, NextRanked, NextTurn DEF Inv
<1>6. FileInv'
  BY <1>1, <1>3, <1>5, NextFile
<1>. QED
  BY <1>1, <1>3, <1>5, <1>6 DEF Inv

LEMMA Invariance == Spec => []Inv
  BY InitInv, NextInv, PTL DEF Spec

\* At the outermost prompt neither file is left, however the command ended and
\* however many shells it ran through, and all variables keep their types.
THEOREM PromptIsClean == Spec => []CleanAtPrompt
<1>1. Inv => CleanAtPrompt
  BY DEF Inv, FileInv, RootFilesInv, CleanAtPrompt
<1>. QED
  BY <1>1, Invariance, PTL

(***************************************************************************)
(* What a step delivers.                                                   *)
(***************************************************************************)

\* Only its own start takes a program out of "boot" alive, and only its shell
\* takes a finished program away.
LEMMA WhoDelivers ==
  ASSUME Inv, [Next]_vars, NEW p \in Procs
  PROVE  /\ pc[p] = "boot" /\ pc'[p] \in {"login", "work"} => Boot(p)
         /\ \A q \in Procs : Collects(p, q) => Apply(p, q) \/ (TermReap(q) /\ p = Root)
<1>. DEFINE Goal ==
       /\ pc[p] = "boot" /\ pc'[p] \in {"login", "work"} => Boot(p)
       /\ \A q \in Procs : Collects(p, q) => Apply(p, q) \/ (TermReap(q) /\ p = Root)
<1>0. /\ pc \in [Procs -> Points] /\ parent \in [Procs -> Procs \cup {NoProc}]
      /\ Root \in Procs /\ NoProc \notin Procs /\ parent[Root] = NoProc
  BY RootAssumption DEF Inv, TypeOK, PointsInv
<1>. USE <1>0 DEF Collects, ChildOf
<1>1. ASSUME NEW r \in Procs, Step(r) PROVE Goal
  <2>1. ASSUME NEW x, pc[r] # "boot", pc[r] # "done", pc' = [pc EXCEPT ![r] = x] PROVE Goal
    BY <2>1
  <2>2. CASE Boot(r)
    BY <2>2 DEF Boot
  <2>3. CASE LoginKnown(r) \/ (\E u \in Users : LoginTyped(r, u)) \/ Rewrite(r)
               \/ (\E d \in Dirs : Cd(r, d)) \/ (\E u \in Users : Su(r, u))
               \/ Plain(r) \/ (\E e \in Codes : Exit(r, e))
               \/ Silent(r) \/ Flush(r) \/ Close(r) \/ (\E q \in Procs : Reap(r, q))
    BY <2>1, <2>3 DEF LoginKnown, LoginTyped, Enter, Rewrite, Cd, Su, Plain, Exit, Work,
                      Working, Silent, Flush, Close, Report, Reap
  <2>4. ASSUME NEW q \in Procs, Spawn(r, q) PROVE Goal
    BY <2>4 DEF Spawn
  <2>5. ASSUME NEW q \in Procs, Apply(r, q) PROVE Goal
    <3>1. \A c \in Procs : c # q /\ pc[c] = "done" => pc'[c] = "done"
      BY <2>5 DEF Apply
    <3>. QED
      BY <2>5, <3>1 DEF Apply
  <2>. QED
    BY <1>1, <2>2, <2>3, <2>4, <2>5 DEF Step
<1>2. ASSUME NEW r \in Procs, Crash(r) PROVE Goal
  BY <1>2 DEF Crash, Ended
<1>3. ASSUME NEW r \in Procs, SpawnFails(r) PROVE Goal
  BY <1>3 DEF SpawnFails
<1>4. ASSUME NEW r \in Procs, NEW c \in Commands, Launch(r, c) PROVE Goal
  BY <1>4 DEF Launch
<1>5. ASSUME NEW q \in Procs, TermReap(q) PROVE Goal
  BY <1>5 DEF TermReap
<1>6. ASSUME NEW q \in Procs, TermTimeout(q) PROVE Goal
  BY <1>6 DEF TermTimeout
<1>7. CASE (\E d \in Dirs : TermCd(d)) \/ TermExit \/ UNCHANGED vars
  BY <1>7 DEF TermCd, TermExit, vars
<1>. QED
  BY <1>1, <1>2, <1>3, <1>4, <1>5, <1>6, <1>7 DEF Next, TermStep

\* A program accepts the context its own shell wrote for it.
LEMMA ContextArrives ==
  ASSUME Inv, [Next]_vars, NEW p \in Procs
  PROVE  ContextIsMine(p)
<1>1. SUFFICES ASSUME pc[p] = "boot", pc'[p] \in {"login", "work"}, parent[p] # NoProc,
                      kind[p] # "app", alone
               PROVE  /\ has'[p] # NoFile /\ has'[p].by = parent[p]
                      /\ has'[p].cwd = sh[parent[p]].cwd /\ has'[p].user = sh[parent[p]].user
  BY DEF ContextIsMine
<1>2. Boot(p)
  BY <1>1, WhoDelivers
<1>3. /\ ctx \in Context /\ ctx.cmd = kind[p]
      /\ ctx.by = parent[p] /\ WrittenBy(ctx, parent[p])
  BY <1>1 DEF Inv, FileInv, ContextInv
<1>4. has'[p] = ctx /\ ctx # NoFile
  BY <1>1, <1>2, <1>3, FileAssumption DEF Boot, Accepted, Inv, TypeOK
<1>. QED
  BY <1>3, <1>4 DEF WrittenBy

\* A shell takes over what its program reported, and nothing when it did not.
LEMMA EffectArrives ==
  ASSUME Inv, [Next]_vars, NEW p \in Procs, NEW q \in Procs
  PROVE  EffectReturns(p, q) /\ SilentChangesNothing(p, q)
<1>. SUFFICES ASSUME Collects(p, q), alone PROVE EffectReturns(p, q) /\ SilentChangesNothing(p, q)
  BY DEF EffectReturns, SilentChangesNothing
<1>0. parent[q] = p /\ pc[q] = "done" /\ NoProc \notin Procs
  BY RootAssumption DEF Collects, ChildOf
<1>1. sh \in [Procs -> State] /\ ex \in [Procs -> Codes \cup {NoExit}]
  BY DEF Inv, TypeOK
<1>2. sh'[p] = Applied(sh[p], ret) /\ ex'[p] = ExitIn(ret)
  BY <1>1, WhoDelivers DEF Apply, TermReap
<1>3. /\ status[q] = "flushed" =>
           /\ Applied(sh[p], ret) = sh[q] /\ ExitIn(ret) = ex[q]
           /\ kind[q] # "xsh" => sh[q].user = kuser
      /\ status[q] # "flushed" /\ kind[q] # "xsh" => ret = NoFile
  BY <1>0 DEF Inv, FileInv, ReturnInv
<1>4. ret = NoFile => sh'[p] = sh[p] /\ ex'[p] = NoExit
  BY <1>1, <1>2, SilenceCarries
<1>. QED
  BY <1>2, <1>3, <1>4 DEF EffectReturns, SilentChangesNothing

\* In every chain of shells, of any length, contexts reach the program they
\* were written for, reports reach the shell that ran it, and nothing else
\* reaches either.
THEOREM EverythingIsDelivered == Spec => Delivered
<1>1. Inv /\ [Next]_vars =>
        [\A p \in Procs :
           /\ ContextIsMine(p)
           /\ \A q \in Procs : EffectReturns(p, q) /\ SilentChangesNothing(p, q)]_vars
  BY ContextArrives, EffectArrives
<1>. QED
  BY <1>1, Invariance, PTL DEF Spec, Delivered
=============================================================================
