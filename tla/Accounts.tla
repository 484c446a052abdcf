------------------------------ MODULE Accounts ------------------------------
(***************************************************************************)
(* Accounts: the library that keeps them in /system/users.db when the      *)
(* kernel does not (apps/user/cleonos_user.c), the library that keeps      *)
(* passwd, shadow and group (apps/cmd_runtime.c), and the dialogues that   *)
(* ask the kernel: useradd, passwd, su and the login of xsh.               *)
(*                                                                         *)
(* A text file is its lines and whether the last one is ended.  A line is  *)
(* a record, or Junk when no field of it is used.                          *)
(***************************************************************************)
EXTENDS Integers, Sequences, SequencesExt, FiniteSetsExt

CONSTANTS
    People, Superuser,  \* whom the calls are about
    Strangers,          \* names that only stand in files
    Unset, Missing, Junk, BadId,
    Locked,             \* the "!" of a shadow line no password opens
    DbMax,              \* lines that users.db may have to be read at all
    FileMax,            \* lines of passwd, shadow and group that are read
    FirstId, IdWord,    \* ids of users start at FirstId; they are words
    Rub, Del,           \* backspace (8) and delete (127)
    LineMax, LoginMax,  \* characters a dialogue and a login keep
    Passwords,          \* what is passed to the libraries
    TypedKeys,          \* what is typed in a dialogue, as keys
    AccountFiles,       \* the files a behaviour may start with
    MaxCalls            \* bound on the calls of a behaviour

ASSUME PeopleAssumption == Superuser \in People /\ Unset \notin People /\ Passwords # {}
\* A line of a file takes more than one character, and an id is a word.
ASSUME NumbersAssumption ==
    /\ DbMax \in Nat /\ FileMax \in Nat /\ FirstId \in Nat \ {0} /\ IdWord \in Nat
    /\ FirstId + FileMax < IdWord
    /\ LineMax \in Nat /\ LoginMax \in 0 .. LineMax
ASSUME KeysAssumption == \A keys \in TypedKeys : keys \in Seq(ToSet(keys))

VARIABLES users, passwd, shadow, group, kernel, session, typed, last, calls

accountVars == <<users, passwd, shadow, group, kernel, session, typed, last, calls>>

\* One way of hashing for each library.
Sha256(p) == <<"sha256", p>>
Fnv1a(p) == <<"x1", p>>

UserLines == [name : People \cup Strangers, role : {"admin", "user"},
              hash : {Sha256(p) : p \in Passwords}, home : {"own", "spoilt"}]
IdLines == [name : People \cup Strangers, id : (0 .. IdWord - 1) \cup {BadId}]
SecretLines == [name : People \cup Strangers, hash : {Fnv1a(p) : p \in Passwords} \cup {Locked}]
\* An empty file has no unended last line.
FileOf(entries) ==
    {Missing} \cup {f \in [lines : Seq(entries \cup {Junk}), ended : BOOLEAN] : f.lines = <<>> => f.ended}

ASSUME MarksAssumption ==
    /\ Junk \notin UserLines \cup IdLines \cup SecretLines
    /\ Unset \notin UserLines \cup IdLines \cup SecretLines \cup TypedKeys \cup {Junk, Locked}
                 \cup {Fnv1a(p) : p \in Passwords}
    /\ Locked \notin {Fnv1a(p) : p \in Passwords}
    /\ Missing \notin [lines : Seq(UserLines \cup IdLines \cup SecretLines \cup {Junk}), ended : BOOLEAN]
    /\ BadId \notin Nat
ASSUME AccountFilesAssumption ==
    \A s \in AccountFiles :
       /\ s.users \in FileOf(UserLines) /\ s.passwd \in FileOf(IdLines) /\ s.shadow \in FileOf(SecretLines)
       /\ s.passwd # Missing =>
            \A i, j \in DOMAIN s.passwd.lines :
               i # j /\ Junk \notin {s.passwd.lines[i], s.passwd.lines[j]} /\ s.passwd.lines[i].id # BadId
               => s.passwd.lines[i].id # s.passwd.lines[j].id

Lines(f) == IF f = Missing THEN <<>> ELSE f.lines
File(s) == [lines |-> s, ended |-> TRUE]
Of(s, n) == {i \in DOMAIN s : s[i] # Junk /\ s[i].name = n}
First(s, n) == IF Of(s, n) = {} THEN Unset ELSE s[Min(Of(s, n))]

\* fs_write of a whole file: it is there, or the old one is, or a part of it.
Outcomes(ok, f, s) ==
    IF ok THEN {File(s)}
    ELSE {f} \cup {[lines |-> Append(SubSeq(s, 1, k), Junk), ended |-> FALSE] : k \in 0..Len(s) - 1}

Called(op, n, word, ok) ==
    /\ calls < MaxCalls /\ calls' = calls + 1
    /\ last' = [op |-> op, name |-> n, word |-> word, ok |-> ok]

(***************************************************************************)
(* users.db.  A file that is too long for the buffer is not read, which    *)
(* every caller takes for an account that is not there.                    *)
(***************************************************************************)
DbLoads == users # Missing /\ Len(users.lines) <= DbMax
UserFind(n) == IF DbLoads THEN First(users.lines, n) ELSE Unset
UserVerify(n, p) == UserFind(n) # Unset /\ UserFind(n).hash = Sha256(p)

\* Fault: the lines behind the replaced one are left out.
Rewritten_StopsAtMatch(n, new) ==
    Append(SubSeq(users.lines, 1, Min(Of(users.lines, n)) - 1), new)

\* The lines of all other names.
Without(s, n) ==
    LET kept[i \in 0 .. Len(s)] ==
            IF i = 0 THEN <<>> ELSE IF i \in Of(s, n) THEN kept[i - 1] ELSE Append(kept[i - 1], s[i])
    IN  kept[Len(s)]

\* cu_db_rewrite_with: every line of the name is replaced, or left out.
Rewritten(n, new) ==
    IF new = Unset THEN Without(users.lines, n)
    ELSE [i \in DOMAIN users.lines |-> IF i \in Of(users.lines, n) THEN new ELSE users.lines[i]]

RewriteWith(n, new, ok) ==
    IF DbLoads /\ Of(users.lines, n) # {}
    THEN users' \in Outcomes(ok, users, Rewritten(n, new))
    ELSE ~ok /\ UNCHANGED users

\* fs_append writes behind what is there: after a line that is not ended it
\* only lengthens that line, whose home is spoilt.
Appended(f, l) ==
    IF f.ended THEN File(Append(f.lines, l))
    ELSE IF Last(f.lines) = Junk THEN File(f.lines)
    ELSE File([f.lines EXCEPT ![Len(f.lines)].home = "spoilt"])

\* A call the kernel answers is the kernel's; only then the library's file is
\* looked at.  (Unset: nothing was done in a file of the library.)
UserCreate ==
    \E n \in People, p \in Passwords, role \in {"admin", "user"}, existing, ok \in BOOLEAN :
        LET db == IF users = Missing THEN File(<<>>) ELSE users
            entry == [name |-> n, role |-> role, hash |-> Sha256(p), home |-> "own"]
        IN /\ \/ /\ kernel[n] = Unset /\ Called("create", n, Unset, TRUE)
                 /\ kernel' = [kernel EXCEPT ![n] = [password |-> p, role |-> role]]
                 /\ UNCHANGED users
              \/ /\ UserFind(n) # Unset /\ Called("create", n, Unset, existing)
                 /\ UNCHANGED <<users, kernel>>
              \/ /\ UserFind(n) = Unset /\ Called("create", n, p, ok)
                 /\ IF ok THEN users' = Appended(db, entry) ELSE users' \in {users, db}
                 /\ UNCHANGED kernel
    /\ UNCHANGED <<passwd, shadow, group, session, typed>>

UserChangePassword ==
    \E n \in People, p \in Passwords, ok \in BOOLEAN :
        /\ Called("change", n, p, ok)
        /\ IF UserFind(n) = Unset THEN ~ok /\ UNCHANGED users
           ELSE RewriteWith(n, [UserFind(n) EXCEPT !.hash = Sha256(p)], ok)
    /\ UNCHANGED <<passwd, shadow, group, kernel, session, typed>>

UserSetRole ==
    \E n \in People, role \in {"admin", "user"}, ok \in BOOLEAN :
        \/ /\ UserFind(n) = Unset /\ Called("role", n, role, FALSE)
           /\ UNCHANGED <<users, passwd, shadow, group, kernel, session, typed>>
        \/ /\ UserFind(n) # Unset /\ kernel[n] # Unset /\ Called("role", n, Unset, TRUE)
           /\ kernel' = [kernel EXCEPT ![n].role = role]
           /\ UNCHANGED <<users, passwd, shadow, group, session, typed>>
        \/ /\ UserFind(n) # Unset /\ Called("role", n, role, ok)
           /\ RewriteWith(n, [UserFind(n) EXCEPT !.role = role], ok)
           /\ UNCHANGED <<passwd, shadow, group, kernel, session, typed>>

UserRemove ==
    \E n \in People, ok \in BOOLEAN :
        \/ /\ n = Superuser /\ Called("remove", n, "gone", FALSE)
           /\ UNCHANGED <<users, passwd, shadow, group, kernel, session, typed>>
        \/ /\ n \notin {Superuser, session} /\ kernel[n] # Unset /\ Called("remove", n, Unset, TRUE)
           /\ kernel' = [kernel EXCEPT ![n] = Unset] /\ typed' = [typed EXCEPT ![n] = Unset]
           /\ UNCHANGED <<users, passwd, shadow, group, session>>
        \/ /\ n # Superuser /\ Called("remove", n, "gone", ok)
           /\ RewriteWith(n, Unset, ok)
           /\ UNCHANGED <<passwd, shadow, group, kernel, session, typed>>

(***************************************************************************)
(* passwd, shadow and group.  A longer file is read up to the buffer's end *)
(* and written back so.                                                    *)
(***************************************************************************)
Read(f) == IF Len(Lines(f)) <= FileMax THEN Lines(f)
           ELSE Append(SubSeq(Lines(f), 1, FileMax - 1), Junk)
Fits(s) == Len(s) <= FileMax
WriteBack(f, s, ok) == IF Fits(s) THEN Outcomes(ok, f, s) ELSE IF ok THEN {} ELSE {f}

LookupPasswd(n) ==
    LET l == First(Read(passwd), n) IN IF l = Unset \/ l.id = BadId THEN Unset ELSE l
LookupByUid(id) ==
    LET s == Read(passwd)
        with == {i \in DOMAIN s : s[i] # Junk /\ s[i].id = id}
    IN IF with = {} THEN Unset ELSE s[Min(with)]
LookupShadow(n) == LET l == First(Read(shadow), n) IN IF l = Unset THEN Unset ELSE l.hash
VerifyShadow(n, p) == LookupShadow(n) \notin {Unset, Locked} /\ LookupShadow(n) = Fnv1a(p)
GroupOf(id) ==
    LET s == Read(group)
        with == {i \in DOMAIN s : s[i] # Junk /\ s[i].id = id}
    IN IF with = {} THEN Unset ELSE s[Min(with)].name

Ids(s) == {s[i].id : i \in {j \in DOMAIN s : s[j] # Junk /\ s[j].id # BadId}}
\* Fault: the last line is taken for the one with the largest id.
NextUid_OfLast ==
    LET s == Read(passwd)
    IN IF s = <<>> \/ Last(s) = Junk \/ Last(s).id = BadId THEN FirstId ELSE Last(s).id + 1
NextUid == (Max(Ids(Read(passwd)) \cup {FirstId - 1}) + 1) % IdWord
NextGid == (Max(Ids(Read(group)) \cup {FirstId - 1}) + 1) % IdWord

\* What ush_account_set_password reads of the file: to find the name it cuts each
\* line at its colons, in place, so that the lines of all others are written back
\* without what stood behind the name.
NamesOnly(s, n) == [i \in DOMAIN s |-> IF i \in Of(s, n) THEN s[i] ELSE Junk]

\* Fault: an account that has no line yet is reported as done.
SetPassword_UpdatesOnly ==
    \E n \in People, p \in Passwords, ok \in BOOLEAN :
        LET s == NamesOnly(Read(shadow), n)
            new == [name |-> n, hash |-> Fnv1a(p)]
        IN /\ Called("set_password", n, p, ok)
           /\ shadow' \in WriteBack(shadow, [i \in DOMAIN s |-> IF i \in Of(s, n) THEN new ELSE s[i]], ok)
    /\ UNCHANGED <<users, passwd, group, kernel, session, typed>>

SetPassword ==
    \E n \in People, p \in Passwords, ok \in BOOLEAN :
        LET s == NamesOnly(Read(shadow), n)
            new == [name |-> n, hash |-> Fnv1a(p)]
            out == IF Of(s, n) = {} THEN Append(s, new)
                   ELSE [i \in DOMAIN s |-> IF i \in Of(s, n) THEN new ELSE s[i]]
        IN /\ Called("set_password", n, p, ok)
           /\ shadow' \in WriteBack(shadow, out, ok)
    /\ UNCHANGED <<users, passwd, group, kernel, session, typed>>

\* ush_account_add_user, called with the id ush_account_next_uid gives: two
\* files, one after the other.
AddUser ==
    \E n \in People, ok \in BOOLEAN :
        LET entry == Append(Read(passwd), [name |-> n, id |-> NextUid])
            lock == Append(Read(shadow), [name |-> n, hash |-> Locked])
        IN /\ Called("add_user", n, "there", ok)
           /\ \/ ~ok /\ LookupPasswd(n) # Unset /\ UNCHANGED <<passwd, shadow>>
              \/ /\ LookupPasswd(n) = Unset /\ ~ok
                 /\ passwd' \in WriteBack(passwd, entry, FALSE) /\ UNCHANGED shadow
              \/ /\ LookupPasswd(n) = Unset
                 /\ passwd' \in WriteBack(passwd, entry, TRUE)
                 /\ shadow' \in WriteBack(shadow, lock, ok)
    /\ UNCHANGED <<users, group, kernel, session, typed>>

AddGroup ==
    \E n \in People, ok \in BOOLEAN :
        /\ Called("add_group", n, "there", ok)
        /\ IF Of(Read(group), n) # {} THEN ok /\ UNCHANGED group
           ELSE group' \in WriteBack(group, Append(Read(group), [name |-> n, id |-> NextGid]), ok)
    /\ UNCHANGED <<users, passwd, shadow, kernel, session, typed>>

(***************************************************************************)
(* The dialogues.  Four copies of one loop read a line of keys; they       *)
(* differ in the characters they keep and in whether delete rubs out.      *)
(***************************************************************************)
Pressed(text, key, max, rubs) ==
    IF key \in rubs THEN SubSeq(text, 1, Len(text) - 1)
    ELSE IF key \in {Rub, Del} \/ Len(text) = max THEN text ELSE Append(text, key)
Line(keys, max, rubs) ==
    LET text[i \in 0 .. Len(keys)] == IF i = 0 THEN <<>> ELSE Pressed(text[i - 1], keys[i], max, rubs)
    IN  text[Len(keys)]
PasswdLine(keys) == Line(keys, LineMax, {Rub})
UseraddLine(keys) == Line(keys, LineMax, {Rub})
SuLine(keys) == Line(keys, LineMax, {Rub})
\* Fault: the login does not know the backspace the other loops know.
LoginLine_KeepsRub(keys) == Line(keys, LoginMax, {Del})
LoginLine(keys) == Line(keys, LoginMax, {Rub, Del})

KernelAccounts ==
    [password : Passwords \cup {PasswdLine(keys) : keys \in TypedKeys} \cup {UseraddLine(keys) : keys \in TypedKeys},
     role : {"admin", "user"}]
ASSUME KernelAssumption == Unset \notin KernelAccounts

\* What a program takes itself for: the kernel's user, or root without one.
Self == IF session = Unset THEN Superuser ELSE session
SelfRole == IF session = Unset THEN "admin" ELSE kernel[session].role
Admin == session # Unset /\ kernel[session].role = "admin"

KernelLogin(n, p) == kernel[n] # Unset /\ (Admin \/ kernel[n].password = p)
KernelPasswd(n, old) == kernel[n] # Unset /\ (Admin \/ kernel[n].password = old)

Login ==
    \E n \in People, keys \in TypedKeys :
        LET ok == KernelLogin(n, LoginLine(keys))
        IN /\ session = Unset
           /\ Called("login", n, Unset, ok)
           /\ session' = IF ok THEN n ELSE Unset
    /\ UNCHANGED <<users, passwd, shadow, group, kernel, typed>>

\* An administrator is not asked when it is for another account.
Su ==
    \E n \in People, keys \in TypedKeys :
        LET p == IF SelfRole # "admin" \/ n = Self THEN SuLine(keys) ELSE <<>>
            ok == KernelLogin(n, p)
        IN /\ Called("su", n, Unset, ok)
           /\ session' = IF ok THEN n ELSE session
    /\ UNCHANGED <<users, passwd, shadow, group, kernel, typed>>

\* A line typed twice may differ, which ends the dialogue like any refusal.
Useradd ==
    \E n \in People :
        \/ \E keys \in TypedKeys :
              /\ SelfRole = "admin" /\ UseraddLine(keys) # <<>> /\ Admin /\ kernel[n] = Unset
              /\ Called("useradd", n, Unset, TRUE)
              /\ kernel' = [kernel EXCEPT ![n] = [password |-> UseraddLine(keys), role |-> "user"]]
              /\ typed' = [typed EXCEPT ![n] = keys]
              /\ UNCHANGED <<users, passwd, shadow, group, session>>
        \/ /\ Called("useradd", n, Unset, FALSE)
           /\ UNCHANGED <<users, passwd, shadow, group, kernel, session, typed>>

Passwd ==
    \E n \in People :
        \/ \E old \in Passwords, keys \in TypedKeys :
              /\ SelfRole = "admin" \/ n = Self
              /\ KernelPasswd(n, IF SelfRole # "admin" \/ n = Self THEN old ELSE <<>>)
              /\ PasswdLine(keys) # <<>>
              /\ Called("passwd", n, Unset, TRUE)
              /\ kernel' = [kernel EXCEPT ![n].password = PasswdLine(keys)]
              /\ typed' = [typed EXCEPT ![n] = keys]
              /\ UNCHANGED <<users, passwd, shadow, group, session>>
        \/ /\ Called("passwd", n, Unset, FALSE)
           /\ UNCHANGED <<users, passwd, shadow, group, kernel, session, typed>>

\* session_clear, and the end of the last shell.
Logout ==
    /\ session # Unset /\ Called("logout", session, Unset, TRUE)
    /\ session' = Unset
    /\ UNCHANGED <<users, passwd, shadow, group, kernel, typed>>

AccountsInit ==
    /\ \E s \in AccountFiles : users = s.users /\ passwd = s.passwd /\ shadow = s.shadow
    /\ group = Missing
    /\ kernel = [n \in People |-> IF n = Superuser THEN [password |-> CHOOSE p \in Passwords : TRUE,
                                                           role |-> "admin"] ELSE Unset]
    /\ session \in {Unset, Superuser}
    /\ typed = [n \in People |-> Unset]
    /\ last = [op |-> "none", name |-> Superuser, word |-> Unset, ok |-> TRUE]
    /\ calls = 0

AccountsNext ==
    \/ UserCreate \/ UserChangePassword \/ UserSetRole \/ UserRemove
    \/ SetPassword \/ AddUser \/ AddGroup
    \/ Login \/ Su \/ Useradd \/ Passwd \/ Logout

AccountsSpec == AccountsInit /\ [][AccountsNext]_accountVars

(***************************************************************************)
(* Properties.                                                             *)
(***************************************************************************)
\* No two accounts get one id, whatever lines were lost or cannot be read,
\* short of the last word an id can be.
UidsDistinct ==
    LET s == Lines(passwd)
    IN  \/ IdWord - 1 \in Ids(s)
        \/ \A i, j \in DOMAIN s :
              \/ i = j \/ Junk \in {s[i], s[j]}
              \/ s[i].id = BadId \/ s[i].id # s[j].id

TypeOfAccounts ==
    /\ users \in FileOf(UserLines) /\ passwd \in FileOf(IdLines)
    /\ shadow \in FileOf(SecretLines) /\ group \in FileOf(IdLines)
    /\ kernel \in [People -> KernelAccounts \cup {Unset}]
    /\ session \in People \cup {Unset} /\ (session # Unset => kernel[session] # Unset)
    /\ typed \in [People -> TypedKeys \cup {Unset}]

\* Where the libraries can keep their word: the file fits the buffer, and
\* users.db, which is appended to without a look, ends with a newline.
Ordinary ==
    /\ DbLoads /\ users.ended
    /\ \A f \in {passwd, shadow, group} : Fits(Lines(f))
\* An id can be given and the name has no line whose id is hidden.
Plain(n) ==
    /\ IdWord - 1 \notin Ids(Lines(passwd))
    /\ \A i \in Of(Lines(passwd), n) : passwd.lines[i].id # BadId

Shows(n, w) ==
    CASE last.op = "create"       -> UserVerify(n, w)
      [] last.op = "change"       -> UserVerify(n, w)
      [] last.op = "role"         -> UserFind(n).role = w
      [] last.op = "remove"       -> UserFind(n) = Unset
      [] last.op = "set_password" -> VerifyShadow(n, w)
      [] last.op = "add_user"     -> /\ LookupPasswd(n) # Unset /\ LookupShadow(n) # Unset
                                     /\ LookupByUid(LookupPasswd(n).id).name = n
      [] last.op = "add_group"    -> Of(Read(group), n) # {} /\ GroupOf(First(Read(group), n).id) = n
      [] OTHER                    -> TRUE

\* A set_password loses the lines of the others in shadow.
LosesSecrets == IF last'.op = "set_password" THEN {Unset} ELSE {}
KeepsOthers ==
    \A n \in People \ {last'.name} :
        /\ First(Lines(users'), n) = First(Lines(users), n)
        /\ First(Lines(passwd'), n) = First(Lines(passwd), n)
        /\ First(Lines(shadow'), n) \in {First(Lines(shadow), n)} \cup LosesSecrets
        /\ First(Lines(group'), n) = First(Lines(group), n)

\* A call that reports success has done it, as the next reader sees it, in
\* every file the library keeps the account in; and rewriting a whole file for
\* one account has lost or changed no line of another, but for set_password, after
\* which the others have no password, and never a different one.
ReportsTruly ==
    last'.ok /\ Ordinary =>
        /\ KeepsOthers
        /\ Ordinary' /\ last'.word # Unset /\ Plain(last'.name) => Shows(last.name, last.word)'

ReportedIsTrue == [][ReportsTruly]_accountVars

\* The keys that set a password open the login with it, though another loop
\* with another buffer reads them: as long as they fit its buffer and the
\* delete key is not among them.
LoginTakesTyped ==
    \A n \in People :
        (/\ typed[n] # Unset /\ Del \notin ToSet(typed[n])
         /\ Cardinality({i \in DOMAIN typed[n] : typed[n][i] # Rub}) <= LoginMax)
        => kernel[n].password = LoginLine(typed[n])

\* The files and the kernel's accounts stay well-formed, ids stay distinct, and
\* what is typed opens the login.
AccountsHold == TypeOfAccounts /\ UidsDistinct /\ LoginTakesTyped

\* What the proofs add: an id that is given twice is given behind the last one,
\* so that a file that is cut off loses both; every password is the line that
\* was typed for it; the groups have the ids from FirstId on.
IdsAscend(s) ==
    \A i, j \in DOMAIN s :
        (i < j /\ Junk \notin {s[i], s[j]} /\ s[i].id # BadId /\ s[i].id = s[j].id)
        => \E k \in 1 .. j - 1 : s[k] # Junk /\ s[k].id = IdWord - 1
IdsCount(s) ==
    /\ Len(s) <= FileMax
    /\ \A i \in DOMAIN s : s[i] # Junk => s[i].id \in FirstId .. FirstId + i - 1
    /\ \A i, j \in DOMAIN s : i < j /\ Junk \notin {s[i], s[j]} => s[i].id < s[j].id
TypedIsKept ==
    \A n \in People :
        typed[n] # Unset => kernel[n] # Unset /\ kernel[n].password = PasswdLine(typed[n])
AccountsInv == TypeOfAccounts /\ TypedIsKept /\ IdsAscend(Lines(passwd)) /\ IdsCount(Lines(group))
=============================================================================
