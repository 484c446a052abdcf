----------------------------- MODULE TlsSession -----------------------------
(***************************************************************************)
(* A TLS connection (apps/tls/cleonos_tls.c) in the hands of a program     *)
(* that fetches one thing after the other (browser_fetch.c, wget_main.c):  *)
(* the TCP connection, the contexts of mbedtls with the memory they hold,  *)
(* and the error the program is told.  mbedtls and the network are         *)
(* external: each call of theirs ends as it likes.                         *)
(***************************************************************************)
EXTENDS Naturals, Sequences

CONSTANTS
    None, NoTcp, AllocFailed, Timeout, \* error codes of this code
    Errors,                     \* error codes of mbedtls and of the network
    Request,                    \* the bytes to send, in order
    Sizes,                      \* the memory each part of a context takes
    HandshakeLoops, CloseLoops, \* CLEONOS_TLS_HANDSHAKE_LOOPS, the 8 of the close
    IdleLoops,                  \* empty reads the program waits for
    MaxSessions                 \* bound on the sessions of a behaviour

\* What is in a context, each part named for the step that makes it.
Parts == {"seed", "setup", "hostname"}

ASSUME SizesAssumption == Sizes \in [Parts -> Nat]
ASSUME RequestAssumption == Request \in Seq({Request[i] : i \in DOMAIN Request})

VARIABLES
    stage,  \* where the program is
    conn,   \* the connection, or None
    sock,   \* the kernel's TCP connection is open
    heap,   \* what the contexts hold, and the allocator's account of it
    sent,   \* the bytes mbedtls has taken
    loops,  \* rounds of the loop under way
    cause,  \* ghost: the first error of the session
    told,   \* the error the program reports
    sessions

vars == <<stage, conn, sock, heap, sent, loops, cause, told, sessions>>

Zero == [initialized |-> FALSE, active |-> FALSE, eof |-> FALSE, error |-> None]

\* The memory a set of parts takes.
SizeIn(part, parts) == IF part \in parts THEN Sizes[part] ELSE 0
Memory(parts) == SizeIn("seed", parts) + SizeIn("setup", parts) + SizeIn("hostname", parts)
Held(h) == Memory(h.parts)

(***************************************************************************)
(* The allocator that mbedtls is given.                                    *)
(***************************************************************************)
Calloc(h, part) ==
    LET current == h.current + Sizes[part]
    IN  [h EXCEPT !.parts = @ \cup {part}, !.current = current,
                  !.peak = IF current > @ THEN current ELSE @]
CallocFails(h) == [h EXCEPT !.fails = TRUE]

Freed(h, parts) ==
    LET gone == Memory(h.parts \cap parts)
    IN  [h EXCEPT !.parts = @ \ parts, !.current = IF @ >= gone THEN @ - gone ELSE 0]

\* The statistics start again with an empty account.
HeapInit(h) == IF h.current = 0 THEN [h EXCEPT !.peak = 0, !.fails = FALSE] ELSE h
ContextsFree(h) == Freed(h, Parts)

(***************************************************************************)
(* Connecting.                                                             *)
(***************************************************************************)
Because(e) == cause' = IF cause = None THEN e ELSE cause

\* Fault: the error is noted before the connection is cleared.
Dropped_ClearsError(e) == [Zero EXCEPT !.error = None]

\* The connection as a failed connect leaves it, for the program to ask.
Dropped(e) == [Zero EXCEPT !.error = e]

\* A connect that failed with e, after the contexts have taken h.
Abort(e, h) ==
    /\ sock' = FALSE /\ heap' = ContextsFree(h) /\ conn' = Dropped(e)
    /\ stage' = "failed" /\ Because(e)
    /\ UNCHANGED <<sent, loops, told, sessions>>

NoMemory ==
    /\ stage = "idle" /\ sessions < MaxSessions /\ sessions' = sessions + 1
    /\ UNCHANGED <<stage, conn, sock, heap, sent, loops, cause, told>>

Connect ==
    /\ stage = "idle" /\ sessions < MaxSessions /\ sessions' = sessions + 1
    /\ heap' = HeapInit(heap)
    /\ sent' = <<>> /\ loops' = 0 /\ told' = None
    /\ \/ stage' = "failed" /\ conn' = Dropped(AllocFailed) /\ cause' = AllocFailed /\ UNCHANGED sock
       \/ stage' = "failed" /\ conn' = Dropped(NoTcp) /\ cause' = NoTcp /\ UNCHANGED sock
       \/ stage' = "seed" /\ conn' = [Zero EXCEPT !.initialized = TRUE] /\ cause' = None /\ sock' = TRUE

\* The steps before the handshake; each may fail, or find no memory.
Prepared(from, to) ==
    /\ stage = from
    /\ \/ /\ stage' = to /\ heap' = Calloc(heap, from)
          /\ UNCHANGED <<conn, sock, sent, loops, cause, told, sessions>>
       \/ \E e \in Errors : Abort(e, heap)
       \/ Abort(AllocFailed, CallocFails(heap))
Seed == Prepared("seed", "setup")
Setup == Prepared("setup", "hostname")
SetHostname == Prepared("hostname", "handshake")

\* One round: done, to be called again, or failed.
Handshake ==
    /\ stage = "handshake" /\ loops < HandshakeLoops
    /\ \/ /\ conn' = [conn EXCEPT !.active = TRUE, !.error = None]
          /\ stage' = "writing" /\ loops' = 0
          /\ UNCHANGED <<sock, heap, sent, cause, told, sessions>>
       \/ loops' = loops + 1 /\ UNCHANGED <<stage, conn, sock, heap, sent, cause, told, sessions>>
       \/ \E e \in Errors : Abort(e, heap)

\* The rounds or, for wget, the time until the deadline are used up.
HandshakeExpires == stage = "handshake" /\ Abort(Timeout, heap)

(***************************************************************************)
(* Writing and reading.                                                    *)
(***************************************************************************)
\* Fault: the next piece starts again at the beginning.
Piece_FromStart(n) == SubSeq(Request, 1, n)

\* The next n bytes that have not been taken yet.
Piece(n) == SubSeq(Request, Len(sent) + 1, Len(sent) + n)

Failed(e) ==
    /\ conn' = [conn EXCEPT !.error = e] /\ stage' = "failed" /\ Because(e)
    /\ UNCHANGED <<sock, heap, sent, loops, told, sessions>>

WriteAll ==
    /\ stage = "writing"
    /\ \/ /\ \E n \in 1 .. Len(Request) - Len(sent) : sent' = sent \o Piece(n)
          /\ stage' = IF Len(sent') = Len(Request) THEN "reading" ELSE stage
          /\ conn' = [conn EXCEPT !.error = None]
          /\ UNCHANGED <<sock, heap, loops, cause, told, sessions>>
       \/ \E e \in Errors : Failed(e)

\* Data, an empty read while the peer is silent, the end, or an error.
Read ==
    /\ stage = "reading"
    /\ \/ /\ loops' = 0 /\ stage' \in {"reading", "closing"}
          /\ conn' = [conn EXCEPT !.error = None]
          /\ UNCHANGED <<sock, heap, sent, cause, told, sessions>>
       \/ /\ loops' = (loops + 1) % IdleLoops
          /\ stage' = IF loops' = 0 THEN "closing" ELSE stage
          /\ conn' = [conn EXCEPT !.error = None]
          /\ UNCHANGED <<sock, heap, sent, cause, told, sessions>>
       \/ /\ conn' = [conn EXCEPT !.eof = TRUE, !.error = None] /\ stage' = "closing" /\ loops' = 0
          /\ UNCHANGED <<sock, heap, sent, cause, told, sessions>>
       \/ \E e \in Errors : Failed(e)

(***************************************************************************)
(* The end of a fetch.                                                     *)
(***************************************************************************)
\* The program asks for the error; what it opened is closed like after success.
Tell ==
    /\ stage = "failed" /\ told' = conn.error
    /\ loops' = 0
    /\ stage' = IF conn.active THEN "closing" ELSE "freeing"
    /\ UNCHANGED <<conn, sock, heap, sent, cause, sessions>>

CloseNotify ==
    /\ stage = "closing" /\ loops < CloseLoops /\ loops' = loops + 1
    /\ UNCHANGED <<stage, conn, sock, heap, sent, cause, told, sessions>>

\* Fault: a connection whose end the peer announced is not closed again.
Close_NotAfterEof ==
    /\ stage = "closing"
    /\ sock' = (sock /\ conn.eof) /\ heap' = ContextsFree(heap)
    /\ conn' = Zero /\ stage' = "freeing" /\ UNCHANGED <<sent, loops, cause, told, sessions>>

Close ==
    /\ stage = "closing"
    /\ sock' = FALSE /\ heap' = ContextsFree(heap)
    /\ conn' = Zero /\ stage' = "freeing" /\ UNCHANGED <<sent, loops, cause, told, sessions>>

Free ==
    /\ stage = "freeing" /\ conn' = None /\ stage' = "idle"
    /\ UNCHANGED <<sock, heap, sent, loops, cause, told, sessions>>

Init ==
    /\ stage = "idle" /\ conn = None /\ sock = FALSE
    /\ heap = [parts |-> {}, current |-> 0, peak |-> 0, fails |-> FALSE]
    /\ sent = <<>> /\ loops = 0 /\ cause = None /\ told = None /\ sessions = 0

Next ==
    \/ NoMemory \/ Connect \/ Seed \/ Setup \/ SetHostname \/ Handshake \/ HandshakeExpires
    \/ WriteAll \/ Read \/ Tell \/ CloseNotify \/ Close \/ Free

Spec == Init /\ [][Next]_vars

(***************************************************************************)
(* The inductive invariant.                                                *)
(***************************************************************************)
Connection ==
    [initialized : BOOLEAN, active : BOOLEAN, eof : BOOLEAN,
     error : Errors \cup {None, NoTcp, AllocFailed, Timeout}]

\* The parts the contexts have at every stage of a connect.
PartsAt ==
    [seed |-> {}, setup |-> {"seed"}, hostname |-> {"seed", "setup"}, handshake |-> Parts,
     writing |-> Parts, reading |-> Parts]
Connecting == {"seed", "setup", "hostname", "handshake"}
Open == Connecting \cup {"writing", "reading"}

TypeOK ==
    /\ stage \in Open \cup {"idle", "failed", "closing", "freeing"}
    /\ IF stage = "idle" THEN conn = None ELSE conn \in Connection
    /\ sock \in BOOLEAN
    /\ heap \in [parts : SUBSET Parts, current : Nat, peak : Nat, fails : BOOLEAN]
    /\ sent \in Seq({Request[i] : i \in DOMAIN Request})

\* A session that is under way has its TCP connection and the parts of its
\* stage; one that is over and was never active, or was closed, has nothing.
StageInv ==
    /\ stage \in Open => sock /\ heap.parts = PartsAt[stage] /\ conn.initialized
    /\ stage \in Open => (conn.active <=> stage \notin Connecting)
    /\ stage \in {"failed", "closing"} /\ conn.active => conn.initialized /\ sock
    /\ stage = "failed" /\ ~conn.active => ~sock /\ heap.parts = {}
    /\ stage \in {"idle", "freeing"} => ~sock /\ heap.parts = {}
    /\ stage = "freeing" => ~conn.active

HeapInv == heap.current = Held(heap) /\ heap.peak >= heap.current

\* The first error is the one in the connection until the program asks.
ErrorInv ==
    /\ stage \in Open => cause = None /\ told = None
    /\ stage = "failed" => conn.error = cause
    /\ stage \in {"closing", "freeing", "idle"} => told = cause

SentInv ==
    /\ stage \in {"writing", "reading"} =>
          /\ Len(sent) <= Len(Request)
          /\ \A i \in 1 .. Len(sent) : sent[i] = Request[i]
    /\ stage \in Connecting => sent = <<>>
    /\ stage = "reading" => Len(sent) = Len(Request)

SessionInv == TypeOK /\ StageInv /\ HeapInv /\ ErrorInv /\ SentInv

(***************************************************************************)
(* Properties.                                                             *)
(***************************************************************************)
\* However a session ends, nothing of it is left when the next one starts: the
\* TCP connection is closed, the contexts' memory is freed and the account of
\* it is back at what is held; in between an active session has its contexts
\* and its connection (cleonos_tls_abort_connect, cleonos_tls_close).  The
\* program is told the error that ended the session, and waits for an answer
\* only when the whole request went out, each byte once.
SessionIsClean ==
    /\ stage = "idle" => ~sock /\ heap.parts = {} /\ conn = None
    /\ heap.current = Held(heap) /\ heap.peak >= heap.current
    /\ conn # None /\ conn.active => conn.initialized /\ sock
    /\ stage \in {"closing", "freeing", "idle"} /\ cause # None => told = cause
    /\ stage = "reading" => sent = Request
=============================================================================
