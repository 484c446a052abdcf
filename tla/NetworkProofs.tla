----------------------------- MODULE NetworkProofs ---------------------------
(***************************************************************************)
(* Proofs about TlsSession and Browsing.                                   *)
(*                                                                         *)
(* Every TLS session leaves nothing behind and tells the error that ended  *)
(* it, for every request, every set of errors, every size of the parts of  *)
(* a context and every bound on the loops.                                 *)
(*                                                                         *)
(* The browser sends what it was asked for and retraces its way, for every *)
(* set of pages and addresses, every text that is typed and every limit on *)
(* its buffers.  What a form is encoded to is what a server decodes: both  *)
(* are runs of one step for each character.                                *)
(***************************************************************************)
EXTENDS TlsSession, Browsing, NaturalsInduction, WellFoundedInduction, SequenceTheorems, TLAPS

(* TlsSession. *)

Byte == {Request[i] : i \in DOMAIN Request}
HeapType == [parts : SUBSET Parts, current : Nat, peak : Nat, fails : BOOLEAN]
Error == Errors \cup {None, NoTcp, AllocFailed, Timeout}

\* What a heap is, apart from what it holds.
Sound(h) == h \in HeapType /\ h.current = Held(h) /\ h.peak >= h.current

(***************************************************************************)
(* The allocator.                                                          *)
(***************************************************************************)
LEMMA SizeIsNat == \A part \in Parts : Sizes[part] \in Nat
BY SizesAssumption

LEMMA MemoryIsNat == \A parts : Memory(parts) \in Nat
BY SizeIsNat DEF Memory, SizeIn, Parts

\* Another part adds its size (cleonos_tls_calloc).
LEMMA MemoryGrows ==
    ASSUME NEW parts, NEW part \in Parts, part \notin parts
    PROVE  Memory(parts \cup {part}) = Memory(parts) + Sizes[part]
<1>1. CASE part = "seed"
  BY <1>1, SizeIsNat DEF Memory, SizeIn, Parts
<1>2. CASE part = "setup"
  BY <1>2, SizeIsNat DEF Memory, SizeIn, Parts
<1>3. CASE part = "hostname"
  BY <1>3, SizeIsNat DEF Memory, SizeIn, Parts
<1> QED
  BY <1>1, <1>2, <1>3 DEF Parts

LEMMA MemoryOfNone == Memory({}) = 0
BY DEF Memory, SizeIn

LEMMA CallocIsSound ==
    ASSUME NEW h, Sound(h), NEW part \in Parts, part \notin h.parts
    PROVE  Sound(Calloc(h, part)) /\ Calloc(h, part).parts = h.parts \cup {part}
<1> DEFINE c == Calloc(h, part)
           current == h.current + Sizes[part]
<1>1. h \in HeapType /\ h.current = Memory(h.parts) /\ h.peak >= h.current /\ Sizes[part] \in Nat
  BY SizeIsNat DEF Sound, Held
<1>2. current \in Nat
  BY <1>1 DEF HeapType
<1> HIDE DEF current
<1>3. c = [h EXCEPT !.parts = @ \cup {part}, !.current = current,
                    !.peak = IF current > @ THEN current ELSE @]
  BY DEF Calloc, current
<1> HIDE DEF c
<1>4. /\ c.parts = h.parts \cup {part} /\ c.current = current /\ c.fails = h.fails
      /\ c.peak = IF current > h.peak THEN current ELSE h.peak
  BY <1>1, <1>3 DEF HeapType
<1>5. c \in HeapType
  BY <1>1, <1>2, <1>3, <1>4 DEF HeapType
<1>6. Memory(c.parts) = current
  BY <1>1, <1>4, MemoryGrows DEF current
<1>7. c.peak >= c.current
  BY <1>1, <1>2, <1>4 DEF HeapType
<1> QED
  BY <1>4, <1>5, <1>6, <1>7 DEF Sound, Held, c

LEMMA CallocFailsIsSound ==
    ASSUME NEW h, Sound(h)
    PROVE  Sound(CallocFails(h)) /\ CallocFails(h).parts = h.parts
BY DEF Sound, CallocFails, HeapType, Held

\* Freeing what is held empties the account (cleonos_tls_free).
LEMMA FreeIsSound ==
    ASSUME NEW h, Sound(h)
    PROVE  Sound(ContextsFree(h)) /\ ContextsFree(h).parts = {}
<1> DEFINE c == ContextsFree(h)
<1>1. h \in HeapType /\ h.current = Memory(h.parts) /\ h.peak >= h.current
  BY DEF Sound, Held
<1>2. h.parts \cap Parts = h.parts /\ h.parts \ Parts = {}
  BY <1>1 DEF HeapType
<1> DEFINE gone == Memory(h.parts \cap Parts)
<1>3. gone = h.current
  BY <1>1, <1>2
<1> HIDE DEF gone
<1>4. h.current \in Nat
  BY <1>1 DEF HeapType
<1>5. gone = h.current /\ h.current \in Nat /\ h.current >= gone /\ h.current - gone = 0
  BY <1>3, <1>4
<1>6. c = [h EXCEPT !.parts = @ \ Parts, !.current = IF @ >= gone THEN @ - gone ELSE 0]
  BY DEF ContextsFree, Freed, gone
<1> HIDE DEF c
<1>7. c.parts = {} /\ c.current = 0 /\ c.peak = h.peak
  BY <1>1, <1>2, <1>5, <1>6 DEF HeapType
<1>8. c \in HeapType
  <2>1. /\ (h.parts \ Parts) \in SUBSET Parts
        /\ (IF h.current >= gone THEN h.current - gone ELSE 0) \in Nat
    BY <1>2, <1>5
  <2> QED
    BY <1>1, <1>6, <2>1 DEF HeapType
<1>9. c \in HeapType /\ c.parts = {} /\ c.current = 0 /\ c.peak = h.peak
  BY <1>7, <1>8
<1>10. c.peak >= c.current
  BY <1>1, <1>9 DEF HeapType
<1> QED
  BY <1>9, <1>10, MemoryOfNone DEF Sound, Held, c

LEMMA InitIsSound ==
    ASSUME NEW h, Sound(h)
    PROVE  Sound(HeapInit(h)) /\ HeapInit(h).parts = h.parts
<1>1. h \in HeapType /\ h.current = Memory(h.parts) /\ h.peak >= h.current
  BY DEF Sound, Held
<1>2. CASE h.current = 0
  <2> DEFINE c == [h EXCEPT !.peak = 0, !.fails = FALSE]
  <2>1. c \in HeapType /\ c.parts = h.parts /\ c.current = h.current /\ c.peak = 0
    BY <1>1 DEF HeapType
  <2>2. HeapInit(h) = c
    BY <1>2 DEF HeapInit
  <2> HIDE DEF c
  <2>3. c.current = Memory(c.parts)
    BY <1>1, <2>1
  <2>4. c.current = 0 /\ c.peak = 0
    BY <1>2, <2>1
  <2>5. c.peak >= c.current
    BY <2>4
  <2>6. Sound(c)
    BY <2>1, <2>3, <2>5 DEF Sound, Held
  <2> QED
    BY <2>1, <2>2, <2>6
<1>3. CASE h.current # 0
  BY <1>3 DEF HeapInit
<1> QED
  BY <1>2, <1>3

(***************************************************************************)
(* Types of what the steps make.                                           *)
(***************************************************************************)
LEMMA ZeroIsConnection == Zero \in Connection /\ ~Zero.active
BY DEF Zero, Connection

LEMMA DroppedIsConnection ==
    ASSUME NEW e \in Error
    PROVE  Dropped(e) \in Connection /\ ~Dropped(e).active /\ Dropped(e).error = e
BY DEF Dropped, Zero, Connection, Error

\* The error of a connection changes and nothing else does.
LEMMA ErrorIsSet ==
    ASSUME NEW c \in Connection, NEW e \in Error
    PROVE  LET d == [c EXCEPT !.error = e]
           IN  /\ d \in Connection /\ d.error = e /\ d.active = c.active
               /\ d.initialized = c.initialized
BY DEF Connection, Error

LEMMA HeapIsSound == SessionInv => Sound(heap)
BY DEF SessionInv, TypeOK, HeapInv, Sound, HeapType

(***************************************************************************)
(* The initial states.                                                     *)
(***************************************************************************)
LEMMA InitSession == Init => SessionInv
<1> SUFFICES ASSUME Init PROVE SessionInv
  OBVIOUS
<1>1. TypeOK
  <2>1. <<>> \in Seq(Byte)
    OBVIOUS
  <2>2. heap \in HeapType
    BY DEF Init, HeapType
  <2> QED
    BY <2>1, <2>2 DEF Init, TypeOK, HeapType, Byte
<1>2. StageInv
  BY DEF Init, StageInv, Open, Connecting
<1>3. HeapInv
  BY MemoryOfNone DEF Init, HeapInv, Held
<1>4. ErrorInv /\ SentInv
  BY DEF Init, ErrorInv, SentInv, Open, Connecting
<1> QED
  BY <1>1, <1>2, <1>3, <1>4 DEF SessionInv

(***************************************************************************)
(* A connect that fails leaves nothing but its error.                      *)
(***************************************************************************)
LEMMA AbortKeeps ==
    ASSUME SessionInv, stage \in Connecting, NEW e \in Error, NEW h, Sound(h), Abort(e, h)
    PROVE  SessionInv'
<1>1. /\ sock' = FALSE /\ heap' = ContextsFree(h) /\ conn' = Dropped(e) /\ stage' = "failed"
      /\ cause = None /\ cause' = e /\ sent' = sent
  BY DEF Abort, Because, SessionInv, ErrorInv, Open
<1>2. Sound(heap') /\ heap'.parts = {}
  BY <1>1, FreeIsSound
<1>3. conn' \in Connection /\ ~conn'.active /\ conn'.error = e
  BY <1>1, DroppedIsConnection
<1>4. TypeOK'
  BY <1>1, <1>2, <1>3 DEF SessionInv, TypeOK, Sound, HeapType
<1>5. StageInv'
  BY <1>1, <1>2, <1>3 DEF StageInv, Open, Connecting
<1>6. HeapInv'
  BY <1>2 DEF HeapInv, Sound, Held
<1>7. ErrorInv' /\ SentInv'
  BY <1>1, <1>3 DEF ErrorInv, SentInv, Open, Connecting
<1> QED
  BY <1>4, <1>5, <1>6, <1>7 DEF SessionInv

\* A session that fails after it was connected stays to be closed.
LEMMA FailedKeeps ==
    ASSUME SessionInv, stage \in {"writing", "reading"}, NEW e \in Errors, Failed(e)
    PROVE  SessionInv'
<1>1. conn \in Connection /\ e \in Error /\ conn.initialized /\ sock /\ cause = None
  BY DEF SessionInv, TypeOK, StageInv, ErrorInv, Open, Connecting, Error
<1>2. /\ conn' = [conn EXCEPT !.error = e] /\ stage' = "failed" /\ cause' = e
      /\ UNCHANGED <<sock, heap, sent, told>>
  BY <1>1 DEF Failed, Because
<1>3. conn' \in Connection /\ conn'.error = e /\ conn'.active = conn.active /\ conn'.initialized
  BY <1>1, <1>2, ErrorIsSet
<1>4. conn.active
  BY DEF SessionInv, StageInv, Open, Connecting
<1> QED
  BY <1>1, <1>2, <1>3, <1>4
     DEF SessionInv, TypeOK, StageInv, HeapInv, Held, ErrorInv, SentInv, Open, Connecting

(***************************************************************************)
(* Every action keeps the invariant.                                       *)
(***************************************************************************)
LEMMA NoMemoryKeeps == SessionInv /\ NoMemory => SessionInv'
BY DEF NoMemory, SessionInv, TypeOK, StageInv, HeapInv, Held, ErrorInv, SentInv

LEMMA ConnectKeeps == SessionInv /\ Connect => SessionInv'
<1> SUFFICES ASSUME SessionInv, Connect PROVE SessionInv'
  OBVIOUS
<1>1. /\ stage = "idle" /\ ~sock /\ heap.parts = {} /\ sock \in BOOLEAN
      /\ heap' = HeapInit(heap) /\ sent' = <<>> /\ told' = None
  BY DEF Connect, SessionInv, TypeOK, StageInv
<1>2. Sound(heap') /\ heap'.parts = {}
  BY <1>1, InitIsSound, HeapIsSound
<1>3. HeapInv' /\ heap' \in HeapType /\ sent' \in Seq(Byte)
  BY <1>1, <1>2 DEF HeapInv, Sound, Held
<1>4. ASSUME NEW e \in {AllocFailed, NoTcp},
             stage' = "failed", conn' = Dropped(e), cause' = e, sock' = sock
      PROVE  SessionInv'
  <2>1. conn' \in Connection /\ ~conn'.active /\ conn'.error = e
    BY <1>4, DroppedIsConnection DEF Error
  <2>2. TypeOK'
    BY <1>1, <1>3, <1>4, <2>1 DEF TypeOK, HeapType, Byte
  <2>3. StageInv' /\ ErrorInv' /\ SentInv'
    BY <1>1, <1>2, <1>4, <2>1 DEF StageInv, ErrorInv, SentInv, Open, Connecting
  <2> QED
    BY <1>3, <2>2, <2>3 DEF SessionInv
<1>5. ASSUME stage' = "seed", conn' = [Zero EXCEPT !.initialized = TRUE], cause' = None, sock' = TRUE
      PROVE  SessionInv'
  <2>1. conn' \in Connection /\ conn'.initialized /\ ~conn'.active
    BY <1>5 DEF Zero, Connection
  <2>2. TypeOK'
    BY <1>1, <1>3, <1>5, <2>1 DEF TypeOK, HeapType, Byte, Open, Connecting
  <2>3. StageInv' /\ ErrorInv' /\ SentInv'
    BY <1>1, <1>2, <1>5, <2>1 DEF StageInv, ErrorInv, SentInv, Open, Connecting, PartsAt
  <2> QED
    BY <1>3, <2>2, <2>3 DEF SessionInv
<1> QED
  BY <1>4, <1>5 DEF Connect

\* One of the steps before the handshake.
LEMMA PreparedKeeps ==
    ASSUME SessionInv, NEW from \in {"seed", "setup", "hostname"},
           NEW to \in {"setup", "hostname", "handshake"},
           PartsAt[to] = PartsAt[from] \cup {from}, from \notin PartsAt[from],
           Prepared(from, to)
    PROVE  SessionInv'
<1>1. stage = from /\ from \in Connecting /\ from \in Parts /\ Sound(heap)
  BY HeapIsSound DEF Prepared, Connecting, Parts
<1>2. ASSUME stage' = to, heap' = Calloc(heap, from),
             UNCHANGED <<conn, sock, sent, loops, cause, told, sessions>>
      PROVE  SessionInv'
  <2>1. heap.parts = PartsAt[from]
    BY <1>1 DEF SessionInv, StageInv, Open
  <2>2. Sound(heap') /\ heap'.parts = PartsAt[to]
    BY <1>1, <1>2, <2>1, CallocIsSound
  <2>3. to \in Connecting
    BY DEF Connecting
  <2>4. TypeOK'
    BY <1>1, <1>2, <2>2, <2>3
       DEF SessionInv, TypeOK, Sound, HeapType, Open, Connecting
  <2>5. StageInv'
    BY <1>1, <1>2, <2>2, <2>3 DEF SessionInv, StageInv, Open, Connecting
  <2>6. HeapInv'
    BY <2>2 DEF HeapInv, Sound, Held
  <2>7. ErrorInv' /\ SentInv'
    BY <1>1, <1>2, <2>3 DEF SessionInv, ErrorInv, SentInv, Open, Connecting
  <2> QED
    BY <2>4, <2>5, <2>6, <2>7 DEF SessionInv
<1>3. ASSUME NEW e \in Errors, Abort(e, heap)
      PROVE  SessionInv'
  BY <1>1, <1>3, AbortKeeps DEF Error
<1>4. ASSUME Abort(AllocFailed, CallocFails(heap))
      PROVE  SessionInv'
  BY <1>1, <1>4, AbortKeeps, CallocFailsIsSound DEF Error
<1> QED
  BY <1>2, <1>3, <1>4 DEF Prepared

LEMMA PreparationKeeps == SessionInv /\ (Seed \/ Setup \/ SetHostname) => SessionInv'
<1>1. /\ PartsAt["setup"] = PartsAt["seed"] \cup {"seed"} /\ "seed" \notin PartsAt["seed"]
      /\ PartsAt["hostname"] = PartsAt["setup"] \cup {"setup"} /\ "setup" \notin PartsAt["setup"]
      /\ PartsAt["handshake"] = PartsAt["hostname"] \cup {"hostname"}
      /\ "hostname" \notin PartsAt["hostname"]
  BY DEF PartsAt, Parts
<1>2. SessionInv /\ Seed => SessionInv'
  BY <1>1, PreparedKeeps DEF Seed
<1>3. SessionInv /\ Setup => SessionInv'
  BY <1>1, PreparedKeeps DEF Setup
<1>4. SessionInv /\ SetHostname => SessionInv'
  BY <1>1, PreparedKeeps DEF SetHostname
<1> QED
  BY <1>2, <1>3, <1>4

LEMMA HandshakeKeeps == SessionInv /\ (Handshake \/ HandshakeExpires) => SessionInv'
<1> SUFFICES ASSUME SessionInv, Handshake \/ HandshakeExpires PROVE SessionInv'
  OBVIOUS
<1>1. stage = "handshake" /\ stage \in Connecting /\ Sound(heap)
  BY HeapIsSound DEF Handshake, HandshakeExpires, Connecting
<1>2. ASSUME conn' = [conn EXCEPT !.active = TRUE, !.error = None], stage' = "writing",
             UNCHANGED <<sock, heap, sent, cause, told, sessions>>
      PROVE  SessionInv'
  <2>1. conn \in Connection /\ conn.initialized /\ sock /\ sent = <<>>
    BY <1>1 DEF SessionInv, TypeOK, StageInv, SentInv, Open
  <2>2. conn' \in Connection /\ conn'.active /\ conn'.initialized
    BY <1>2, <2>1 DEF Connection
  <2>3. TypeOK'
    BY <1>2, <2>2 DEF SessionInv, TypeOK, Open
  <2>4. StageInv'
    BY <1>1, <1>2, <2>1, <2>2 DEF SessionInv, StageInv, Open, Connecting, PartsAt
  <2>5. HeapInv' /\ ErrorInv'
    BY <1>1, <1>2 DEF SessionInv, HeapInv, Held, ErrorInv, Open, Connecting
  <2>6. Len(Request) \in Nat /\ Len(sent') = 0
    BY <1>2, <2>1, RequestAssumption
  <2>7. SentInv'
    BY <1>2, <2>6 DEF SentInv, Connecting
  <2> QED
    BY <2>3, <2>4, <2>5, <2>7 DEF SessionInv
<1>3. ASSUME UNCHANGED <<stage, conn, sock, heap, sent, cause, told, sessions>>
      PROVE  SessionInv'
  BY <1>3 DEF SessionInv, TypeOK, StageInv, HeapInv, Held, ErrorInv, SentInv
<1>4. ASSUME NEW e \in Errors, Abort(e, heap)
      PROVE  SessionInv'
  BY <1>1, <1>4, AbortKeeps DEF Error
<1>5. ASSUME Abort(Timeout, heap)
      PROVE  SessionInv'
  BY <1>1, <1>5, AbortKeeps DEF Error
<1> QED
  BY <1>2, <1>3, <1>4, <1>5 DEF Handshake, HandshakeExpires

\* A round of reading that does not fail, and a write, change the
\* connection's error only.
LEMMA OpenKeeps ==
    ASSUME SessionInv, stage \in {"writing", "reading"},
           NEW eof \in BOOLEAN, conn' = [conn EXCEPT !.eof = eof, !.error = None],
           stage' \in {"writing", "reading", "closing"},
           UNCHANGED <<sock, heap, cause, told, sessions>>, sent' \in Seq(Byte)
    PROVE  TypeOK' /\ StageInv' /\ HeapInv' /\ ErrorInv'
<1>1. conn \in Connection /\ conn.initialized /\ conn.active /\ sock /\ heap.parts = Parts
  BY DEF SessionInv, TypeOK, StageInv, Open, Connecting, PartsAt
<1>2. conn' \in Connection /\ conn'.initialized /\ conn'.active
  BY <1>1 DEF Connection
<1>3. TypeOK'
  BY <1>2 DEF SessionInv, TypeOK, Open, Byte
<1>4. StageInv'
  BY <1>1, <1>2 DEF StageInv, Open, Connecting, PartsAt
<1>5. HeapInv' /\ ErrorInv'
  BY DEF SessionInv, HeapInv, Held, ErrorInv, Open, Connecting
<1> QED
  BY <1>3, <1>4, <1>5

\* What is written next continues what is sent (cleonos_tls_write_all).
LEMMA PieceContinues ==
    ASSUME NEW s \in Seq(Byte), Len(s) <= Len(Request), NEW n \in 1 .. Len(Request) - Len(s),
           \A i \in 1 .. Len(s) : s[i] = Request[i],
           NEW next, next = s \o SubSeq(Request, Len(s) + 1, Len(s) + n)
    PROVE  /\ next \in Seq(Byte) /\ Len(next) = Len(s) + n /\ Len(next) <= Len(Request)
           /\ \A i \in 1 .. Len(next) : next[i] = Request[i]
<1> DEFINE piece == SubSeq(Request, Len(s) + 1, Len(s) + n)
<1>1. Request \in Seq(Byte) /\ Len(Request) \in Nat /\ Len(s) \in Nat /\ n \in Nat
  BY RequestAssumption DEF Byte
<1>2. piece \in Seq(Byte) /\ Len(piece) = n
  BY <1>1
<1>3. \A i \in 1 .. n : piece[i] = Request[Len(s) + i]
  BY <1>1
<1> HIDE DEF piece
<1>4. next = s \o piece
  BY DEF piece
<1>5. next \in Seq(Byte) /\ Len(next) = Len(s) + n
  BY <1>1, <1>2, <1>4
<1>6. \A i \in 1 .. Len(next) : next[i] = Request[i]
  <2> TAKE i \in 1 .. Len(next)
  <2>1. CASE i <= Len(s)
    <3>1. i \in 1 .. Len(s)
      BY <1>1, <1>5, <2>1
    <3>2. next[i] = s[i]
      BY ONLY <1>2, <1>4, <3>1, s \in Seq(Byte)
    <3> QED
      BY <3>1, <3>2
  <2>2. CASE i > Len(s)
    <3>1. i \in Nat /\ i - Len(s) \in 1 .. n /\ i <= Len(s) + Len(piece)
      BY <1>1, <1>2, <1>5, <2>2
    <3>2. next[i] = piece[i - Len(s)]
      BY ONLY <1>1, <1>2, <1>4, <2>2, <3>1
    <3>3. i - Len(s) \in 1 .. n /\ next[i] = piece[i - Len(s)]
      BY <3>1, <3>2
    <3> QED
      BY <1>1, <1>3, <3>3
  <2> QED
    BY <1>1, <1>5, <2>1, <2>2
<1>7. Len(next) <= Len(Request)
  BY <1>1, <1>5
<1> QED
  BY <1>5, <1>6, <1>7

LEMMA WriteAllKeeps == SessionInv /\ WriteAll => SessionInv'
<1> SUFFICES ASSUME SessionInv, WriteAll PROVE SessionInv'
  OBVIOUS
<1>1. /\ stage = "writing" /\ conn \in Connection /\ sent \in Seq(Byte) /\ Len(sent) <= Len(Request)
      /\ \A i \in 1 .. Len(sent) : sent[i] = Request[i]
  BY DEF WriteAll, SessionInv, TypeOK, SentInv, Byte
<1>2. ASSUME NEW n \in 1 .. Len(Request) - Len(sent), sent' = sent \o Piece(n),
             stage' = (IF Len(sent') = Len(Request) THEN "reading" ELSE stage),
             conn' = [conn EXCEPT !.error = None],
             UNCHANGED <<sock, heap, loops, cause, told, sessions>>
      PROVE  SessionInv'
  <2>1. /\ sent' \in Seq(Byte) /\ Len(sent') <= Len(Request)
        /\ \A i \in 1 .. Len(sent') : sent'[i] = Request[i]
    BY <1>1, <1>2, PieceContinues DEF Piece
  <2>2. conn.eof \in BOOLEAN /\ conn' = [conn EXCEPT !.eof = conn.eof, !.error = None]
    BY <1>1, <1>2 DEF Connection
  <2>3. stage' \in {"writing", "reading"}
    BY <1>1, <1>2
  <2>4. TypeOK' /\ StageInv' /\ HeapInv' /\ ErrorInv'
    BY <1>1, <1>2, <2>1, <2>2, <2>3, OpenKeeps
  <2>5. SentInv'
    BY <1>1, <1>2, <2>1, <2>3 DEF SentInv, Connecting
  <2> QED
    BY <2>4, <2>5 DEF SessionInv
<1>3. ASSUME NEW e \in Errors, Failed(e)
      PROVE  SessionInv'
  BY <1>1, <1>3, FailedKeeps
<1> QED
  BY <1>2, <1>3 DEF WriteAll

LEMMA ReadKeeps == SessionInv /\ Read => SessionInv'
<1> SUFFICES ASSUME SessionInv, Read PROVE SessionInv'
  OBVIOUS
<1>1. stage = "reading" /\ conn \in Connection /\ sent \in Seq(Byte)
  BY DEF Read, SessionInv, TypeOK, Byte
<1>2. ASSUME NEW eof \in BOOLEAN, conn' = [conn EXCEPT !.eof = eof, !.error = None],
             stage' \in {"reading", "closing"},
             UNCHANGED <<sock, heap, sent, cause, told, sessions>>
      PROVE  SessionInv'
  <2>1. TypeOK' /\ StageInv' /\ HeapInv' /\ ErrorInv'
    BY <1>1, <1>2, OpenKeeps
  <2>2. SentInv'
    BY <1>1, <1>2 DEF SessionInv, SentInv, Connecting
  <2> QED
    BY <2>1, <2>2 DEF SessionInv
<1>3. ASSUME conn' = [conn EXCEPT !.error = None], stage' \in {"reading", "closing"},
             UNCHANGED <<sock, heap, sent, cause, told, sessions>>
      PROVE  SessionInv'
  <2>1. conn.eof \in BOOLEAN /\ conn' = [conn EXCEPT !.eof = conn.eof, !.error = None]
    BY <1>1, <1>3 DEF Connection
  <2> QED
    BY <1>2, <1>3, <2>1
<1>4. ASSUME NEW e \in Errors, Failed(e)
      PROVE  SessionInv'
  BY <1>1, <1>4, FailedKeeps
<1> QED
  BY <1>1, <1>2, <1>3, <1>4 DEF Read

LEMMA TellKeeps == SessionInv /\ Tell => SessionInv'
<1> SUFFICES ASSUME SessionInv, Tell PROVE SessionInv'
  OBVIOUS
<1>1. /\ stage = "failed" /\ conn \in Connection /\ told' = cause
      /\ stage' = (IF conn.active THEN "closing" ELSE "freeing")
      /\ UNCHANGED <<conn, sock, heap, sent, cause, sessions>>
  BY DEF Tell, SessionInv, TypeOK, ErrorInv
<1>2. TypeOK' /\ HeapInv'
  BY <1>1 DEF SessionInv, TypeOK, HeapInv, Held
<1>3. StageInv'
  BY <1>1 DEF SessionInv, StageInv, Open, Connecting
<1>4. ErrorInv' /\ SentInv'
  BY <1>1 DEF ErrorInv, SentInv, Open, Connecting
<1> QED
  BY <1>2, <1>3, <1>4 DEF SessionInv

LEMMA CloseNotifyKeeps == SessionInv /\ CloseNotify => SessionInv'
BY DEF CloseNotify, SessionInv, TypeOK, StageInv, HeapInv, Held, ErrorInv, SentInv

LEMMA CloseKeeps == SessionInv /\ Close => SessionInv'
<1> SUFFICES ASSUME SessionInv, Close PROVE SessionInv'
  OBVIOUS
<1>1. /\ stage = "closing" /\ sock' = FALSE /\ heap' = ContextsFree(heap) /\ conn' = Zero
      /\ stage' = "freeing" /\ UNCHANGED <<sent, cause, told, sessions>>
  BY DEF Close
<1>2. Sound(heap') /\ heap'.parts = {}
  BY <1>1, FreeIsSound, HeapIsSound
<1>3. TypeOK'
  BY <1>1, <1>2, ZeroIsConnection DEF SessionInv, TypeOK, Sound, HeapType
<1>4. StageInv'
  BY <1>1, <1>2, ZeroIsConnection DEF StageInv, Open, Connecting
<1>5. HeapInv'
  BY <1>2 DEF HeapInv, Sound, Held
<1>6. ErrorInv' /\ SentInv'
  BY <1>1 DEF SessionInv, ErrorInv, SentInv, Open, Connecting
<1> QED
  BY <1>3, <1>4, <1>5, <1>6 DEF SessionInv

LEMMA FreeKeeps == SessionInv /\ Free => SessionInv'
<1> SUFFICES ASSUME SessionInv, Free PROVE SessionInv'
  OBVIOUS
<1>1. stage = "freeing" /\ conn' = None /\ stage' = "idle" /\ UNCHANGED <<sock, heap, sent, cause, told, sessions>>
  BY DEF Free
<1>2. TypeOK' /\ HeapInv'
  BY <1>1 DEF SessionInv, TypeOK, HeapInv, Held
<1>3. StageInv' /\ ErrorInv' /\ SentInv'
  BY <1>1 DEF SessionInv, StageInv, ErrorInv, SentInv, Open, Connecting
<1> QED
  BY <1>2, <1>3 DEF SessionInv

LEMMA NextKeeps == SessionInv /\ [Next]_vars => SessionInv'
<1> SUFFICES ASSUME SessionInv, [Next]_vars PROVE SessionInv'
  OBVIOUS
<1>1. CASE UNCHANGED vars
  BY <1>1 DEF vars, SessionInv, TypeOK, StageInv, HeapInv, Held, ErrorInv, SentInv
<1>2. CASE NoMemory
  BY <1>2, NoMemoryKeeps
<1>3. CASE Connect
  BY <1>3, ConnectKeeps
<1>4. CASE Seed \/ Setup \/ SetHostname
  BY <1>4, PreparationKeeps
<1>5. CASE Handshake \/ HandshakeExpires
  BY <1>5, HandshakeKeeps
<1>6. CASE WriteAll
  BY <1>6, WriteAllKeeps
<1>7. CASE Read
  BY <1>7, ReadKeeps
<1>8. CASE Tell
  BY <1>8, TellKeeps
<1>9. CASE CloseNotify
  BY <1>9, CloseNotifyKeeps
<1>10. CASE Close
  BY <1>10, CloseKeeps
<1>11. CASE Free
  BY <1>11, FreeKeeps
<1> QED
  BY <1>1, <1>2, <1>3, <1>4, <1>5, <1>6, <1>7, <1>8, <1>9, <1>10, <1>11 DEF Next

(***************************************************************************)
(* The theorems.                                                           *)
(***************************************************************************)
\* At every stage of a session its connection, the parts of its contexts, the
\* account of their memory, its error and what it has sent are what that stage
\* leaves behind (cleonos_tls_connect_deadline to cleonos_tls_close).
THEOREM SessionIsSound == Spec => []SessionInv
BY InitSession, NextKeeps, PTL DEF Spec

LEMMA InvIsClean == SessionInv => SessionIsClean
<1> SUFFICES ASSUME SessionInv PROVE SessionIsClean
  OBVIOUS
<1>1. stage = "idle" => ~sock /\ heap.parts = {} /\ conn = None
  BY DEF SessionInv, TypeOK, StageInv
<1>2. heap.current = Held(heap) /\ heap.peak >= heap.current
  BY DEF SessionInv, HeapInv
<1>3. conn # None /\ conn.active => conn.initialized /\ sock
  BY DEF SessionInv, TypeOK, StageInv, Open, Connecting
<1>4. stage \in {"closing", "freeing", "idle"} /\ cause # None => told = cause
  BY DEF SessionInv, ErrorInv
<1>5. stage = "reading" => sent = Request
  <2>1. sent \in Seq(Byte) /\ Request \in Seq(Byte)
    BY RequestAssumption DEF SessionInv, TypeOK, Byte
  <2>2. ASSUME stage = "reading"
        PROVE  Len(sent) = Len(Request) /\ \A i \in 1 .. Len(sent) : sent[i] = Request[i]
    BY <2>2 DEF SessionInv, SentInv
  <2> QED
    BY <2>1, <2>2
<1> QED
  BY <1>1, <1>2, <1>3, <1>4, <1>5 DEF SessionIsClean

\* However a session ends, at whichever call, nothing of it is left when the
\* next one starts, the account of the memory is right all the time, the
\* program is told the first error, and an answer is waited for only when the
\* whole request has gone out (cleonos_tls_abort_connect, cleonos_tls_write_all,
\* cleonos_tls_close).
THEOREM NothingIsLeftBehind == Spec => []SessionIsClean
BY SessionIsSound, InvIsClean, PTL

----------------------------------------------------------------------------
(* Browsing: runs, functions that take one step of a list after another. *)

\* A non-empty set of numbers has a least one.
LEMMA LeastNumber ==
  ASSUME NEW T \in SUBSET Nat, T # {}
  PROVE  \E n \in T : \A m \in T : n <= m
<1>1. PICK n \in T : \A m \in T : ~(<<m, n>> \in OpToRel(<, Nat))
  BY WFMin, NatLessThanWellFounded
<1>2. \A m \in T : ~(m < n)
  BY <1>1 DEF OpToRel
<1>. QED
  BY <1>2

\* What holds at 0, and at k if it does at k - 1, holds up to n.
LEMMA Climbs ==
  ASSUME NEW n \in Nat, NEW Good, 0 \in Good, \A k \in 1 .. n : k - 1 \in Good => k \in Good
  PROVE  \A k \in 0 .. n : k \in Good
<1>. DEFINE Wrong == {k \in 0 .. n : k \notin Good}
<1>1. SUFFICES ASSUME Wrong # {} PROVE FALSE
  OBVIOUS
<1>2. PICK m \in Wrong : \A k \in Wrong : m <= k
  <2>1. Wrong \in SUBSET Nat
    OBVIOUS
  <2>. HIDE DEF Wrong
  <2>. QED
    BY <1>1, <2>1, LeastNumber
<1>3. m \in 1 .. n /\ m - 1 \in 0 .. n
  BY <1>2
<1>4. m - 1 \notin Wrong
  <2>. HIDE DEF Wrong
  <2>. QED
    BY <1>2, <1>3
<1>. QED
  BY <1>2, <1>3, <1>4

\* f starts at e and takes the steps 1 to n.
IsRun(f, e, step, n) ==
    f[0] = e /\ \A i \in 1 .. n : f[i] = step[i][f[i - 1]]

\* There is a run of every list of steps.
LEMMA RunExists ==
  ASSUME NEW S, NEW e \in S, NEW n \in Nat, NEW step \in [1 .. n -> [S -> S]]
  PROVE  \E f \in [0 .. n -> S] : IsRun(f, e, step, n)
<1>. DEFINE Good == {m \in Nat : m <= n => \E f \in [0 .. m -> S] : IsRun(f, e, step, m)}
<1>1. 0 \in Good
  <2>1. IsRun([i \in 0 .. 0 |-> e], e, step, 0)
    BY DEF IsRun
  <2>. QED
    BY <2>1
<1>2. ASSUME NEW m \in 1 .. n, m - 1 \in Good
      PROVE  m \in Good
  <2>1. m \in Nat /\ m <= n /\ m - 1 \in Nat
    OBVIOUS
  <2>2. PICK g \in [0 .. m - 1 -> S] : IsRun(g, e, step, m - 1)
    BY <1>2, <2>1
  <2>. DEFINE h == [i \in 0 .. m |-> IF i < m THEN g[i] ELSE step[m][g[m - 1]]]
  <2>3. m \in 1 .. n /\ m - 1 \in 0 .. m - 1 /\ m \in 0 .. m /\ 0 \in 0 .. m - 1 /\ 0 \in 0 .. m
    BY <2>1
  <2>4. h \in [0 .. m -> S]
    <3>1. step[m][g[m - 1]] \in S
      BY <2>2, <2>3
    <3>2. \A i \in 0 .. m : i < m => g[i] \in S
      BY <2>1, <2>2
    <3>. QED
      BY <3>1, <3>2
  <2>5. h[0] = e
    BY <2>1, <2>2, <2>3 DEF IsRun
  <2>6. \A i \in 1 .. m : h[i] = step[i][h[i - 1]]
    <3>. TAKE i \in 1 .. m
    <3>1. i \in 0 .. m /\ i - 1 \in 0 .. m /\ i - 1 < m
      BY <2>1
    <3>2. h[i - 1] = g[i - 1]
      BY <3>1
    <3>3. CASE i = m
      BY <2>1, <3>1, <3>2, <3>3
    <3>4. CASE i < m
      <4>1. i \in 1 .. m - 1
        BY <2>1, <3>4
      <4>. QED
        BY <2>2, <3>1, <3>2, <3>4, <4>1 DEF IsRun
    <3>. QED
      BY <2>1, <3>3, <3>4
  <2>7. IsRun(h, e, step, m)
    <3>. HIDE DEF h
    <3>. QED
      BY <2>5, <2>6 DEF IsRun
  <2>. QED
    BY <2>1, <2>4, <2>7
<1>3. \A m \in 0 .. n : m \in Good
  <2>. HIDE DEF Good
  <2>. QED
    BY <1>1, <1>2, Climbs
<1>. QED
  BY <1>3

----------------------------------------------------------------------------
(* Forms: what a server decodes is what was encoded. *)

Sent == Letters \cup Reserved
Item == {<<c>> : c \in Sent \cup {" "}} \cup {<<"between", c>> : c \in Sent}
Reading == [out : Seq(Item), skip : 0 .. 2]
Body == [ok : BOOLEAN, text : Seq(Sent)]

\* What one character does, by the characters still to be skipped.
LEMMA ReadNextIs ==
  ASSUME NEW read, NEW ch
  PROVE  /\ read.skip = 2 => ReadNext(read, ch) = [out |-> Append(read.out, <<ch>>), skip |-> 1]
         /\ read.skip = 1 => ReadNext(read, ch) = [out |-> read.out, skip |-> 0]
         /\ read.skip = 0 =>
              /\ ch = "%" => ReadNext(read, ch) = [out |-> read.out, skip |-> 2]
              /\ ch = "+" => ReadNext(read, ch) = [out |-> Append(read.out, <<" ">>), skip |-> 0]
              /\ ch \in {"&", "="} =>
                   ReadNext(read, ch) = [out |-> Append(read.out, <<"between", ch>>), skip |-> 0]
              /\ ch \notin {"%", "+", "&", "="} =>
                   ReadNext(read, ch) = [out |-> Append(read.out, <<ch>>), skip |-> 0]
<1>1. ASSUME read.skip = 0
      PROVE  /\ ch = "%" => ReadNext(read, ch) = [out |-> read.out, skip |-> 2]
             /\ ch = "+" => ReadNext(read, ch) = [out |-> Append(read.out, <<" ">>), skip |-> 0]
             /\ ch \in {"&", "="} =>
                  ReadNext(read, ch) = [out |-> Append(read.out, <<"between", ch>>), skip |-> 0]
             /\ ch \notin {"%", "+", "&", "="} =>
                  ReadNext(read, ch) = [out |-> Append(read.out, <<ch>>), skip |-> 0]
  <2>. DEFINE item == IF ch = "+" THEN <<" ">> ELSE IF ch \in {"&", "="} THEN <<"between", ch>> ELSE <<ch>>
  <2>1. ch # "%" => ReadNext(read, ch) = [out |-> Append(read.out, item), skip |-> 0]
    BY <1>1 DEF ReadNext
  <2>2. ch = "%" => ReadNext(read, ch) = [out |-> read.out, skip |-> 2]
    BY <1>1 DEF ReadNext
  <2>3. /\ ch = "+" => item = <<" ">>
        /\ ch \in {"&", "="} => item = <<"between", ch>>
        /\ ch \notin {"%", "+", "&", "="} => item = <<ch>>
    OBVIOUS
  <2>. HIDE DEF item
  <2>4. ch = "+" => ReadNext(read, ch) = [out |-> Append(read.out, <<" ">>), skip |-> 0]
    BY <2>1, <2>3
  <2>5. ch \in {"&", "="} => ReadNext(read, ch) = [out |-> Append(read.out, <<"between", ch>>), skip |-> 0]
    BY <2>1, <2>3
  <2>6. ch \notin {"%", "+", "&", "="} =>
            ReadNext(read, ch) = [out |-> Append(read.out, <<ch>>), skip |-> 0]
    BY <2>1, <2>3
  <2>. QED
    BY <2>2, <2>4, <2>5, <2>6
<1>2. read.skip = 2 => ReadNext(read, ch) = [out |-> Append(read.out, <<ch>>), skip |-> 1]
  BY DEF ReadNext
<1>3. read.skip = 1 => ReadNext(read, ch) = [out |-> read.out, skip |-> 0]
  BY DEF ReadNext
<1>. QED
  BY <1>1, <1>2, <1>3

LEMMA ReadingGoesOn ==
  ASSUME NEW read \in Reading, NEW ch \in Sent
  PROVE  ReadNext(read, ch) \in Reading
<1>1. read.out \in Seq(Item) /\ read.skip \in {0, 1, 2}
  BY DEF Reading
<1>2. <<ch>> \in Item /\ <<" ">> \in Item /\ <<"between", ch>> \in Item
  BY DEF Item
<1>3. /\ Append(read.out, <<ch>>) \in Seq(Item) /\ Append(read.out, <<" ">>) \in Seq(Item)
      /\ Append(read.out, <<"between", ch>>) \in Seq(Item)
  BY <1>1, <1>2, AppendProperties
<1>4. \E p \in Seq(Item), m \in {0, 1, 2} : ReadNext(read, ch) = [out |-> p, skip |-> m]
  BY <1>1, <1>3, ReadNextIs
<1>. QED
  BY <1>4 DEF Reading

\* r reads the text from its beginning.
Reads(r, text) ==
    /\ r[0] = [out |-> <<>>, skip |-> 0]
    /\ \A k \in 1 .. Len(text) : r[k] = ReadNext(r[k - 1], text[k])

LEMMA DecodedReads ==
  ASSUME NEW text \in Seq(Sent)
  PROVE  \E r \in [0 .. Len(text) -> Reading] : Reads(r, text) /\ Decoded(text) = r[Len(text)]
<1>. DEFINE n == Len(text)
            e == [out |-> <<>>, skip |-> 0]
            step == [k \in 1 .. n |-> [read \in Reading |-> ReadNext(read, text[k])]]
            IsIt(r) == r = [k \in 0 .. n |-> IF k = 0 THEN e ELSE ReadNext(r[k - 1], text[k])]
<1>1. n \in Nat /\ \A k \in 1 .. n : text[k] \in Sent
  OBVIOUS
<1>2. e \in Reading
  BY DEF Reading
<1>3. step \in [1 .. n -> [Reading -> Reading]]
  BY <1>1, ReadingGoesOn
<1>4. PICK f \in [0 .. n -> Reading] : IsRun(f, e, step, n)
  <2>. HIDE DEF e, n, step
  <2>. QED
    BY <1>1, <1>2, <1>3, RunExists
<1>5. IsIt(f)
  <2>1. ASSUME NEW k \in 0 .. n PROVE f[k] = IF k = 0 THEN e ELSE ReadNext(f[k - 1], text[k])
    <3>1. k # 0 => k \in 1 .. n /\ k - 1 \in 0 .. n
      BY <1>1
    <3>. HIDE DEF e, n
    <3>. QED
      BY <1>4, <3>1 DEF IsRun
  <2>. HIDE DEF e, n
  <2>. QED
    BY <1>4, <2>1
<1>6. PICK r : IsIt(r) /\ Decoded(text) = r[n]
  <2>1. Decoded(text) = (CHOOSE r : IsIt(r))[n]
    BY DEF Decoded
  <2>. HIDE DEF IsIt
  <2>. QED
    BY <1>5, <2>1
<1>. HIDE DEF n
<1>7. r = [k \in 0 .. n |-> r[k]]
  BY <1>6
<1>8. \A k \in 0 .. n : r[k] = IF k = 0 THEN e ELSE ReadNext(r[k - 1], text[k])
  <2>. TAKE k \in 0 .. n
  <2>. HIDE DEF e
  <2>. QED
    BY <1>6
<1>9. r[0] = e /\ \A k \in 1 .. n : r[k] = ReadNext(r[k - 1], text[k])
  <2>1. 0 \in 0 .. n /\ \A k \in 1 .. n : k \in 0 .. n /\ k # 0
    BY <1>1
  <2>. HIDE DEF e
  <2>. QED
    BY <1>8, <2>1
<1>10. \A k \in 0 .. n : r[k] \in Reading
  <2>. DEFINE Good == {k \in 0 .. n : r[k] \in Reading}
  <2>1. 0 \in Good
    BY <1>1, <1>2, <1>9
  <2>2. \A k \in 1 .. n : k - 1 \in Good => k \in Good
    <3>. HIDE DEF e
    <3>. QED
      BY <1>1, <1>9, ReadingGoesOn
  <2>. HIDE DEF Good
  <2>3. \A k \in 0 .. n : k \in Good
    BY <1>1, <2>1, <2>2, Climbs
  <2>. QED
    BY <2>3 DEF Good
<1>11. r \in [0 .. n -> Reading]
  BY <1>7, <1>10
<1>. QED
  BY <1>6, <1>9, <1>11 DEF Reads, n

LEMMA DecodedType ==
  ASSUME NEW text \in Seq(Sent)
  PROVE  Decoded(text) \in Reading
<1>1. Len(text) \in 0 .. Len(text)
  OBVIOUS
<1>. QED
  BY <1>1, DecodedReads

LEMMA DecodedNone == Decoded(<<>>) = [out |-> <<>>, skip |-> 0]
<1>1. <<>> \in Seq(Sent) /\ Len(<<>>) = 0
  OBVIOUS
<1>. QED
  BY <1>1, DecodedReads DEF Reads

\* One more character is one more step.
LEMMA DecodedNext ==
  ASSUME NEW text \in Seq(Sent), NEW ch \in Sent
  PROVE  Append(text, ch) \in Seq(Sent) /\ Decoded(Append(text, ch)) = ReadNext(Decoded(text), ch)
<1>. DEFINE more == Append(text, ch)
            n == Len(text)
<1>1. /\ n \in Nat /\ more \in Seq(Sent) /\ Len(more) = n + 1
      /\ more[n + 1] = ch /\ \A k \in 1 .. n : more[k] = text[k]
  BY AppendProperties
<1>. HIDE DEF more
<1>2. PICK r : Reads(r, text) /\ Decoded(text) = r[n]
  BY DecodedReads
<1>3. PICK s : Reads(s, more) /\ Decoded(more) = s[n + 1]
  BY <1>1, DecodedReads
<1>. HIDE DEF n
<1>4. /\ r[0] = [out |-> <<>>, skip |-> 0] /\ s[0] = [out |-> <<>>, skip |-> 0]
      /\ \A k \in 1 .. n : r[k] = ReadNext(r[k - 1], text[k])
      /\ \A k \in 1 .. n + 1 : s[k] = ReadNext(s[k - 1], more[k])
  BY <1>1, <1>2, <1>3 DEF Reads, n
<1>5. \A k \in 0 .. n : r[k] = s[k]
  <2>. DEFINE Good == {k \in 0 .. n : r[k] = s[k]}
  <2>1. 0 \in Good
    BY <1>1, <1>4
  <2>2. \A k \in 1 .. n : k - 1 \in Good => k \in Good
    <3>. TAKE k \in 1 .. n
    <3>1. k \in 1 .. n + 1 /\ k \in 0 .. n
      BY <1>1
    <3>. QED
      BY <1>1, <1>4, <3>1
  <2>. HIDE DEF Good
  <2>3. \A k \in 0 .. n : k \in Good
    BY <1>1, <2>1, <2>2, Climbs
  <2>. QED
    BY <2>3 DEF Good
<1>6. n + 1 \in 1 .. n + 1 /\ (n + 1) - 1 = n /\ n \in 0 .. n
  BY <1>1
<1>7. s[n + 1] = ReadNext(s[n], ch)
  BY <1>1, <1>4, <1>6
<1>. QED
  BY <1>1, <1>2, <1>3, <1>5, <1>6, <1>7 DEF more

\* A letter that was encoded is read as itself (ush_browser_url_encode).
LEMMA LetterIsRead ==
  ASSUME NEW text \in Seq(Sent), Decoded(text).skip = 0, NEW ch \in Letters
  PROVE  /\ UrlEncoded(ch) \in Seq(Sent) /\ text \o UrlEncoded(ch) \in Seq(Sent)
         /\ Decoded(text \o UrlEncoded(ch)) = [out |-> Append(Decoded(text).out, <<ch>>), skip |-> 0]
<1>1. /\ Decoded(text) = [out |-> Decoded(text).out, skip |-> 0] /\ Decoded(text).out \in Seq(Item)
      /\ ch \in Sent /\ "+" \in Sent /\ "%" \in Sent
  BY DecodedType DEF Reading, Sent, Reserved
<1>2. CASE ch = " "
  <2>1. UrlEncoded(ch) = <<"+">>
    BY <1>2 DEF UrlEncoded
  <2>2. text \o <<"+">> = Append(text, "+")
    BY <1>1
  <2>3. Decoded(Append(text, "+")) = ReadNext(Decoded(text), "+") /\ Append(text, "+") \in Seq(Sent)
    BY <1>1, DecodedNext
  <2>4. ReadNext(Decoded(text), "+") = [out |-> Append(Decoded(text).out, <<" ">>), skip |-> 0]
    BY <1>1, ReadNextIs
  <2>5. <<"+">> \in Seq(Sent)
    BY <1>1
  <2>6. Decoded(Append(text, "+")) = [out |-> Append(Decoded(text).out, <<ch>>), skip |-> 0]
    BY <1>2, <2>3, <2>4
  <2>. QED
    BY <2>1, <2>2, <2>3, <2>5, <2>6
<1>3. CASE ch # " " /\ ch \in Reserved
  <2>. DEFINE one == Append(text, "%")
              two == Append(one, ch)
              three == Append(two, ch)
              items == Append(Decoded(text).out, <<ch>>)
  <2>1. UrlEncoded(ch) = <<"%", ch, ch>>
    BY <1>3 DEF UrlEncoded
  <2>2. one \in Seq(Sent) /\ Decoded(one) = ReadNext(Decoded(text), "%")
    BY <1>1, DecodedNext
  <2>3. two \in Seq(Sent) /\ Decoded(two) = ReadNext(Decoded(one), ch)
    <3>. HIDE DEF one
    <3>. QED
      BY <1>1, <2>2, DecodedNext
  <2>4. three \in Seq(Sent) /\ Decoded(three) = ReadNext(Decoded(two), ch)
    <3>. HIDE DEF two
    <3>. QED
      BY <1>1, <2>3, DecodedNext
  <2>5. text \o <<"%", ch, ch>> = three
    <3>1. <<"%", ch, ch>> \in Seq(Sent) /\ Len(<<"%", ch, ch>>) = 3
      BY <1>1
    <3>2. text \o <<"%", ch, ch>> \in Seq(Sent) /\ Len(text \o <<"%", ch, ch>>) = Len(text) + 3
      BY <3>1
    <3>3. Len(three) = Len(text) + 3
      BY <2>2, <2>3, <2>4
    <3>4. \A i \in 1 .. Len(text) + 3 : (text \o <<"%", ch, ch>>)[i] = three[i]
      BY <1>1, <2>2, <2>3, <2>4
    <3>. HIDE DEF three
    <3>. QED
      BY <2>4, <3>2, <3>3, <3>4, SeqEqual
  <2>. HIDE DEF one, two, three, items
  <2>6. Decoded(one) = [out |-> Decoded(text).out, skip |-> 2]
    <3>1. ReadNext(Decoded(text), "%") = [out |-> Decoded(text).out, skip |-> 2]
      BY ReadNextIs
    <3>. QED
      BY <2>2, <3>1
  <2>7. Decoded(two) = [out |-> items, skip |-> 1]
    <3>1. Decoded(one).out = Decoded(text).out /\ Decoded(one).skip = 2
      BY <2>6
    <3>2. ReadNext(Decoded(one), ch) = [out |-> Append(Decoded(one).out, <<ch>>), skip |-> 1]
      BY <3>1, ReadNextIs
    <3>. QED
      BY <2>3, <3>1, <3>2 DEF items
  <2>8. Decoded(three) = [out |-> items, skip |-> 0]
    <3>1. Decoded(two).out = items /\ Decoded(two).skip = 1
      BY <2>7
    <3>2. ReadNext(Decoded(two), ch) = [out |-> Decoded(two).out, skip |-> 0]
      BY <3>1, ReadNextIs
    <3>. QED
      BY <2>4, <3>1, <3>2
  <2>9. <<"%", ch, ch>> \in Seq(Sent)
    BY <1>1
  <2>. QED
    BY <2>1, <2>4, <2>5, <2>8, <2>9 DEF items
<1>4. CASE ch # " " /\ ch \notin Reserved
  <2>1. UrlEncoded(ch) = <<ch>>
    BY <1>4 DEF UrlEncoded
  <2>2. text \o <<ch>> = Append(text, ch)
    BY <1>1
  <2>3. Decoded(Append(text, ch)) = ReadNext(Decoded(text), ch) /\ Append(text, ch) \in Seq(Sent)
    BY <1>1, DecodedNext
  <2>4. ReadNext(Decoded(text), ch) = [out |-> Append(Decoded(text).out, <<ch>>), skip |-> 0]
    BY <1>1, <1>4, ReadNextIs DEF Reserved
  <2>5. <<ch>> \in Seq(Sent)
    BY <1>1
  <2>. QED
    BY <2>1, <2>2, <2>3, <2>4, <2>5
<1>. QED
  BY <1>2, <1>3, <1>4

\* What a server reads from a body that is not refused.
Says(body, items) == body.ok => Decoded(body.text) = [out |-> items, skip |-> 0]

LEMMA PutIs ==
  ASSUME NEW body \in Body, NEW chars \in Seq(Sent)
  PROVE  /\ Put(body, chars) \in Body
         /\ Put(body, chars).ok => body.ok /\ Put(body, chars).text = body.text \o chars
                                   /\ Len(Put(body, chars).text) = Len(body.text) + Len(chars)
<1>1. body.ok \in BOOLEAN /\ body.text \in Seq(Sent) /\ body = [ok |-> body.ok, text |-> body.text]
  BY DEF Body
<1>2. body.text \o chars \in Seq(Sent) /\ Len(body.text \o chars) = Len(body.text) + Len(chars)
  BY <1>1
<1>3. CASE body.ok /\ Len(body.text) + Len(chars) < BodyMax
  <2>1. Put(body, chars) = [ok |-> TRUE, text |-> body.text \o chars]
    BY <1>1, <1>3 DEF Put
  <2>. QED
    BY <1>2, <1>3, <2>1 DEF Body
<1>4. CASE ~(body.ok /\ Len(body.text) + Len(chars) < BodyMax)
  <2>1. Put(body, chars) = [ok |-> FALSE, text |-> body.text]
    BY <1>1, <1>4 DEF Put
  <2>. QED
    BY <1>1, <2>1 DEF Body
<1>. QED
  BY <1>3, <1>4

\* The letters of a text as a server reads them.
LEMMA CharsAre ==
  ASSUME NEW text \in Seq(Letters)
  PROVE  /\ Chars(text) \in Seq(Item) /\ Len(Chars(text)) = Len(text)
         /\ \A k \in 1 .. Len(text) : Chars(text)[k] = <<text[k]>>
<1>1. \A k \in 1 .. Len(text) : text[k] \in Letters
  OBVIOUS
<1>2. \A k \in 1 .. Len(text) : <<text[k]>> \in Item
  BY <1>1 DEF Item, Sent
<1>3. Chars(text) = [k \in 1 .. Len(text) |-> <<text[k]>>]
  BY DEF Chars
<1>. QED
  BY <1>2, <1>3

LEMMA OneMoreItem ==
  ASSUME NEW items \in Seq(Item), NEW chars \in Seq(Item), NEW k \in 1 .. Len(chars)
  PROVE  items \o SubSeq(chars, 1, k) = Append(items \o SubSeq(chars, 1, k - 1), chars[k])
<1>1. SubSeq(chars, 1, k - 1) \in Seq(Item) /\ SubSeq(chars, 1, k) \in Seq(Item) /\ chars[k] \in Item
  OBVIOUS
<1>2. SubSeq(chars, 1, k) = Append(SubSeq(chars, 1, k - 1), chars[k])
  OBVIOUS
<1>3. Append(SubSeq(chars, 1, k - 1), chars[k]) = SubSeq(chars, 1, k - 1) \o <<chars[k]>>
  BY <1>1, AppendIsConcat
<1>4. items \o SubSeq(chars, 1, k - 1) \in Seq(Item)
  BY <1>1
<1>5. Append(items \o SubSeq(chars, 1, k - 1), chars[k]) = (items \o SubSeq(chars, 1, k - 1)) \o <<chars[k]>>
  BY <1>1, <1>4, AppendIsConcat
<1>6. <<chars[k]>> \in Seq(Item)
  BY <1>1
<1>. QED
  BY <1>1, <1>2, <1>3, <1>5, <1>6, ConcatAssociative

\* e puts the letters of a text, one after the other.
Encodes(e, body, text) ==
    e[0] = body /\ \A k \in 1 .. Len(text) : e[k] = Put(e[k - 1], UrlEncoded(text[k]))

LEMMA UrlEncodedType ==
  ASSUME NEW ch \in Letters
  PROVE  UrlEncoded(ch) \in Seq(Sent)
<1>1. ch \in Sent /\ "+" \in Sent /\ "%" \in Sent
  BY DEF Sent, Reserved
<1>2. <<"+">> \in Seq(Sent) /\ <<"%", ch, ch>> \in Seq(Sent) /\ <<ch>> \in Seq(Sent)
  BY <1>1
<1>. QED
  BY <1>2 DEF UrlEncoded

LEMMA PutEncodedEncodes ==
  ASSUME NEW body \in Body, NEW text \in Seq(Letters)
  PROVE  \E e \in [0 .. Len(text) -> Body] : Encodes(e, body, text) /\ PutEncoded(body, text) = e[Len(text)]
<1>. DEFINE n == Len(text)
            step == [k \in 1 .. n |-> [b \in Body |-> Put(b, UrlEncoded(text[k]))]]
            IsIt(r) == r = [k \in 0 .. n |-> IF k = 0 THEN body ELSE Put(r[k - 1], UrlEncoded(text[k]))]
<1>1. n \in Nat /\ \A k \in 1 .. n : text[k] \in Letters
  OBVIOUS
<1>2. \A k \in 1 .. n, b \in Body : Put(b, UrlEncoded(text[k])) \in Body
  BY <1>1, UrlEncodedType, PutIs
<1>3. step \in [1 .. n -> [Body -> Body]]
  BY <1>2
<1>4. PICK f \in [0 .. n -> Body] : IsRun(f, body, step, n)
  <2>. HIDE DEF n, step
  <2>. QED
    BY <1>1, <1>3, RunExists
<1>5. IsIt(f)
  <2>1. ASSUME NEW k \in 0 .. n PROVE f[k] = IF k = 0 THEN body ELSE Put(f[k - 1], UrlEncoded(text[k]))
    <3>1. k # 0 => k \in 1 .. n /\ k - 1 \in 0 .. n
      BY <1>1
    <3>. HIDE DEF n
    <3>. QED
      BY <1>4, <3>1 DEF IsRun
  <2>. HIDE DEF n
  <2>. QED
    BY <1>4, <2>1
<1>6. PICK r : IsIt(r) /\ PutEncoded(body, text) = r[n]
  <2>1. PutEncoded(body, text) = (CHOOSE r : IsIt(r))[n]
    BY DEF PutEncoded
  <2>. HIDE DEF IsIt
  <2>. QED
    BY <1>5, <2>1
<1>. HIDE DEF n
<1>7. r = [k \in 0 .. n |-> r[k]]
  BY <1>6
<1>8. ASSUME NEW k \in 0 .. n PROVE r[k] = IF k = 0 THEN body ELSE Put(r[k - 1], UrlEncoded(text[k]))
  BY <1>6
<1>9. r[0] = body /\ \A k \in 1 .. n : r[k] = Put(r[k - 1], UrlEncoded(text[k]))
  <2>1. 0 \in 0 .. n /\ \A k \in 1 .. n : k \in 0 .. n /\ k # 0
    BY <1>1
  <2>. QED
    BY <1>8, <2>1
<1>10. \A k \in 0 .. n : r[k] \in Body
  <2>. DEFINE Good == {k \in 0 .. n : r[k] \in Body}
  <2>1. 0 \in Good
    BY <1>1, <1>9
  <2>2. \A k \in 1 .. n : k - 1 \in Good => k \in Good
    BY <1>1, <1>2, <1>9
  <2>. HIDE DEF Good
  <2>3. \A k \in 0 .. n : k \in Good
    BY <1>1, <2>1, <2>2, Climbs
  <2>. QED
    BY <2>3 DEF Good
<1>11. r \in [0 .. n -> Body]
  BY <1>7, <1>10
<1>. QED
  BY <1>6, <1>9, <1>11 DEF Encodes, n

LEMMA EncodedIsRead ==
  ASSUME NEW body \in Body, NEW text \in Seq(Letters), NEW items \in Seq(Item), Says(body, items)
  PROVE  /\ PutEncoded(body, text) \in Body
         /\ PutEncoded(body, text).ok => body.ok /\ Len(PutEncoded(body, text).text) >= Len(body.text)
         /\ items \o Chars(text) \in Seq(Item)
         /\ Says(PutEncoded(body, text), items \o Chars(text))
<1>. DEFINE n == Len(text)
            chars == Chars(text)
            So(k) == items \o SubSeq(chars, 1, k)
<1>1. n \in Nat /\ (\A k \in 1 .. n : text[k] \in Letters) /\ n \in 0 .. n
  OBVIOUS
<1>2. chars \in Seq(Item) /\ Len(chars) = n /\ \A k \in 1 .. n : chars[k] = <<text[k]>>
  BY CharsAre
<1>3. PICK e \in [0 .. n -> Body] : Encodes(e, body, text) /\ PutEncoded(body, text) = e[n]
  BY PutEncodedEncodes
<1>4. e[0] = body /\ \A k \in 1 .. n : e[k] = Put(e[k - 1], UrlEncoded(text[k]))
  BY <1>3 DEF Encodes
<1>. HIDE DEF n, chars
<1>. DEFINE Good == {k \in 0 .. n : /\ e[k].ok => body.ok /\ Len(e[k].text) >= Len(body.text)
                                    /\ Says(e[k], So(k))}
<1>5. So(0) = items
  <2>1. SubSeq(chars, 1, 0) = <<>>
    BY <1>2, SubSeqEmpty
  <2>. QED
    BY <2>1, ConcatEmptySeq
<1>6. 0 \in Good
  <2>1. Len(body.text) >= Len(body.text)
    BY DEF Body
  <2>. HIDE DEF So
  <2>. QED
    BY <1>1, <1>4, <1>5, <2>1
<1>7. ASSUME NEW k \in 1 .. n, k - 1 \in Good
      PROVE  k \in Good
  <2>1. k \in 0 .. n /\ k - 1 \in 0 .. n /\ text[k] \in Letters
    BY <1>1
  <2>. DEFINE b == e[k - 1]
              put == UrlEncoded(text[k])
  <2>2. b \in Body /\ (b.ok => body.ok /\ Len(b.text) >= Len(body.text)) /\ Says(b, So(k - 1))
    BY <1>3, <1>7, <2>1
  <2>3. e[k] = Put(b, put) /\ put \in Seq(Sent)
    BY <1>4, <2>1, UrlEncodedType
  <2>. HIDE DEF b, put, So
  <2>4. SUFFICES ASSUME e[k].ok
                 PROVE  /\ body.ok /\ Len(e[k].text) >= Len(body.text)
                        /\ Decoded(e[k].text) = [out |-> So(k), skip |-> 0]
    BY <2>1 DEF Says
  <2>5. b.ok /\ e[k].text = b.text \o put /\ Len(e[k].text) = Len(b.text) + Len(put)
    BY <2>2, <2>3, <2>4, PutIs
  <2>6. b.text \in Seq(Sent) /\ body.text \in Seq(Sent)
    BY <2>2 DEF Body
  <2>7. Decoded(b.text) = [out |-> So(k - 1), skip |-> 0]
    BY <2>2, <2>5 DEF Says
  <2>8. Decoded(b.text).skip = 0 /\ Decoded(b.text).out = So(k - 1)
    BY <2>7
  <2>9. Decoded(e[k].text) = [out |-> Append(So(k - 1), <<text[k]>>), skip |-> 0]
    <3>1. Decoded(b.text \o put) = [out |-> Append(Decoded(b.text).out, <<text[k]>>), skip |-> 0]
      BY <2>1, <2>6, <2>8, LetterIsRead DEF put
    <3>. QED
      BY <2>5, <2>8, <3>1
  <2>10. So(k) = Append(So(k - 1), <<text[k]>>)
    BY <1>2, OneMoreItem DEF So
  <2>11. Len(e[k].text) >= Len(body.text)
    BY <2>2, <2>3, <2>5, <2>6
  <2>. QED
    BY <2>2, <2>5, <2>9, <2>10, <2>11
<1>8. n \in Good
  <2>. HIDE DEF Good
  <2>. QED
    BY <1>1, <1>6, <1>7, Climbs
<1>9. So(n) = items \o chars
  <2>1. SubSeq(chars, 1, Len(chars)) = chars
    BY <1>2, SubSeqFull
  <2>. QED
    BY <1>2, <2>1
<1>10. items \o chars \in Seq(Item)
  BY <1>2
<1>11. e[n] \in Body
  BY <1>1, <1>3
<1>. HIDE DEF So
<1>. QED
  BY <1>3, <1>8, <1>9, <1>10, <1>11 DEF chars

\* A separator is read as one.
LEMMA SeparatorIsRead ==
  ASSUME NEW body \in Body, NEW items \in Seq(Item), Says(body, items), NEW ch \in {"&", "="}
  PROVE  /\ Put(body, <<ch>>) \in Body
         /\ Put(body, <<ch>>).ok => body.ok /\ Len(Put(body, <<ch>>).text) = Len(body.text) + 1
         /\ items \o <<<<"between", ch>>>> \in Seq(Item)
         /\ Says(Put(body, <<ch>>), items \o <<<<"between", ch>>>>)
<1>1. ch \in Sent /\ <<ch>> \in Seq(Sent) /\ Len(<<ch>>) = 1
  BY DEF Sent, Reserved
<1>2. <<"between", ch>> \in Item
  BY <1>1 DEF Item
<1>3. items \o <<<<"between", ch>>>> = Append(items, <<"between", ch>>)
  BY <1>2, AppendIsConcat
<1>4. Append(items, <<"between", ch>>) \in Seq(Item)
  BY <1>2, AppendProperties
<1>5. ASSUME Put(body, <<ch>>).ok
      PROVE  /\ body.ok /\ Len(Put(body, <<ch>>).text) = Len(body.text) + 1
             /\ Decoded(Put(body, <<ch>>).text) = [out |-> Append(items, <<"between", ch>>), skip |-> 0]
  <2>1. /\ body.ok /\ Put(body, <<ch>>).text = body.text \o <<ch>>
        /\ Len(Put(body, <<ch>>).text) = Len(body.text) + 1
    BY <1>1, <1>5, PutIs
  <2>2. body.text \in Seq(Sent)
    BY DEF Body
  <2>3. body.text \o <<ch>> = Append(body.text, ch)
    BY <1>1, <2>2, AppendIsConcat
  <2>4. Decoded(Append(body.text, ch)) = ReadNext(Decoded(body.text), ch)
    BY <1>1, <2>2, DecodedNext
  <2>5. Decoded(body.text).out = items /\ Decoded(body.text).skip = 0
    <3>1. Decoded(body.text) = [out |-> items, skip |-> 0]
      BY <2>1 DEF Says
    <3>. QED
      BY <3>1
  <2>6. ReadNext(Decoded(body.text), ch) = [out |-> Append(items, <<"between", ch>>), skip |-> 0]
    BY <2>5, ReadNextIs
  <2>. QED
    BY <2>1, <2>3, <2>4, <2>6
<1>6. Put(body, <<ch>>) \in Body
  BY <1>1, PutIs
<1>7. Says(Put(body, <<ch>>), Append(items, <<"between", ch>>))
  BY <1>5 DEF Says
<1>. QED
  BY <1>3, <1>4, <1>5, <1>6, <1>7

\* A field is read as its name and its value (ush_browser_form_build_body).
LEMMA FieldIsRead ==
  ASSUME NEW body \in Body, NEW items \in Seq(Item), Says(body, items), NEW field \in FieldType
  PROVE  /\ PutField(body, field) \in Body
         /\ PutField(body, field).ok => body.ok /\ PutField(body, field).text # <<>>
         /\ PlainNext(items, body.text = <<>>, field) \in Seq(Item)
         /\ Says(PutField(body, field), PlainNext(items, body.text = <<>>, field))
<1>. DEFINE first == body.text = <<>>
            start == IF first THEN body ELSE Put(body, <<"&">>)
            begun == items \o (IF first THEN <<>> ELSE <<<<"between", "&">>>>)
            named == PutEncoded(start, field.name)
            name == begun \o Chars(field.name)
            equal == Put(named, <<"=">>)
            sign == name \o <<<<"between", "=">>>>
            done == PutEncoded(equal, field.value)
            all == sign \o Chars(field.value)
<1>1. field.name \in Seq(Letters) /\ field.value \in Seq(Letters)
  BY DEF FieldType
<1>2. PutField(body, field) = done
  BY DEF PutField
<1>3. PlainNext(items, first, field) = all
  BY DEF PlainNext
<1>4. start \in Body /\ begun \in Seq(Item) /\ Says(start, begun) /\ (start.ok => body.ok)
  <2>1. CASE first
    <3>1. begun = items
      BY <2>1, ConcatEmptySeq
    <3>. QED
      BY <2>1, <3>1
  <2>2. CASE ~first
    BY <2>2, SeparatorIsRead
  <2>. QED
    BY <2>1, <2>2
<1>. HIDE DEF start, begun
<1>5. named \in Body /\ name \in Seq(Item) /\ Says(named, name) /\ (named.ok => start.ok)
  BY <1>1, <1>4, EncodedIsRead
<1>. HIDE DEF named, name
<1>6. /\ equal \in Body /\ sign \in Seq(Item) /\ Says(equal, sign)
      /\ equal.ok => named.ok /\ Len(equal.text) = Len(named.text) + 1
  BY <1>5, SeparatorIsRead
<1>. HIDE DEF equal, sign
<1>7. /\ done \in Body /\ all \in Seq(Item) /\ Says(done, all)
      /\ done.ok => equal.ok /\ Len(done.text) >= Len(equal.text)
  BY <1>1, <1>6, EncodedIsRead
<1>. HIDE DEF done, all
<1>8. done.ok => body.ok /\ done.text # <<>>
  <2>1. SUFFICES ASSUME done.ok PROVE body.ok /\ done.text # <<>>
    OBVIOUS
  <2>2. Len(named.text) \in Nat
    BY <1>5 DEF Body
  <2>3. Len(done.text) >= 1
    BY <1>6, <1>7, <2>1, <2>2
  <2>4. done.text # <<>>
    BY <2>3
  <2>. QED
    BY <1>4, <1>5, <1>6, <1>7, <2>1, <2>4
<1>. QED
  BY <1>2, <1>3, <1>7, <1>8

\* p is what the fields say, b the body that is built from them.
Tells(p, fields) ==
    p[0] = <<>> /\ \A k \in 1 .. Len(fields) : p[k] = PlainNext(p[k - 1], k = 1, fields[k])
Builds(b, fields) ==
    b[0] = [ok |-> TRUE, text |-> <<>>] /\ \A k \in 1 .. Len(fields) : b[k] = PutField(b[k - 1], fields[k])

LEMMA PlainNextType ==
  ASSUME NEW items \in Seq(Item), NEW first \in BOOLEAN, NEW field \in FieldType
  PROVE  PlainNext(items, first, field) \in Seq(Item)
<1>1. Chars(field.name) \in Seq(Item) /\ Chars(field.value) \in Seq(Item)
  BY CharsAre DEF FieldType
<1>2. <<"between", "&">> \in Item /\ <<"between", "=">> \in Item
  BY DEF Item, Sent, Reserved
<1>3. <<<<"between", "&">>>> \in Seq(Item) /\ <<<<"between", "=">>>> \in Seq(Item) /\ <<>> \in Seq(Item)
  BY <1>2
<1>. QED
  BY <1>1, <1>3, ConcatProperties DEF PlainNext

LEMMA PlainTells ==
  ASSUME NEW fields \in Seq(FieldType)
  PROVE  \E p \in [0 .. Len(fields) -> Seq(Item)] : Tells(p, fields) /\ Plain(fields) = p[Len(fields)]
<1>. DEFINE n == Len(fields)
            step == [k \in 1 .. n |-> [items \in Seq(Item) |-> PlainNext(items, k = 1, fields[k])]]
            IsIt(r) == r = [k \in 0 .. n |-> IF k = 0 THEN <<>> ELSE PlainNext(r[k - 1], k = 1, fields[k])]
<1>1. n \in Nat /\ \A k \in 1 .. n : fields[k] \in FieldType
  OBVIOUS
<1>2. \A k \in 1 .. n, items \in Seq(Item) : PlainNext(items, k = 1, fields[k]) \in Seq(Item)
  <2>. TAKE k \in 1 .. n, items \in Seq(Item)
  <2>1. (k = 1) \in BOOLEAN
    OBVIOUS
  <2>. QED
    BY <1>1, <2>1, PlainNextType
<1>3. step \in [1 .. n -> [Seq(Item) -> Seq(Item)]]
  BY <1>2
<1>4. PICK f \in [0 .. n -> Seq(Item)] : IsRun(f, <<>>, step, n)
  <2>1. <<>> \in Seq(Item)
    OBVIOUS
  <2>. HIDE DEF n, step
  <2>. QED
    BY <1>1, <1>3, <2>1, RunExists
<1>5. IsIt(f)
  <2>1. ASSUME NEW k \in 0 .. n PROVE f[k] = IF k = 0 THEN <<>> ELSE PlainNext(f[k - 1], k = 1, fields[k])
    <3>1. k # 0 => k \in 1 .. n /\ k - 1 \in 0 .. n
      BY <1>1
    <3>. HIDE DEF n
    <3>. QED
      BY <1>4, <3>1 DEF IsRun
  <2>. HIDE DEF n
  <2>. QED
    BY <1>4, <2>1
<1>6. PICK r : IsIt(r) /\ Plain(fields) = r[n]
  <2>1. Plain(fields) = (CHOOSE r : IsIt(r))[n]
    BY DEF Plain
  <2>. HIDE DEF IsIt
  <2>. QED
    BY <1>5, <2>1
<1>. HIDE DEF n
<1>7. r = [k \in 0 .. n |-> r[k]]
  BY <1>6
<1>8. ASSUME NEW k \in 0 .. n PROVE r[k] = IF k = 0 THEN <<>> ELSE PlainNext(r[k - 1], k = 1, fields[k])
  BY <1>6
<1>9. r[0] = <<>> /\ \A k \in 1 .. n : r[k] = PlainNext(r[k - 1], k = 1, fields[k])
  <2>1. 0 \in 0 .. n /\ \A k \in 1 .. n : k \in 0 .. n /\ k # 0
    BY <1>1
  <2>. QED
    BY <1>8, <2>1
<1>10. \A k \in 0 .. n : r[k] \in Seq(Item)
  <2>. DEFINE Good == {k \in 0 .. n : r[k] \in Seq(Item)}
  <2>1. 0 \in Good
    <3>1. <<>> \in Seq(Item) /\ 0 \in 0 .. n
      BY <1>1
    <3>. QED
      BY <1>9, <3>1
  <2>2. ASSUME NEW k \in 1 .. n, k - 1 \in Good PROVE k \in Good
    <3>1. k \in 0 .. n /\ r[k - 1] \in Seq(Item) /\ r[k] = PlainNext(r[k - 1], k = 1, fields[k])
      BY <1>1, <1>9, <2>2
    <3>. QED
      BY <1>2, <3>1
  <2>. HIDE DEF Good
  <2>3. \A k \in 0 .. n : k \in Good
    BY <1>1, <2>1, <2>2, Climbs
  <2>. QED
    BY <2>3 DEF Good
<1>11. r \in [0 .. n -> Seq(Item)]
  BY <1>7, <1>10
<1>. QED
  BY <1>6, <1>9, <1>11 DEF Tells, n

LEMMA PutFieldType ==
  ASSUME NEW body \in Body, NEW field \in FieldType
  PROVE  PutField(body, field) \in Body
<1>2. field.name \in Seq(Letters) /\ field.value \in Seq(Letters) /\ <<"&">> \in Seq(Sent) /\ <<"=">> \in Seq(Sent)
  BY DEF FieldType, Sent, Reserved
<1>3. ASSUME NEW b \in Body, NEW text \in Seq(Letters) PROVE PutEncoded(b, text) \in Body
  <2>1. Len(text) \in 0 .. Len(text)
    OBVIOUS
  <2>. QED
    BY <2>1, PutEncodedEncodes
<1>4. ASSUME NEW b \in Body PROVE Put(b, <<"&">>) \in Body /\ Put(b, <<"=">>) \in Body
  BY <1>2, PutIs
<1>. QED
  BY <1>2, <1>3, <1>4 DEF PutField

LEMMA BodyBuilds ==
  ASSUME NEW fields \in Seq(FieldType)
  PROVE  \E b \in [0 .. Len(fields) -> Body] : Builds(b, fields) /\ BodyOf(fields) = b[Len(fields)]
<1>. DEFINE n == Len(fields)
            e == [ok |-> TRUE, text |-> <<>>]
            step == [k \in 1 .. n |-> [b \in Body |-> PutField(b, fields[k])]]
            IsIt(r) == r = [k \in 0 .. n |-> IF k = 0 THEN e ELSE PutField(r[k - 1], fields[k])]
<1>1. n \in Nat /\ \A k \in 1 .. n : fields[k] \in FieldType
  OBVIOUS
<1>2. e \in Body /\ \A k \in 1 .. n, b \in Body : PutField(b, fields[k]) \in Body
  <2>1. e \in Body
    BY DEF Body
  <2>. QED
    BY <1>1, <2>1, PutFieldType
<1>3. step \in [1 .. n -> [Body -> Body]]
  BY <1>2
<1>4. PICK f \in [0 .. n -> Body] : IsRun(f, e, step, n)
  <2>. HIDE DEF n, step, e
  <2>. QED
    BY <1>1, <1>2, <1>3, RunExists
<1>5. IsIt(f)
  <2>1. ASSUME NEW k \in 0 .. n PROVE f[k] = IF k = 0 THEN e ELSE PutField(f[k - 1], fields[k])
    <3>1. k # 0 => k \in 1 .. n /\ k - 1 \in 0 .. n
      BY <1>1
    <3>. HIDE DEF n, e
    <3>. QED
      BY <1>4, <3>1 DEF IsRun
  <2>. HIDE DEF n, e
  <2>. QED
    BY <1>4, <2>1
<1>6. PICK r : IsIt(r) /\ BodyOf(fields) = r[n]
  <2>1. BodyOf(fields) = (CHOOSE r : IsIt(r))[n]
    BY DEF BodyOf
  <2>. HIDE DEF IsIt
  <2>. QED
    BY <1>5, <2>1
<1>. HIDE DEF n
<1>7. r = [k \in 0 .. n |-> r[k]]
  BY <1>6
<1>8. ASSUME NEW k \in 0 .. n PROVE r[k] = IF k = 0 THEN e ELSE PutField(r[k - 1], fields[k])
  <2>. HIDE DEF e
  <2>. QED
    BY <1>6
<1>9. r[0] = e /\ \A k \in 1 .. n : r[k] = PutField(r[k - 1], fields[k])
  <2>1. 0 \in 0 .. n /\ \A k \in 1 .. n : k \in 0 .. n /\ k # 0
    BY <1>1
  <2>. HIDE DEF e
  <2>. QED
    BY <1>8, <2>1
<1>10. \A k \in 0 .. n : r[k] \in Body
  <2>. DEFINE Good == {k \in 0 .. n : r[k] \in Body}
  <2>1. 0 \in Good
    BY <1>1, <1>2, <1>9
  <2>2. \A k \in 1 .. n : k - 1 \in Good => k \in Good
    <3>. HIDE DEF e
    <3>. QED
      BY <1>1, <1>2, <1>9
  <2>. HIDE DEF Good
  <2>3. \A k \in 0 .. n : k \in Good
    BY <1>1, <2>1, <2>2, Climbs
  <2>. QED
    BY <2>3 DEF Good
<1>11. r \in [0 .. n -> Body]
  BY <1>7, <1>10
<1>. QED
  BY <1>6, <1>9, <1>11 DEF Builds, n

\* What a server reads from a body is the form's fields, in order and as they
\* were typed, whatever characters they hold.
LEMMA BodyIsMeant ==
  ASSUME NEW fields \in Seq(FieldType)
  PROVE  BodyOf(fields) \in Body /\ (BodyOf(fields).ok => IsMeant(BodyOf(fields).text, fields))
<1>. DEFINE n == Len(fields)
<1>1. n \in Nat /\ \A k \in 1 .. n : fields[k] \in FieldType
  OBVIOUS
<1>2. PICK p \in [0 .. n -> Seq(Item)] : Tells(p, fields) /\ Plain(fields) = p[n]
  BY PlainTells
<1>3. PICK b \in [0 .. n -> Body] : Builds(b, fields) /\ BodyOf(fields) = b[n]
  BY BodyBuilds
<1>4. /\ p[0] = <<>> /\ b[0] = [ok |-> TRUE, text |-> <<>>]
      /\ \A k \in 1 .. n : p[k] = PlainNext(p[k - 1], k = 1, fields[k]) /\ b[k] = PutField(b[k - 1], fields[k])
  BY <1>2, <1>3 DEF Tells, Builds
<1>. HIDE DEF n
<1>. DEFINE Good == {k \in 0 .. n : Says(b[k], p[k]) /\ (b[k].ok => (b[k].text = <<>> <=> k = 0))}
<1>5. 0 \in Good
  BY <1>1, <1>4, DecodedNone DEF Says
<1>6. ASSUME NEW k \in 1 .. n, k - 1 \in Good
      PROVE  k \in Good
  <2>1. k \in 0 .. n /\ k - 1 \in 0 .. n /\ fields[k] \in FieldType /\ (k - 1 = 0 <=> k = 1) /\ k # 0
    BY <1>1
  <2>2. b[k - 1] \in Body /\ p[k - 1] \in Seq(Item) /\ Says(b[k - 1], p[k - 1])
    BY <1>2, <1>3, <1>6, <2>1
  <2>3. /\ b[k].ok => b[k - 1].ok /\ b[k].text # <<>>
        /\ Says(b[k], PlainNext(p[k - 1], b[k - 1].text = <<>>, fields[k]))
    <3>1. b[k] = PutField(b[k - 1], fields[k])
      BY <1>4
    <3>. QED
      BY <2>1, <2>2, <3>1, FieldIsRead
  <2>4. b[k].ok => (b[k - 1].text = <<>> <=> k = 1)
    BY <1>6, <2>1, <2>3
  <2>5. b[k].ok => PlainNext(p[k - 1], b[k - 1].text = <<>>, fields[k]) = p[k]
    BY <1>4, <2>4 DEF PlainNext
  <2>6. Says(b[k], p[k])
    BY <2>3, <2>5 DEF Says
  <2>. QED
    BY <2>1, <2>3, <2>6
<1>7. n \in Good
  <2>. HIDE DEF Good
  <2>1. \A k \in 0 .. n : k \in Good
    BY <1>1, <1>5, <1>6, Climbs
  <2>. QED
    BY <1>1, <2>1
<1>8. b[n] \in Body
  BY <1>1, <1>3
<1>. QED
  BY <1>2, <1>3, <1>7, <1>8 DEF Says, IsMeant

----------------------------------------------------------------------------
(* The way back. *)

\* A sequence is one of its own elements.
LEMMA OwnElements ==
  ASSUME NEW S, NEW s \in Seq(S)
  PROVE  s \in Seq(ToSet(s))
<1>1. s = [i \in 1 .. Len(s) |-> s[i]] /\ Len(s) \in Nat /\ DOMAIN s = 1 .. Len(s)
  OBVIOUS
<1>2. \A i \in 1 .. Len(s) : s[i] \in ToSet(s)
  BY <1>1 DEF ToSet
<1>3. s \in [1 .. Len(s) -> ToSet(s)]
  BY <1>1, <1>2
<1>. QED
  BY <1>1, <1>3, SeqDef

\* All but the last element.
LEMMA FrontIs ==
  ASSUME NEW S, NEW s \in Seq(S), s # <<>>
  PROVE  /\ Front(s) \in Seq(S) /\ Len(Front(s)) = Len(s) - 1
         /\ \A i \in 1 .. Len(s) - 1 : Front(s)[i] = s[i]
<1>1. Len(s) \in Nat /\ Len(s) >= 1
  OBVIOUS
<1>2. PICK n \in Nat : n = Len(s) - 1
  BY <1>1
<1>3. Front(s) = SubSeq(s, 1, n)
  BY <1>2 DEF Front
<1>4. SubSeq(s, 1, n) \in Seq(S)
  BY <1>2
<1>5. Len(SubSeq(s, 1, n)) = n /\ \A i \in 1 .. n : SubSeq(s, 1, n)[i] = s[i]
  BY <1>2
<1>. QED
  BY <1>2, <1>3, <1>4, <1>5

\* The end of t is s.
Ends(s, t) == Len(s) <= Len(t) /\ \A i \in 1 .. Len(s) : s[i] = t[Len(t) - Len(s) + i]

LEMMA EndIsSuffix ==
  ASSUME NEW S, NEW T, NEW s \in Seq(S), NEW t \in Seq(T), Ends(s, t)
  PROVE  IsSuffix(s, t)
<1>. DEFINE n == Len(s)
            m == Len(t)
            rs == Reverse(s)
            rt == Reverse(t)
<1>1. n \in Nat /\ m \in Nat /\ n <= m
  BY DEF Ends
<1>2. rs = [i \in 1 .. n |-> s[n - i + 1]] /\ rt = [i \in 1 .. m |-> t[m - i + 1]]
  BY DEF Reverse
<1>3. rs \in Seq(S) /\ Len(rs) = n /\ rt \in Seq(T) /\ Len(rt) = m
  <2>1. (\A i \in 1 .. n : s[n - i + 1] \in S) /\ (\A i \in 1 .. m : t[m - i + 1] \in T)
    OBVIOUS
  <2>2. rs \in [1 .. n -> S] /\ rt \in [1 .. m -> T]
    BY <1>2, <2>1
  <2>. HIDE DEF n, m, rs, rt
  <2>3. rs \in Seq(S) /\ rt \in Seq(T)
    BY <1>1, <2>2, SeqDef
  <2>4. Len(rs) = n /\ Len(rt) = m
    BY <1>1, <1>2
  <2>. QED
    BY <2>3, <2>4
<1>4. \A i \in 1 .. n : rs[i] = rt[i]
  <2>. TAKE i \in 1 .. n
  <2>1. n - i + 1 \in 1 .. n /\ i \in 1 .. m /\ m - n + (n - i + 1) = m - i + 1
    BY <1>1
  <2>2. s[n - i + 1] = t[m - n + (n - i + 1)]
    BY <2>1 DEF Ends
  <2>. QED
    BY <1>2, <2>1, <2>2
<1>. HIDE DEF n, m, rs, rt
<1>5. SubSeq(rs, 1, n) = SubSeq(rt, 1, n)
  BY <1>1, <1>3, <1>4
<1>. QED
  BY <1>1, <1>3, <1>5 DEF IsSuffix, IsPrefix, rs, rt, n, m

\* How far a way reaches back (the numbers of BackRetraces and Way).
Reaches(len, long, deep) ==
    /\ len <= HistoryMax /\ len <= long /\ long <= deep
    /\ len >= long - (IF deep > HistoryMax THEN deep - HistoryMax ELSE 0)

\* Way and BackRetraces of a history h, a trail t and its deepest d.
Retraces(h, t, d) ==
    /\ h \in Seq(ToSet(h)) /\ t \in Seq(ToSet(t)) /\ d \in Nat
    /\ Ends(h, t) /\ Reaches(Len(h), Len(t), d)
    /\ \A i \in 1 .. Len(h) - 1 : h[i] # h[i + 1]

LEMMA RetracesIs ==
  Way /\ BackRetraces <=> Retraces(history, trail, deepest)
<1>1. ASSUME Way, BackRetraces PROVE Retraces(history, trail, deepest)
  <2>1. Len(history) \in Nat /\ Len(trail) \in Nat
    BY <1>1 DEF Way
  <2>. QED
    BY <1>1, <2>1 DEF Way, BackRetraces, Retraces, Ends, Reaches
<1>2. ASSUME Retraces(history, trail, deepest) PROVE Way /\ BackRetraces
  <2>1. IsSuffix(history, trail)
    BY <1>2, EndIsSuffix DEF Retraces
  <2>. QED
    BY <1>2, <2>1 DEF Way, BackRetraces, Retraces, Ends, Reaches
<1>. QED
  BY <1>1, <1>2

\* After a step back.
LEMMA RetracesPopped ==
  ASSUME NEW h, NEW t, NEW d, Retraces(h, t, d), h # <<>>
  PROVE  Retraces(Front(h), Front(t), d)
<1>. DEFINE n == Len(h)
            m == Len(t)
            H == ToSet(h)
            T == ToSet(t)
<1>1. /\ h \in Seq(H) /\ t \in Seq(T) /\ d \in Nat
      /\ Ends(h, t) /\ Reaches(n, m, d)
      /\ \A i \in 1 .. n - 1 : h[i] # h[i + 1]
  BY DEF Retraces
<1>. HIDE DEF H, T
<1>2. n \in Nat /\ n >= 1 /\ m \in Nat /\ m >= n /\ \A i \in 1 .. n : h[i] = t[m - n + i]
  BY <1>1 DEF Ends
<1>3. /\ Front(h) \in Seq(H) /\ Len(Front(h)) = n - 1
      /\ \A i \in 1 .. n - 1 : Front(h)[i] = h[i]
  BY <1>1, FrontIs
<1>4. /\ Front(t) \in Seq(T) /\ Len(Front(t)) = m - 1
      /\ \A i \in 1 .. m - 1 : Front(t)[i] = t[i]
  <2>1. t # <<>>
    BY <1>1, <1>2
  <2>. QED
    BY <1>1, <2>1, FrontIs
<1>. HIDE DEF n, m
<1>5. Ends(Front(h), Front(t))
  <2>1. ASSUME NEW i \in 1 .. n - 1
        PROVE  Front(h)[i] = Front(t)[(m - 1) - (n - 1) + i]
    <3>1. i \in 1 .. n /\ (m - 1) - (n - 1) + i = m - n + i /\ m - n + i \in 1 .. m - 1
      BY <1>2
    <3>. QED
      BY <1>2, <1>3, <1>4, <3>1
  <2>2. n - 1 <= m - 1
    BY <1>2
  <2>. QED
    BY <1>3, <1>4, <2>1, <2>2 DEF Ends
<1>6. Reaches(n - 1, m - 1, d)
  BY <1>1, <1>2, HistoryAssumption DEF Reaches
<1>7. ASSUME NEW i \in 1 .. (n - 1) - 1
      PROVE  Front(h)[i] # Front(h)[i + 1]
  <2>1. i \in 1 .. n - 1 /\ i + 1 \in 1 .. n - 1
    BY <1>2
  <2>. QED
    BY <1>1, <1>3, <2>1 DEF n
<1>8. Front(h) \in Seq(ToSet(Front(h))) /\ Front(t) \in Seq(ToSet(Front(t)))
  BY <1>3, <1>4, OwnElements
<1>. QED
  BY <1>1, <1>3, <1>4, <1>5, <1>6, <1>7, <1>8 DEF Retraces

\* A page more, on a history with room for it (ush_browser_history_push).
LEMMA RetracesAppended ==
  ASSUME NEW h, NEW t, NEW d, NEW d2 \in Nat, NEW c,
         h \in Seq(ToSet(h)), t \in Seq(ToSet(t)), Ends(h, t),
         \A i \in 1 .. Len(h) - 1 : h[i] # h[i + 1],
         h = <<>> \/ h[Len(h)] # c,
         Reaches(Len(h) + 1, Len(t) + 1, d2)
  PROVE  Retraces(Append(h, c), Append(t, c), d2)
<1>. DEFINE n == Len(h)
            m == Len(t)
            H == ToSet(h) \cup {c}
            T == ToSet(t) \cup {c}
            ha == Append(h, c)
            ta == Append(t, c)
<1>1. h \in Seq(H) /\ t \in Seq(T) /\ c \in H /\ c \in T
  <2>1. ToSet(h) \subseteq H /\ ToSet(t) \subseteq T /\ c \in H /\ c \in T
    OBVIOUS
  <2>. HIDE DEF H, T
  <2>. QED
    BY <2>1, SeqMonotonic
<1>. HIDE DEF H, T
<1>2. n \in Nat /\ m \in Nat /\ n <= m /\ \A i \in 1 .. n : h[i] = t[m - n + i]
  BY <1>1 DEF Ends
<1>3. ha \in Seq(H) /\ Len(ha) = n + 1 /\ ha[n + 1] = c /\ \A i \in 1 .. n : ha[i] = h[i]
  BY <1>1, AppendProperties
<1>4. ta \in Seq(T) /\ Len(ta) = m + 1 /\ ta[m + 1] = c /\ \A i \in 1 .. m : ta[i] = t[i]
  BY <1>1, AppendProperties
<1>. HIDE DEF ha, ta
<1>5. Ends(ha, ta)
  <2>1. ASSUME NEW i \in 1 .. n + 1
        PROVE  ha[i] = ta[(m + 1) - (n + 1) + i]
    <3>1. CASE i = n + 1
      <4>1. (m + 1) - (n + 1) + i = m + 1
        BY <1>2, <3>1
      <4>. QED
        BY <1>3, <1>4, <3>1, <4>1
    <3>2. CASE i \in 1 .. n
      <4>1. (m + 1) - (n + 1) + i = m - n + i /\ m - n + i \in 1 .. m
        BY <1>2, <3>2
      <4>. HIDE DEF n, m
      <4>. QED
        BY <1>2, <1>3, <1>4, <3>2, <4>1
    <3>. QED
      BY <1>2, <3>1, <3>2
  <2>2. n + 1 <= m + 1
    BY <1>2
  <2>. QED
    BY <1>3, <1>4, <2>1, <2>2 DEF Ends
<1>6. ASSUME NEW i \in 1 .. (n + 1) - 1
      PROVE  ha[i] # ha[i + 1]
  <2>1. CASE i = n
    <3>1. h # <<>> /\ i \in 1 .. n
      BY <1>2, <2>1
    <3>. QED
      BY <1>3, <2>1, <3>1
  <2>2. CASE i \in 1 .. n - 1
    <3>1. i \in 1 .. n /\ i + 1 \in 1 .. n
      BY <1>2, <2>2
    <3>. QED
      BY <1>3, <2>2, <3>1
  <2>. QED
    BY <1>2, <2>1, <2>2
<1>7. ha \in Seq(ToSet(ha)) /\ ta \in Seq(ToSet(ta))
  BY <1>3, <1>4, OwnElements
<1>. QED
  BY <1>3, <1>4, <1>5, <1>6, <1>7 DEF Retraces, ha, ta

\* Without its oldest page a history still ends the trail.
LEMMA EndOfTail ==
  ASSUME NEW h, NEW t, h \in Seq(ToSet(h)), t \in Seq(ToSet(t)), Ends(h, t), h # <<>>,
         \A i \in 1 .. Len(h) - 1 : h[i] # h[i + 1]
  PROVE  /\ Tail(h) \in Seq(ToSet(Tail(h))) /\ Len(Tail(h)) = Len(h) - 1 /\ Ends(Tail(h), t)
         /\ \A i \in 1 .. Len(Tail(h)) - 1 : Tail(h)[i] # Tail(h)[i + 1]
         /\ Tail(h) = <<>> \/ Tail(h)[Len(Tail(h))] = h[Len(h)]
<1>. DEFINE n == Len(h)
            m == Len(t)
            H == ToSet(h)
            k == Tail(h)
<1>1. h \in Seq(H)
  OBVIOUS
<1>. HIDE DEF H
<1>2. n \in Nat /\ n >= 1 /\ m \in Nat /\ n <= m /\ \A i \in 1 .. n : h[i] = t[m - n + i]
  BY <1>1 DEF Ends
<1>3. k \in Seq(H) /\ Len(k) = n - 1 /\ \A i \in 1 .. n - 1 : k[i] = h[i + 1]
  BY <1>1, HeadTailProperties
<1>4. k \in Seq(ToSet(k))
  BY <1>3, OwnElements
<1>. HIDE DEF k
<1>5. Ends(k, t)
  <2>1. ASSUME NEW i \in 1 .. n - 1
        PROVE  k[i] = t[m - (n - 1) + i]
    <3>1. i + 1 \in 1 .. n /\ m - n + (i + 1) = m - (n - 1) + i
      BY <1>2
    <3>. HIDE DEF n, m
    <3>. QED
      BY <1>2, <1>3, <3>1
  <2>2. n - 1 <= m
    BY <1>2
  <2>. QED
    BY <1>3, <2>1, <2>2 DEF Ends
<1>6. ASSUME NEW i \in 1 .. (n - 1) - 1
      PROVE  k[i] # k[i + 1]
  <2>1. i \in 1 .. n - 1 /\ i + 1 \in 1 .. n - 1
    BY <1>2
  <2>2. h[i + 1] # h[(i + 1) + 1]
    BY <2>1
  <2>. QED
    BY <1>3, <2>1, <2>2
<1>7. k = <<>> \/ k[n - 1] = h[n]
  <2>1. CASE n = 1
    BY <1>3, <2>1
  <2>2. CASE n > 1
    <3>1. n - 1 \in 1 .. n - 1 /\ (n - 1) + 1 = n
      BY <1>2, <2>2
    <3>. HIDE DEF n
    <3>. QED
      BY <1>3, <3>1
  <2>. HIDE DEF n, m
  <2>3. n \in Nat /\ n >= 1
    BY <1>2
  <2>4. n = 1 \/ n > 1
    BY <2>3
  <2>. QED
    BY <2>1, <2>2, <2>4
<1>. QED
  BY <1>3, <1>4, <1>5, <1>6, <1>7 DEF k

\* The fields of a form that are sent are fields of the page.
LEMMA FieldsOfType ==
  ASSUME shown.fields \in Seq(FieldType), NEW n
  PROVE  FieldsOf(n) \in Seq(FieldType)
<1>. DEFINE all == shown.fields
            long == Len(all)
            S == Seq(FieldType)
            Kept1(kept, field) == IF field.form = n /\ field.live /\ field.name # <<>>
                                  THEN Append(kept, field) ELSE kept
            step == [k \in 1 .. long |-> [kept \in S |-> Kept1(kept, all[k])]]
            IsIt(r) == r = [k \in 0 .. long |-> IF k = 0 THEN <<>> ELSE Kept1(r[k - 1], all[k])]
<1>1. long \in Nat /\ \A k \in 1 .. long : all[k] \in FieldType
  OBVIOUS
<1>2. <<>> \in S /\ \A k \in 1 .. long, kept \in S : Kept1(kept, all[k]) \in S
  <2>1. \A k \in 1 .. long, kept \in S : Append(kept, all[k]) \in S
    BY <1>1, AppendProperties
  <2>. QED
    BY <2>1
<1>. HIDE DEF Kept1
<1>3. step \in [1 .. long -> [S -> S]]
  BY <1>2
<1>4. PICK f \in [0 .. long -> S] : IsRun(f, <<>>, step, long)
  <2>. HIDE DEF long, step, S
  <2>. QED
    BY <1>1, <1>2, <1>3, RunExists
<1>5. IsIt(f)
  <2>1. ASSUME NEW k \in 0 .. long PROVE f[k] = IF k = 0 THEN <<>> ELSE Kept1(f[k - 1], all[k])
    <3>1. k # 0 => k \in 1 .. long /\ k - 1 \in 0 .. long
      BY <1>1
    <3>. HIDE DEF long
    <3>. QED
      BY <1>4, <3>1 DEF IsRun
  <2>. HIDE DEF long
  <2>. QED
    BY <1>4, <2>1
<1>6. PICK r : IsIt(r) /\ FieldsOf(n) = r[long]
  <2>1. FieldsOf(n) = (CHOOSE r : IsIt(r))[long]
    BY DEF FieldsOf, Kept1
  <2>. HIDE DEF IsIt
  <2>. QED
    BY <1>5, <2>1
<1>. HIDE DEF long, S
<1>8. ASSUME NEW k \in 0 .. long PROVE r[k] = IF k = 0 THEN <<>> ELSE Kept1(r[k - 1], all[k])
  BY <1>6
<1>9. \A k \in 0 .. long : r[k] \in S
  <2>. DEFINE Good == {k \in 0 .. long : r[k] \in S}
  <2>1. 0 \in Good
    <3>1. 0 \in 0 .. long
      BY <1>1
    <3>. QED
      BY <1>2, <1>8, <3>1
  <2>2. ASSUME NEW k \in 1 .. long, k - 1 \in Good PROVE k \in Good
    <3>1. k \in 0 .. long /\ r[k - 1] \in S /\ k # 0
      BY <1>1, <2>2
    <3>2. r[k] = Kept1(r[k - 1], all[k])
      BY <1>8, <3>1
    <3>. QED
      BY <1>2, <3>1, <3>2
  <2>. HIDE DEF Good
  <2>3. \A k \in 0 .. long : k \in Good
    BY <1>1, <2>1, <2>2, Climbs
  <2>. QED
    BY <2>3 DEF Good
<1>. QED
  BY <1>1, <1>6, <1>9 DEF S

\* What a form is sent with is what its fields say.
LEMMA FormIsMeant ==
  ASSUME Page, NEW n
  PROVE  /\ BuildBody(n).ok => IsMeant(BuildBody(n).text, FieldsOf(n))
         /\ Len(BuildBody(n).text) \in Nat /\ (Len(BuildBody(n).text) = 0 => BuildBody(n).text = <<>>)
<1>1. FieldsOf(n) \in Seq(FieldType)
  BY FieldsOfType DEF Page
<1>2. BuildBody(n) \in Body /\ (BuildBody(n).ok => IsMeant(BuildBody(n).text, FieldsOf(n)))
  BY <1>1, BodyIsMeant DEF BuildBody
<1>3. BuildBody(n).text \in Seq(Sent)
  BY <1>2 DEF Body
<1>. QED
  BY <1>2, <1>3

----------------------------------------------------------------------------
(* One step. *)

LEMMA StayKeepsWay ==
  ASSUME Way, BackRetraces, UNCHANGED <<history, trail, deepest>>
  PROVE  Way' /\ BackRetraces'
BY DEF Way, BackRetraces

LEMMA PopKeepsWay ==
  ASSUME Way, BackRetraces, history # <<>>, PopHistory
  PROVE  Way' /\ BackRetraces'
<1>1. Retraces(history, trail, deepest)
  BY RetracesIs
<1>2. Retraces(Front(history), Front(trail), deepest)
  BY <1>1, RetracesPopped
<1>3. history' = Front(history) /\ trail' = Front(trail) /\ deepest' = deepest
  BY DEF PopHistory
<1>4. Retraces(history', trail', deepest')
  BY <1>2, <1>3
<1>5. (Retraces(history, trail, deepest))' => (Way /\ BackRetraces)'
  BY RetracesIs, PTL
<1>. QED
  BY <1>4, <1>5

LEMMA PushKeepsWay ==
  ASSUME Way, BackRetraces, PushHistory
  PROVE  Way' /\ BackRetraces'
<1>. DEFINE n == Len(history)
            m == Len(trail)
            room == IF n >= HistoryMax THEN Tail(history) ELSE history
            same == history # <<>> /\ Last(history) = cur
            way == IF trail # <<>> /\ Last(trail) = cur THEN trail ELSE Append(trail, cur)
<1>1. Retraces(history, trail, deepest)
  BY RetracesIs
<1>2. /\ history \in Seq(ToSet(history)) /\ trail \in Seq(ToSet(trail)) /\ deepest \in Nat
      /\ Ends(history, trail) /\ Reaches(n, m, deepest)
      /\ \A i \in 1 .. n - 1 : history[i] # history[i + 1]
  BY <1>1 DEF Retraces
<1>3. n \in Nat /\ m \in Nat
  BY <1>2
<1>4. /\ history' = IF same THEN history ELSE Append(room, cur)
      /\ trail' = way /\ deepest' = IF Len(way) > deepest THEN Len(way) ELSE deepest
  BY DEF PushHistory
<1>5. n <= HistoryMax /\ n <= m /\ m <= deepest /\ HistoryMax \in Nat /\ HistoryMax >= 1
  BY <1>2, HistoryAssumption DEF Reaches
<1>6. history # <<>> => trail # <<>> /\ Last(trail) = Last(history)
  <2>1. SUFFICES ASSUME history # <<>> PROVE trail # <<>> /\ Last(trail) = Last(history)
    OBVIOUS
  <2>2. n >= 1 /\ n \in 1 .. n
    BY <1>2, <1>3, <2>1
  <2>3. history[n] = trail[m - n + n]
    BY <1>2, <2>2 DEF Ends
  <2>4. m - n + n = m /\ m >= 1
    BY <1>3, <1>5, <2>2
  <2>5. trail # <<>>
    BY <2>4
  <2>. QED
    BY <2>3, <2>4, <2>5 DEF Last
<1>7. Retraces(history', trail', deepest')
  <2>1. CASE same
    <3>1. way = trail
      BY <1>6, <2>1
    <3>. HIDE DEF way
    <3>2. history' = history /\ trail' = trail /\ deepest' = deepest
      BY <1>3, <1>4, <1>5, <1>2, <2>1, <3>1
    <3>. QED
      BY <1>1, <3>2
  <2>2. CASE ~same /\ trail # <<>> /\ Last(trail) = cur
    <3>1. history = <<>> /\ way = trail
      BY <1>6, <2>2
    <3>2. n = 0
      BY <3>1
    <3>3. room = <<>>
      BY <1>5, <3>1, <3>2
    <3>. HIDE DEF way, room, same
    <3>4. trail' = trail /\ deepest' = deepest
      BY <1>2, <1>3, <1>4, <1>5, <3>1
    <3>5. history' = <<cur>>
      BY <1>4, <2>2, <3>3
    <3>6. Len(<<cur>>) = 1 /\ m >= 1
      BY <1>2, <2>2
    <3>7. Ends(<<cur>>, trail)
      <4>1. \A i \in 1 .. 1 : <<cur>>[i] = trail[m - 1 + i]
        <5>1. m - 1 + 1 = m
          BY <1>3
        <5>. QED
          BY <2>2, <5>1 DEF Last
      <4>. QED
        BY <3>6, <4>1 DEF Ends
    <3>8. Reaches(1, m, deepest)
      BY <1>2, <1>3, <1>5, <3>2, <3>6 DEF Reaches
    <3>9. <<cur>> \in Seq(ToSet(<<cur>>))
      <4>1. <<cur>> \in Seq({cur})
        OBVIOUS
      <4>. QED
        BY <4>1, OwnElements
    <3>. QED
      BY <1>2, <3>4, <3>5, <3>6, <3>7, <3>8, <3>9 DEF Retraces
  <2>3. CASE ~same /\ ~(trail # <<>> /\ Last(trail) = cur)
    <3>1. way = Append(trail, cur) /\ history' = Append(room, cur)
      BY <1>4, <2>3
    <3>2. Len(way) = m + 1
      BY <1>2, <3>1
    <3>. HIDE DEF way, same
    <3>3. deepest' = (IF m + 1 > deepest THEN m + 1 ELSE deepest) /\ trail' = Append(trail, cur)
      BY <1>4, <3>1, <3>2
    <3>4. deepest' \in Nat /\ deepest' >= deepest /\ deepest' >= m + 1
      BY <1>2, <1>3, <3>3
    <3>5. history = <<>> \/ history[n] # cur
      BY <2>3 DEF same, Last
    <3>6. /\ room \in Seq(ToSet(room)) /\ Ends(room, trail)
          /\ \A i \in 1 .. Len(room) - 1 : room[i] # room[i + 1]
          /\ room = <<>> \/ room[Len(room)] # cur
          /\ Len(room) = IF n >= HistoryMax THEN n - 1 ELSE n
      <4>1. CASE n >= HistoryMax
        <5>1. history # <<>>
          BY <1>3, <1>5, <4>1
        <5>2. room = Tail(history)
          BY <4>1
        <5>. HIDE DEF room
        <5>. QED
          BY <1>2, <3>5, <4>1, <5>1, <5>2, EndOfTail
      <4>2. CASE ~(n >= HistoryMax)
        BY <1>2, <3>5, <4>2
      <4>. QED
        BY <4>1, <4>2
    <3>. HIDE DEF room
    <3>7. Reaches(Len(room) + 1, m + 1, deepest')
      <4>1. PICK x, y, z, w : x = n /\ y = m /\ z = deepest /\ w = deepest'
        OBVIOUS
      <4>. HIDE DEF n, m
      <4>2. /\ x \in Nat /\ y \in Nat /\ z \in Nat /\ w \in Nat /\ w >= z /\ w >= y + 1
            /\ x <= HistoryMax /\ x <= y /\ y <= z /\ HistoryMax \in Nat
            /\ x >= y - (IF z > HistoryMax THEN z - HistoryMax ELSE 0)
        BY <1>2, <1>3, <1>5, <3>4, <4>1 DEF Reaches
      <4>3. PICK l : l = Len(room) /\ l = IF x >= HistoryMax THEN x - 1 ELSE x
        BY <3>6, <4>1
      <4>4. Reaches(l + 1, y + 1, w)
        BY ONLY <4>2, <4>3 DEF Reaches
      <4>. QED
        BY <4>1, <4>3, <4>4
    <3>8. Retraces(Append(room, cur), Append(trail, cur), deepest')
      BY <1>2, <3>4, <3>6, <3>7, RetracesAppended
    <3>. QED
      BY <3>1, <3>3, <3>8
  <2>. HIDE DEF same
  <2>. QED
    BY <2>1, <2>2, <2>3
<1>8. (Retraces(history, trail, deepest))' => (Way /\ BackRetraces)'
  BY RetracesIs, PTL
<1>. QED
  BY <1>7, <1>8

\* The invariant holds before the first load.
LEMMA BrowserStarts ==
  ASSUME BrowserInit
  PROVE  BrowserInv
<1>1. PICK start : cur = start /\ wish = Get(start)
  BY DEF BrowserInit
<1>2. /\ history = <<>> /\ trail = <<>> /\ deepest = 0 /\ shown = Blank /\ pend = NoPend
      /\ pc = "load" /\ channel = "closed"
  BY DEF BrowserInit
<1>3. Retraces(<<>>, <<>>, 0)
  <2>1. <<>> \in Seq(ToSet(<<>>)) /\ Len(<<>>) = 0
    OBVIOUS
  <2>2. Ends(<<>>, <<>>) /\ Reaches(0, 0, 0)
    BY <2>1, HistoryAssumption DEF Ends, Reaches
  <2>. QED
    BY <2>1, <2>2 DEF Retraces
<1>4. Way /\ BackRetraces
  BY <1>2, <1>3, RetracesIs
<1>5. Page
  BY <1>2 DEF Page, Blank
<1>6. Pending
  BY <1>1, <1>2 DEF Pending, NoPend, Get
<1>7. RequestIsAsked
  BY <1>2 DEF RequestIsAsked
<1>. QED
  BY <1>4, <1>5, <1>6, <1>7 DEF BrowserInv

LEMMA PageStays ==
  ASSUME Page, shown' = shown
  PROVE  Page'
BY DEF Page

LEMMA StutterKeeps ==
  ASSUME BrowserInv, UNCHANGED browserVars
  PROVE  BrowserInv'
BY DEF BrowserInv, browserVars, Way, BackRetraces, Page, Pending, RequestIsAsked

\* A load that fails leads back, or out.
LEMMA FailKeeps ==
  ASSUME BrowserInv, LoadFails
  PROVE  BrowserInv'
<1>1. channel' = "closed" /\ UNCHANGED shown
  BY DEF LoadFails
<1>2. Page'
  BY <1>1, PageStays DEF BrowserInv
<1>3. CASE ~loaded \/ history = <<>>
  <2>1. pc' = "ended" /\ UNCHANGED <<cur, history, pend, trail, deepest, wish>>
    BY <1>3 DEF LoadFails
  <2>2. Way' /\ BackRetraces'
    BY <2>1, StayKeepsWay DEF BrowserInv
  <2>3. Pending'
    BY <2>1 DEF BrowserInv, Pending
  <2>4. RequestIsAsked'
    BY <1>1, <2>1 DEF RequestIsAsked
  <2>. QED
    BY <1>2, <2>2, <2>3, <2>4 DEF BrowserInv
<1>4. CASE ~(~loaded \/ history = <<>>)
  <2>1. PopHistory /\ pend' = NoPend /\ pc' = "load" /\ history # <<>>
    BY <1>4 DEF LoadFails
  <2>2. Way' /\ BackRetraces'
    BY <2>1, PopKeepsWay DEF BrowserInv
  <2>3. Pending'
    <3>1. wish' = Get(cur')
      BY <2>1 DEF PopHistory
    <3>. QED
      BY <2>1, <3>1 DEF Pending, NoPend, Get
  <2>4. RequestIsAsked'
    BY <1>1, <2>1 DEF RequestIsAsked
  <2>. QED
    BY <1>2, <2>2, <2>3, <2>4 DEF BrowserInv
<1>. QED
  BY <1>3, <1>4

\* A page that is shown (ush_browser_session_run).
LEMMA ShowKeeps ==
  ASSUME BrowserInv, NEW page, Show(page), page.fields \in Seq(FieldType),
         \A n \in DOMAIN page.forms : page.forms[n].post \in BOOLEAN
  PROVE  BrowserInv'
<1>1. /\ pend' = NoPend /\ pc' = "prompt" /\ channel' = "closed"
      /\ shown' = IF srcMode THEN shown
                  ELSE [links |-> page.links, forms |-> page.forms, fields |-> page.fields]
      /\ UNCHANGED <<cur, history, wish, trail, deepest>>
  BY DEF Show
<1>2. Way' /\ BackRetraces'
  BY <1>1, StayKeepsWay DEF BrowserInv
<1>3. Page'
  <2>1. CASE srcMode
    BY <1>1, <2>1, PageStays DEF BrowserInv
  <2>2. CASE ~srcMode
    <3>1. shown' = [links |-> page.links, forms |-> page.forms, fields |-> page.fields]
      BY <1>1, <2>2
    <3>2. shown'.links = page.links /\ shown'.forms = page.forms /\ shown'.fields = page.fields
      BY <3>1
    <3>. QED
      BY <3>1, <3>2 DEF Page
  <2>. QED
    BY <2>1, <2>2
<1>4. Pending'
  <2>1. wish = [post |-> wish.post, target |-> cur, fields |-> wish.fields,
                times |-> wish.times, spoiled |-> wish.spoiled] /\ wish.spoiled \in BOOLEAN
    BY DEF BrowserInv, Pending
  <2>2. pend'.post = FALSE /\ pend'.body = <<>> /\ pend'.len = 0
    BY <1>1 DEF NoPend
  <2>. QED
    BY <1>1, <2>1, <2>2 DEF Pending, NoPend
<1>5. RequestIsAsked'
  BY <1>1 DEF RequestIsAsked
<1>. QED
  BY <1>2, <1>3, <1>4, <1>5 DEF BrowserInv

LEMMA PagesAreTyped ==
  ASSUME NEW page \in Pages
  PROVE  page.fields \in Seq(FieldType) /\ \A n \in DOMAIN page.forms : page.forms[n].post \in BOOLEAN
BY PagesAssumption

LEMMA PartsAreTyped ==
  ASSUME NEW links
  PROVE  /\ [Blank EXCEPT !.links = links].fields \in Seq(FieldType)
         /\ \A n \in DOMAIN [Blank EXCEPT !.links = links].forms :
                [Blank EXCEPT !.links = links].forms[n].post \in BOOLEAN
<1>1. [Blank EXCEPT !.links = links].fields = <<>> /\ [Blank EXCEPT !.links = links].forms = <<>>
  BY DEF Blank
<1>2. <<>> \in Seq(FieldType) /\ DOMAIN <<>> = {}
  OBVIOUS
<1>. QED
  BY <1>1, <1>2

LEMMA ReadFileKeeps ==
  ASSUME BrowserInv, ReadFile
  PROVE  BrowserInv'
<1>1. CASE LoadFails
  BY <1>1, FailKeeps
<1>2. CASE cur \in DOMAIN Disk /\ Show(Disk[cur])
  <2>1. Disk[cur] \in Pages
    BY <1>2 DEF Pages
  <2>. QED
    BY <1>2, <2>1, PagesAreTyped, ShowKeeps
<1>. QED
  BY <1>1, <1>2 DEF ReadFile

LEMMA ReachKeeps ==
  ASSUME BrowserInv, Reach
  PROVE  BrowserInv'
<1>1. /\ pc = "load" /\ pc' = "send" /\ channel' = IF ParseUrl(cur).tls THEN "tls" ELSE "tcp"
      /\ UNCHANGED <<cur, history, shown, pend, wish, trail, deepest>>
  BY DEF Reach
<1>2. Way' /\ BackRetraces'
  BY <1>1, StayKeepsWay DEF BrowserInv
<1>3. Page'
  BY <1>1, PageStays DEF BrowserInv
<1>4. Pending'
  <2>1. channel' = IF ParseUrl(cur').tls THEN "tls" ELSE "tcp"
    BY <1>1
  <2>. QED
    BY <1>1, <2>1 DEF BrowserInv, Pending
<1>5. RequestIsAsked'
  BY <1>1 DEF RequestIsAsked
<1>. QED
  BY <1>2, <1>3, <1>4, <1>5 DEF BrowserInv

\* What is sent is what was waiting (ush_browser_fetch).
LEMMA SendKeeps ==
  ASSUME BrowserInv, Send
  PROVE  BrowserInv'
<1>1. /\ pc = "send" /\ pc' = "receive"
      /\ UNCHANGED <<cur, history, shown, pend, channel, trail, deepest>>
      /\ wish' = [wish EXCEPT !.times = @ + 1]
  BY DEF Send
<1>2. Way' /\ BackRetraces'
  BY <1>1, StayKeepsWay DEF BrowserInv
<1>3. Page'
  BY <1>1, PageStays DEF BrowserInv
<1>4. Pending /\ RequestIsAsked
  BY DEF BrowserInv
<1>5. wish' = [post |-> wish.post, target |-> cur, fields |-> wish.fields, times |-> 1, spoiled |-> wish.spoiled]
  BY <1>1, <1>4 DEF Pending
<1>6. /\ wish'.post = wish.post /\ wish'.target = cur /\ wish'.fields = wish.fields
      /\ wish'.times = 1 /\ wish'.spoiled = wish.spoiled
  BY <1>5
<1>7. Pending'
  BY <1>1, <1>4, <1>5, <1>6 DEF Pending
<1>8. RequestIsAsked'
  <2>. DEFINE body == CASE pend.len = 0 -> <<>>
                        [] pend.len > 0 /\ pend.body # <<>> -> pend.body
                        [] OTHER -> Stale
  <2>1. request'.url = ParseUrl(cur) /\ request'.post = pend.post /\ request'.body = body
    BY DEF Send
  <2>2. /\ pend.post \in BOOLEAN /\ pend.len \in Nat /\ pend.post = wish.post
        /\ channel = IF ParseUrl(cur).tls THEN "tls" ELSE "tcp"
        /\ pend.post => pend.len = Len(pend.body) /\ (pend.len = 0 => pend.body = <<>>)
                        /\ IsMeant(pend.body, wish.fields)
        /\ ~pend.post => pend.body = <<>> /\ (pend.len = 0 \/ wish.spoiled)
    BY <1>1, <1>4 DEF Pending
  <2>3. pend.len = 0 \/ pend.len > 0
    BY <2>2
  <2>4. pend.post => body = pend.body
    <3>1. Len(<<>>) = 0
      OBVIOUS
    <3>. QED
      BY <2>2, <2>3, <3>1
  <2>5. ~pend.post => body = <<>> \/ wish.spoiled
    BY <2>2
  <2>. HIDE DEF body
  <2>6. request'.post => IsMeant(request'.body, wish'.fields)
    BY <1>6, <2>1, <2>2, <2>4
  <2>7. channel' = IF request'.url.tls THEN "tls" ELSE "tcp"
    BY <1>1, <2>1, <2>2
  <2>8. channel' # "closed"
    BY <2>7
  <2>. QED
    BY <1>1, <1>6, <2>1, <2>2, <2>5, <2>6, <2>7, <2>8 DEF RequestIsAsked
<1>. QED
  BY <1>2, <1>3, <1>7, <1>8 DEF BrowserInv

LEMMA ReceiveKeeps ==
  ASSUME BrowserInv, Receive \/ ReceivePart
  PROVE  BrowserInv'
<1>1. CASE LoadFails
  BY <1>1, FailKeeps
<1>2. CASE Answer.kind = "page" /\ Show(Answer)
  <2>1. Answer \in Pages
    BY <1>2 DEF Answer, Pages
  <2>. QED
    BY <1>2, <2>1, PagesAreTyped, ShowKeeps
<1>3. ASSUME NEW links, Show([Blank EXCEPT !.links = links])
      PROVE  BrowserInv'
  BY <1>3, PartsAreTyped, ShowKeeps
<1>. QED
  BY <1>1, <1>2, <1>3 DEF Receive, ReceivePart

----------------------------------------------------------------------------
(* One command. *)

\* A command that leaves the page the session is at, and what waits for it.
LEMMA IdleKeeps ==
  ASSUME BrowserInv, Command, pc' \in {"prompt", "ended"}, Page',
         UNCHANGED <<cur, history, pend, wish, trail, deepest>>
  PROVE  BrowserInv'
<1>1. pc = "prompt" /\ UNCHANGED <<channel, request>>
  BY DEF Command
<1>2. Way' /\ BackRetraces'
  BY StayKeepsWay DEF BrowserInv
<1>3. Pending'
  BY <1>1 DEF BrowserInv, Pending
<1>4. RequestIsAsked'
  BY <1>1 DEF BrowserInv, RequestIsAsked
<1>. QED
  BY <1>2, <1>3, <1>4 DEF BrowserInv

\* A command that has a page loaded.
LEMMA LoadKeeps ==
  ASSUME BrowserInv, Command, pc' = "load", Page', Way', BackRetraces', Pending'
  PROVE  BrowserInv'
<1>1. channel = "closed" /\ channel' = channel
  BY DEF Command, BrowserInv, RequestIsAsked
<1>2. RequestIsAsked'
  BY <1>1 DEF RequestIsAsked
<1>. QED
  BY <1>2 DEF BrowserInv

\* Nothing waits for a page that is asked for as it is.
LEMMA GetIsPending ==
  ASSUME pc' = "load", pend' = NoPend, wish' = Get(cur')
  PROVE  Pending'
BY DEF Pending, NoPend, Get

LEMMA QuitKeeps ==
  ASSUME BrowserInv, Quit \/ ClearCookies \/ \E t \in Tokens \cup {Nothing} : SetToken(t)
  PROVE  BrowserInv'
<1>1. Command /\ UNCHANGED <<cur, history, shown, pend, wish, trail, deepest>>
  BY DEF Quit, ClearCookies, SetToken
<1>2. pc' \in {"prompt", "ended"}
  BY DEF Quit, ClearCookies, SetToken, Command
<1>3. Page'
  BY <1>1, PageStays DEF BrowserInv
<1>. QED
  BY <1>1, <1>2, <1>3, IdleKeeps

LEMMA SetFieldKeeps ==
  ASSUME BrowserInv, NEW k, NEW value \in Values, SetField(k, value)
  PROVE  BrowserInv'
<1>1. /\ Command /\ k \in DOMAIN shown.fields
      /\ shown' = [shown EXCEPT !.fields[k].value = value]
      /\ UNCHANGED <<cur, history, pend, pc, wish, trail, deepest>>
  BY DEF SetField
<1>2. pc' = "prompt"
  BY <1>1 DEF Command
<1>3. /\ shown = [links |-> shown.links, forms |-> shown.forms, fields |-> shown.fields]
      /\ shown.fields \in Seq(FieldType)
      /\ \A n \in DOMAIN shown.forms : shown.forms[n].post \in BOOLEAN
  BY DEF BrowserInv, Page
<1>. DEFINE field == [form |-> shown.fields[k].form, name |-> shown.fields[k].name,
                      value |-> value, live |-> shown.fields[k].live]
            fields == [shown.fields EXCEPT ![k] = field]
<1>4. k \in 1 .. Len(shown.fields) /\ shown.fields[k] \in FieldType
  BY <1>1, <1>3
<1>5. field \in FieldType /\ [shown.fields[k] EXCEPT !.value = value] = field
  BY <1>4, TypedAssumption DEF FieldType
<1>6. shown' = [links |-> shown.links, forms |-> shown.forms, fields |-> fields]
  BY ONLY <1>1, <1>3, <1>5
<1>7. fields \in Seq(FieldType)
  <2>. HIDE DEF field
  <2>. QED
    BY <1>3, <1>4, <1>5, ExceptSeq
<1>. HIDE DEF fields
<1>8. shown'.links = shown.links /\ shown'.forms = shown.forms /\ shown'.fields = fields
  BY <1>6
<1>9. Page'
  BY <1>3, <1>6, <1>7, <1>8 DEF Page
<1>. QED
  BY <1>1, <1>2, <1>9, IdleKeeps

LEMMA ReloadKeeps ==
  ASSUME BrowserInv, Reload \/ Back \/ \E mode \in BOOLEAN \cup {~srcMode} : SetView(mode)
  PROVE  BrowserInv'
<1>1. Command /\ pc' = "load" /\ UNCHANGED shown
  BY DEF Reload, Back, SetView
<1>2. Page'
  BY <1>1, PageStays DEF BrowserInv
<1>3. CASE Reload
  <2>1. UNCHANGED <<cur, history, trail, deepest>> /\ pend' = NoPend /\ wish' = Get(cur)
    BY <1>3 DEF Reload
  <2>2. Way' /\ BackRetraces'
    BY <2>1, StayKeepsWay DEF BrowserInv
  <2>3. wish' = Get(cur')
    BY <2>1
  <2>. QED
    BY <1>1, <1>2, <2>1, <2>2, <2>3, GetIsPending, LoadKeeps
<1>4. CASE Back
  <2>1. PopHistory /\ history # <<>> /\ pend' = NoPend
    BY <1>4 DEF Back
  <2>2. Way' /\ BackRetraces'
    BY <2>1, PopKeepsWay DEF BrowserInv
  <2>3. wish' = Get(cur')
    BY <2>1 DEF PopHistory
  <2>. QED
    BY <1>1, <1>2, <2>1, <2>2, <2>3, GetIsPending, LoadKeeps
<1>5. CASE \E mode \in BOOLEAN \cup {~srcMode} : SetView(mode)
  <2>1. /\ UNCHANGED <<cur, history, pend, trail, deepest>>
        /\ wish' = [Get(cur) EXCEPT !.spoiled = wish.spoiled]
    BY <1>5 DEF SetView
  <2>2. Way' /\ BackRetraces'
    BY <2>1, StayKeepsWay DEF BrowserInv
  <2>3. pc = "prompt" /\ Pending
    BY <1>1 DEF Command, BrowserInv
  <2>4. wish' = [post |-> FALSE, target |-> cur, fields |-> <<>>, times |-> 0, spoiled |-> wish.spoiled]
    BY <2>1 DEF Get
  <2>5. wish'.post = FALSE /\ wish'.fields = <<>> /\ wish'.times = 0 /\ wish'.spoiled = wish.spoiled
    BY <2>4
  <2>6. Pending'
    BY <1>1, <2>1, <2>3, <2>4, <2>5 DEF Pending
  <2>. QED
    BY <1>1, <1>2, <2>2, <2>6, LoadKeeps
<1>. QED
  BY <1>3, <1>4, <1>5

\* A page that is asked for (ush_browser_session_open).
LEMMA VisitKeeps ==
  ASSUME BrowserInv, Command, UNCHANGED shown, NEW text, Visit(text)
  PROVE  BrowserInv'
<1>1. Page'
  BY PageStays DEF BrowserInv
<1>2. CASE TargetOf(text) = cur
  <2>1. UNCHANGED <<cur, history, srcMode, pend, pc, wish, trail, deepest>>
    BY <1>2 DEF Visit
  <2>2. pc' = "prompt"
    BY <2>1 DEF Command
  <2>. QED
    BY <1>1, <2>1, <2>2, IdleKeeps
<1>3. CASE TargetOf(text) # cur
  <2>1. PushHistory /\ pend' = NoPend /\ pc' = "load" /\ cur' = TargetOf(text) /\ wish' = Get(TargetOf(text))
    BY <1>3 DEF Visit
  <2>2. Way' /\ BackRetraces'
    BY <2>1, PushKeepsWay DEF BrowserInv
  <2>3. wish' = Get(cur')
    BY <2>1
  <2>. QED
    BY <1>1, <2>1, <2>2, <2>3, GetIsPending, LoadKeeps
<1>. QED
  BY <1>2, <1>3

\* A form that is submitted (ush_browser_session_submit_form).
LEMMA SubmitKeeps ==
  ASSUME BrowserInv, NEW n \in DOMAIN shown.forms, Submit(n)
  PROVE  BrowserInv'
<1>. DEFINE form == shown.forms[n]
            action == IF form.action = <<>> THEN cur ELSE ResolveHref(cur, form.action)
            body == BuildBody(n)
            target == IF form.post THEN action ELSE JoinGetUrl(action, body.text)
            fails == action = Bad \/ ~body.ok \/ target = Bad
<1>1. /\ Command /\ UNCHANGED shown
      /\ IF fails
         THEN /\ pend' = [pend EXCEPT !.len = IF action = Bad THEN 0 ELSE Len(body.text)]
              /\ wish' = [wish EXCEPT !.spoiled = TRUE]
              /\ UNCHANGED <<cur, history, srcMode, pc, trail, deepest>>
         ELSE /\ pend' = IF form.post THEN [post |-> TRUE, body |-> body.text, len |-> Len(body.text)] ELSE NoPend
              /\ PushHistory /\ cur' = target /\ srcMode' = FALSE /\ pc' = "load"
              /\ wish' = [Get(target) EXCEPT !.post = form.post, !.fields = FieldsOf(n)]
  BY DEF Submit
<1>2. Page' /\ form.post \in BOOLEAN /\ pc = "prompt" /\ Pending /\ Page
  BY <1>1, PageStays DEF BrowserInv, Page, Command
<1>3. /\ body.ok => IsMeant(body.text, FieldsOf(n))
      /\ Len(body.text) \in Nat /\ (Len(body.text) = 0 => body.text = <<>>)
  BY <1>2, FormIsMeant
<1>. HIDE DEF action, body, target
<1>4. CASE fails
  <2>. DEFINE len == IF action = Bad THEN 0 ELSE Len(body.text)
  <2>1. /\ pend' = [pend EXCEPT !.len = len] /\ wish' = [wish EXCEPT !.spoiled = TRUE]
        /\ UNCHANGED <<cur, history, pc, trail, deepest>>
    BY <1>1, <1>4
  <2>2. len \in Nat
    BY <1>3
  <2>. HIDE DEF len
  <2>3. Way' /\ BackRetraces'
    BY <2>1, StayKeepsWay DEF BrowserInv
  <2>4. pend' = [post |-> pend.post, body |-> pend.body, len |-> len] /\ pend.post = FALSE
    BY <1>2, <2>1 DEF Pending
  <2>5. wish' = [post |-> wish.post, target |-> cur, fields |-> wish.fields, times |-> wish.times, spoiled |-> TRUE]
    <3>1. wish = [post |-> wish.post, target |-> cur, fields |-> wish.fields,
                  times |-> wish.times, spoiled |-> wish.spoiled]
      BY <1>2 DEF Pending
    <3>2. PICK yes : yes = TRUE
      OBVIOUS
    <3>3. wish' = [wish EXCEPT !.spoiled = yes]
      BY <2>1, <3>2
    <3>4. wish' = [post |-> wish.post, target |-> cur, fields |-> wish.fields,
                   times |-> wish.times, spoiled |-> yes]
      BY ONLY <3>1, <3>3
    <3>. QED
      BY <3>2, <3>4
  <2>6. /\ pend'.post = FALSE /\ pend'.body = pend.body /\ pend'.len = len
        /\ wish'.post = wish.post /\ wish'.fields = wish.fields /\ wish'.times = wish.times /\ wish'.spoiled = TRUE
    BY <2>4, <2>5
  <2>7. Pending'
    BY <1>2, <2>1, <2>2, <2>4, <2>5, <2>6 DEF Pending
  <2>8. channel = "closed" /\ channel' = channel
    BY <1>1, <1>2 DEF BrowserInv, RequestIsAsked, Command
  <2>9. RequestIsAsked'
    BY <1>2, <2>1, <2>8 DEF RequestIsAsked
  <2>. QED
    BY <1>2, <2>3, <2>7, <2>9 DEF BrowserInv
<1>5. CASE ~fails
  <2>1. /\ pend' = IF form.post THEN [post |-> TRUE, body |-> body.text, len |-> Len(body.text)] ELSE NoPend
        /\ PushHistory /\ cur' = target /\ pc' = "load"
        /\ wish' = [Get(target) EXCEPT !.post = form.post, !.fields = FieldsOf(n)]
    BY <1>1, <1>5
  <2>2. body.ok
    BY <1>5
  <2>3. Way' /\ BackRetraces'
    BY <2>1, PushKeepsWay DEF BrowserInv
  <2>. HIDE DEF form
  <2>4. wish' = [post |-> form.post, target |-> cur', fields |-> FieldsOf(n), times |-> 0, spoiled |-> FALSE]
    BY <2>1 DEF Get
  <2>5. /\ wish'.post = form.post /\ wish'.fields = FieldsOf(n)
        /\ wish'.times = 0 /\ wish'.spoiled = FALSE
    BY <2>4
  <2>6. Pending'
    <3>1. CASE form.post
      <4>1. pend' = [post |-> TRUE, body |-> body.text, len |-> Len(body.text)]
        BY <2>1, <3>1
      <4>2. pend'.post = TRUE /\ pend'.body = body.text /\ pend'.len = Len(body.text)
        BY <4>1
      <4>. QED
        BY <1>2, <1>3, <2>1, <2>2, <2>4, <2>5, <3>1, <4>1, <4>2 DEF Pending
    <3>2. CASE ~form.post
      <4>1. pend' = NoPend
        BY <2>1, <3>2
      <4>2. pend'.post = FALSE /\ pend'.body = <<>> /\ pend'.len = 0
        BY <4>1 DEF NoPend
      <4>3. form.post = FALSE
        BY <1>2, <3>2
      <4>4. wish' = [post |-> wish'.post, target |-> cur', fields |-> wish'.fields,
                     times |-> wish'.times, spoiled |-> wish'.spoiled]
        BY ONLY <2>4, <2>5
      <4>5. pend' = [post |-> pend'.post, body |-> pend'.body, len |-> pend'.len]
        BY ONLY <4>1, <4>2 DEF NoPend
      <4>6. /\ pend'.post = wish'.post /\ ~pend'.post /\ pend'.post \in BOOLEAN
            /\ wish'.spoiled \in BOOLEAN
        BY <2>5, <4>2, <4>3
      <4>7. pend'.len = 0 /\ pend'.len \in Nat /\ pc' = "load"
        BY <2>1, <4>2
      <4>. QED
        BY ONLY <2>5, <4>2, <4>4, <4>5, <4>6, <4>7 DEF Pending
    <3>. QED
      BY <3>1, <3>2
  <2>. QED
    BY <1>1, <1>2, <2>1, <2>3, <2>6, LoadKeeps
<1>. QED
  BY <1>4, <1>5

----------------------------------------------------------------------------

LEMMA BrowserStep ==
  ASSUME BrowserInv, [BrowserNext]_browserVars
  PROVE  BrowserInv'
<1>1. CASE ReadFile
  BY <1>1, ReadFileKeeps
<1>2. CASE ConnectFails \/ SendFails \/ ReceiveFails
  BY <1>2, FailKeeps DEF ConnectFails, SendFails, ReceiveFails
<1>3. CASE Reach
  BY <1>3, ReachKeeps
<1>4. CASE Send
  BY <1>4, SendKeeps
<1>5. CASE Receive \/ ReceivePart
  BY <1>5, ReceiveKeeps
<1>6. CASE Quit \/ ClearCookies \/ \E t \in Tokens \cup {Nothing} : SetToken(t)
  BY <1>6, QuitKeeps
<1>7. CASE Reload \/ Back \/ SetView(~srcMode) \/ SetView(FALSE)
  BY <1>7, ReloadKeeps
<1>8. CASE \E k \in DOMAIN shown.fields, value \in Values : SetField(k, value)
  BY <1>8, SetFieldKeeps
<1>9. CASE \E n \in DOMAIN shown.forms : Submit(n)
  BY <1>9, SubmitKeeps
<1>10. CASE \E text \in Typed : Enter(text)
  BY <1>10, VisitKeeps DEF Enter
<1>11. CASE \E k \in DOMAIN shown.links : Follow(k)
  BY <1>11, VisitKeeps DEF Follow
<1>12. CASE UNCHANGED browserVars
  BY <1>12, StutterKeeps
<1>. QED
  BY <1>1, <1>2, <1>3, <1>4, <1>5, <1>6, <1>7, <1>8, <1>9, <1>10, <1>11, <1>12 DEF BrowserNext

\* The browser keeps its invariant, for every set of pages and addresses, every
\* limit on its buffers and its history (browser_session.c).
THEOREM BrowserIsSound == BrowserSpec => []BrowserInv
<1>1. BrowserInit => BrowserInv
  BY BrowserStarts
<1>2. BrowserInv /\ [BrowserNext]_browserVars => BrowserInv'
  BY BrowserStep
<1>. QED
  BY <1>1, <1>2, PTL DEF BrowserSpec

\* What goes to a server is what the last command asked for: a form is posted at
\* most once, to its own target, and what the server reads from its body is the
\* fields as they were typed, whatever characters they hold (browser_form.c and
\* the pending_ variables of browser_session.c).
THEOREM WhatIsAskedIsSent == BrowserSpec => []RequestIsAsked
<1>1. BrowserInv => RequestIsAsked
  BY DEF BrowserInv
<1>. QED
  BY <1>1, BrowserIsSound, PTL

\* b, and a load that fails, lead back over the pages as they were left
\* (ush_browser_history_push and _pop).
THEOREM TheWayBackIsKept == BrowserSpec => []BackRetraces
<1>1. BrowserInv => BackRetraces
  BY DEF BrowserInv
<1>. QED
  BY <1>1, BrowserIsSound, PTL
=============================================================================
