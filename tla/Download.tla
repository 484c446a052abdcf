------------------------------ MODULE Download ------------------------------
(***************************************************************************)
(* wget: one download over a byte stream that arrives in pieces of any     *)
(* size, with a decoder for chunked bodies that keeps its state between    *)
(* the pieces.  The browser reads the same streams with two functions of   *)
(* its own over the whole buffer, one that decides whether a body is       *)
(* complete and one that decodes it; they are stated here to be compared.  *)
(*                                                                         *)
(* The response is a header of a number of cells and a body of tokens:     *)
(* the digits 0 .. Radix - 1 of a chunk size, ";", CR, LF and the          *)
(* characters of Text, which are no digits.  Blanks inside a size line and *)
(* headers whose lines end in LF alone are left out.                       *)
(***************************************************************************)
EXTENDS Naturals, Sequences, SequencesExt

CONSTANTS
    Radix,      \* digits of a chunk size: 16 in the code
    MaxSize,    \* the largest size a word holds: 2^64 - 1 in the code
    HeaderMax,  \* cells of the header buffer: USH_WGET_HEADER_MAX
    MaxPiece,   \* cells of a received piece: USH_WGET_RECV_CHUNK
    Text,       \* characters that are neither digits nor punctuation
    Responses,  \* what servers answer
    Unknown,    \* the contents of a body that breaks the rules
    OldFile,    \* what the output path holds before
    Semi, CR, LF

Digits == 0 .. Radix - 1
BodyTokens == Digits \cup Text \cup {Semi, CR, LF}

\* A response is a record of kind, how the header says the body ends ("chunked",
\* "length", "open" or "error"), length, head, the cells of the header, tls, body,
\* and content, what the server meant, when it writes a chunked body by the rules.

VARIABLES
    resp,   \* the response of the server
    got,    \* cells of it received so far
    chunk,  \* ush_wget_chunk_state
    file,   \* the output file
    saved,  \* bytes counted as saved
    eof,    \* the TLS peer has closed the session
    pc,     \* "resolve", "connect", "header", "body", "saved" or "failed"
    how     \* why the loop ended

vars == <<resp, got, chunk, file, saved, eof, pc, how>>

Upto(s, n) == SubSeq(s, 1, IF n < Len(s) THEN n ELSE Len(s))

\* The body as far as it has arrived.
Arrived == Upto(resp.body, IF got > resp.head THEN got - resp.head ELSE 0)

----------------------------------------------------------------------------
(* The chunk decoder, one token at a time.  Besides the fields of the code a    *)
(* chunk state carries what is to be written (out), the return value 0 (bad),   *)
(* and two fields for the properties: the last token outside the data (prev)    *)
(* and whether a line ended in anything but exactly CR LF (lax).                *)

NewChunk == [state |-> "size", remaining |-> 0, acc |-> 0, digit |-> FALSE, ext |-> FALSE,
             trailer |-> 0, done |-> FALSE, bad |-> FALSE, out |-> <<>>,
             prev |-> LF, lax |-> FALSE]

Broken(c) == [c EXCEPT !.bad = TRUE]

\* Fault: an extension goes on in the next size line.
FinishSizeLine_KeepsExt(c) ==
    IF ~c.digit THEN Broken(c)
    ELSE [c EXCEPT !.remaining = c.acc, !.acc = 0, !.digit = FALSE,
                   !.trailer = 0, !.state = IF c.acc = 0 THEN "trailer" ELSE "data"]

FinishSizeLine(c) ==
    IF ~c.digit THEN Broken(c)
    ELSE [c EXCEPT !.remaining = c.acc, !.acc = 0, !.digit = FALSE, !.ext = FALSE,
                   !.trailer = 0, !.state = IF c.acc = 0 THEN "trailer" ELSE "data"]

\* Fault: the size may grow beyond a word.
SizeDigit_Unchecked(c, t) == [c EXCEPT !.acc = @ * Radix + t, !.digit = TRUE]

SizeDigit(c, t) ==
    IF c.acc > MaxSize \div Radix THEN Broken(c)
    ELSE [c EXCEPT !.acc = @ * Radix + t, !.digit = TRUE]

InSize(c, t) ==
    CASE t = CR -> [c EXCEPT !.state = "sizeLF"]
      [] t = LF -> FinishSizeLine(c)
      [] t = Semi -> IF c.digit THEN [c EXCEPT !.ext = TRUE] ELSE Broken(c)
      [] t \notin {CR, LF, Semi} /\ c.ext -> c
      [] t \in Digits /\ ~c.ext -> SizeDigit(c, t)
      [] OTHER -> Broken(c)

InSizeLF(c, t) == IF t = LF THEN FinishSizeLine(c) ELSE Broken(c)

InData(c, t) ==
    [c EXCEPT !.out = Append(@, t), !.remaining = @ - 1,
              !.state = IF c.remaining = 1 THEN "dataLF" ELSE "data"]

InDataLF(c, t) ==
    CASE t = CR -> c
      [] t = LF -> [c EXCEPT !.state = "size"]
      [] OTHER -> Broken(c)

\* The trailer ends with its first empty line.
InTrailer(c, t) ==
    CASE t = CR -> [c EXCEPT !.state = "trailerLF"]
      [] t = LF -> [c EXCEPT !.done = (c.trailer = 0), !.trailer = 0]
      [] OTHER -> [c EXCEPT !.trailer = @ + 1]

\* Fault: the length of a trailer line is not cleared.
InTrailerLF_KeepsLength(c, t) ==
    IF t # LF THEN Broken(c)
    ELSE [c EXCEPT !.done = (c.trailer = 0), !.state = "trailer"]

InTrailerLF(c, t) ==
    IF t # LF THEN Broken(c)
    ELSE IF c.trailer = 0 THEN [c EXCEPT !.done = TRUE]
    ELSE [c EXCEPT !.trailer = 0, !.state = "trailer"]

Decoded(c, t) ==
    CASE c.state = "size" -> InSize(c, t)
      [] c.state = "sizeLF" -> InSizeLF(c, t)
      [] c.state = "data" -> InData(c, t)
      [] c.state = "dataLF" -> InDataLF(c, t)
      [] c.state = "trailer" -> InTrailer(c, t)
      [] c.state = "trailerLF" -> InTrailerLF(c, t)

FeedOne(c, t) ==
    IF c.done \/ c.bad THEN c
    ELSE IF c.state = "data" THEN [Decoded(c, t) EXCEPT !.prev = LF]
    ELSE [Decoded(c, t) EXCEPT !.prev = t, !.lax = c.lax \/ ((t = LF) # (c.prev = CR))]

\* What a piece of the body does to the decoder.
Feed(c, piece) == FoldLeft(FeedOne, [c EXCEPT !.out = <<>>], piece)

----------------------------------------------------------------------------
(* The browser's two functions over the whole of a body s.                      *)

\* The first CR LF at or after position i, or 0.
LineEnd(s, i) ==
    LET at == {e \in i .. Len(s) - 1 : s[e] = CR /\ s[e + 1] = LF}
    IN  IF at = {} THEN 0 ELSE CHOOSE e \in at : \A f \in at : e <= f

\* What comes before an extension in the size line from i to e.
SizeText(s, i, e) ==
    LET semi == {k \in i .. e - 1 : s[k] = Semi}
    IN  SubSeq(s, i, (IF semi = {} THEN e ELSE CHOOSE k \in semi : \A j \in semi : k <= j) - 1)

NumberOf(digits) == FoldLeft(LAMBDA n, d : n * Radix + d, 0, digits)

\* How many characters of the size line each function reads as its size.
DigitRun(text) ==
    CHOOSE k \in 0 .. Len(text) :
        /\ \A j \in 1 .. k : text[j] \in Digits /\ NumberOf(SubSeq(text, 1, j - 1)) <= MaxSize \div Radix
        /\ k < Len(text) => \/ text[k + 1] \notin Digits
                            \/ NumberOf(SubSeq(text, 1, k)) > MaxSize \div Radix

TrailerEnds(s, i) ==
    LET from[j \in 1 .. Len(s) + 1] ==
            IF LineEnd(s, j) = 0 THEN "no"
            ELSE IF LineEnd(s, j) = j THEN "yes"
            ELSE from[LineEnd(s, j) + 2]
    IN  from[i]

\* ush_browser_is_chunked_body_complete
IsComplete(s) ==
    LET from[i \in 1 .. Len(s) + 1] ==
            LET e    == LineEnd(s, i)
                text == SizeText(s, i, e)
                n    == NumberOf(text)
                d    == e + 2
            IN  IF e = 0 THEN "no"
                ELSE IF text = <<>> \/ DigitRun(text) < Len(text) THEN "invalid"
                ELSE IF n = 0 THEN TrailerEnds(s, d)
                ELSE IF d + n + 1 > Len(s) THEN "no"
                ELSE IF s[d + n] # CR \/ s[d + n + 1] # LF THEN "invalid"
                ELSE from[d + n + 2]
    IN  from[1]

\* ush_browser_decode_chunked_body: it takes what it can get and reports no error.
DecodeBody(s) ==
    LET from[i \in 1 .. Len(s) + 1] ==
            LET e    == LineEnd(s, i)
                text == SizeText(s, i, e)
                n    == NumberOf(SubSeq(text, 1, DigitRun(text)))
                d    == e + 2
            IN  IF e = 0 THEN <<>>
                ELSE IF n = 0 THEN <<>>
                ELSE IF LineEnd(s, d + n) # d + n
                     THEN Upto(SubSeq(s, d, Len(s)), n)
                ELSE SubSeq(s, d, d + n - 1) \o from[d + n + 2]
    IN  from[1]

----------------------------------------------------------------------------
Init ==
    /\ resp \in Responses
    /\ got = 0 /\ chunk = NewChunk
    /\ file = OldFile /\ saved = 0
    /\ eof = FALSE /\ pc = "resolve" /\ how = "none"

End(result, why) == pc' = result /\ how' = why

\* No network, no address, or the output cannot be opened.
ResolveFails ==
    /\ pc = "resolve"
    /\ End("failed", "refused")
    /\ UNCHANGED <<resp, got, chunk, file, saved, eof>>

\* The output is truncated before the server is asked.
OpenOutput ==
    /\ pc = "resolve"
    /\ file' = <<>>
    /\ End("connect", "none")
    /\ UNCHANGED <<resp, got, chunk, saved, eof>>

\* Connecting and sending the request, with or without TLS.
Connect ==
    /\ pc = "connect"
    /\ End("header", "none") \/ End("failed", "refused")
    /\ UNCHANGED <<resp, got, chunk, file, saved, eof>>

TakeChunked(piece) ==
    LET c == Feed(chunk, piece)
    IN  /\ chunk' = c
        /\ file' = file \o c.out /\ saved' = saved + Len(c.out)
        /\ IF c.bad THEN End("failed", "invalid")
           ELSE IF c.done THEN End("saved", "complete")
           ELSE End("body", "none")

\* Fault: what comes after the body is written too.
TakeLength_Unclamped(piece) ==
    /\ file' = file \o piece
    /\ saved' = saved + Len(piece)
    /\ IF piece # <<>> /\ saved' >= resp.length THEN End("saved", "complete")
       ELSE End("body", "none")
    /\ UNCHANGED chunk

TakeLength(piece) ==
    LET left == resp.length - saved
    IN  /\ file' = file \o Upto(piece, left)
        /\ saved' = saved + Len(Upto(piece, left))
        /\ IF piece # <<>> /\ saved' = resp.length THEN End("saved", "complete")
           ELSE End("body", "none")
        /\ UNCHANGED chunk

TakeOpen(piece) ==
    /\ file' = file \o piece /\ saved' = saved + Len(piece)
    /\ End("body", "none")
    /\ UNCHANGED chunk

Take(piece) ==
    CASE resp.kind = "chunked" -> TakeChunked(piece)
      [] resp.kind = "length" -> TakeLength(piece)
      [] resp.kind = "open" -> TakeOpen(piece)

\* n cells arrive: all of them header, the end of it and some of the body, or body.
Piece(n) == SubSeq(resp.body, (IF got > resp.head THEN got - resp.head ELSE 0) + 1,
                   got + n - resp.head)
Arrives(n) == ~eof /\ got + n <= resp.head + Len(resp.body) /\ got' = got + n

ReceiveHeader(n) ==
    /\ pc = "header" /\ Arrives(n)
    /\ IF got + n > HeaderMax THEN End("failed", "header") /\ UNCHANGED <<chunk, file, saved>>
       ELSE IF got + n < resp.head THEN End("header", "none") /\ UNCHANGED <<chunk, file, saved>>
       ELSE IF resp.kind = "error" THEN End("failed", "status") /\ UNCHANGED <<chunk, file, saved>>
       ELSE Take(Piece(n))
    /\ UNCHANGED <<resp, eof>>

ReceiveBody(n) ==
    /\ pc = "body" /\ Arrives(n)
    /\ Take(Piece(n))
    /\ UNCHANGED <<resp, eof>>

\* A write fails after k tokens of what a piece was to write.
WriteFails(n, k) ==
    /\ pc \in {"header", "body"} /\ Arrives(n)
    /\ got + n <= HeaderMax \/ pc = "body"
    /\ got + n >= resp.head /\ resp.kind # "error"
    /\ LET data == CASE resp.kind = "chunked" -> Feed(chunk, Piece(n)).out
                     [] resp.kind = "length" -> Upto(Piece(n), resp.length - saved)
                     [] resp.kind = "open" -> Piece(n)
       IN  /\ k < Len(data)
           /\ file' = file \o SubSeq(data, 1, k)
    /\ End("failed", "write")
    /\ UNCHANGED <<resp, chunk, saved, eof>>

(* Polls that bring nothing. *)

PeerCloses ==
    /\ resp.tls /\ ~eof /\ pc \in {"header", "body"}
    /\ eof' = TRUE
    /\ UNCHANGED <<resp, got, chunk, file, saved, pc, how>>

\* The end of a TLS session ends the download, whatever has arrived.
PollEof ==
    /\ eof /\ pc \in {"header", "body"}
    /\ IF pc = "body" THEN End("saved", "eof") ELSE End("failed", "empty")
    /\ UNCHANGED <<resp, got, chunk, file, saved, eof>>

AllSaved == pc = "body" /\ resp.kind = "length" /\ saved >= resp.length

PollEnd ==
    /\ ~eof /\ AllSaved
    /\ End("saved", "complete")
    /\ UNCHANGED <<resp, got, chunk, file, saved, eof>>

\* Nothing for ten seconds: a body without a length ends so.
PollExpired ==
    /\ ~eof /\ pc \in {"header", "body"} /\ ~AllSaved
    /\ IF pc = "body" /\ resp.kind = "open" /\ saved > 0
       THEN End("saved", "idle") ELSE End("failed", "timeout")
    /\ UNCHANGED <<resp, got, chunk, file, saved, eof>>

TlsError ==
    /\ resp.tls /\ ~eof /\ pc \in {"header", "body"}
    /\ End("failed", "tls")
    /\ UNCHANGED <<resp, got, chunk, file, saved, eof>>

Next ==
    \/ ResolveFails \/ OpenOutput \/ Connect
    \/ \E n \in 1 .. MaxPiece :
         \/ ReceiveHeader(n) \/ ReceiveBody(n)
         \/ \E k \in 0 .. n : WriteFails(n, k)
    \/ PeerCloses \/ PollEof \/ PollEnd \/ PollExpired \/ TlsError

Spec == Init /\ [][Next]_vars

----------------------------------------------------------------------------
(* Properties.                                                                 *)

Opened == file # OldFile

TypeOK ==
    /\ got \in 0 .. resp.head + Len(resp.body)
    /\ chunk.state \in {"size", "sizeLF", "data", "dataLF", "trailer", "trailerLF"}
    /\ chunk.remaining \in 0 .. MaxSize /\ chunk.acc \in 0 .. MaxSize
    /\ saved \in Nat /\ eof \in BOOLEAN
    /\ pc \in {"resolve", "connect", "header", "body", "saved", "failed"}
    /\ how \in {"none", "refused", "invalid", "complete", "header", "status", "write",
                "eof", "empty", "idle", "timeout", "tls"}

\* What is reported saved is the whole body and nothing else, however the pieces
\* fall, TLS peers that close early excepted.  A chunked body written by the rules,
\* with extensions, trailers and data that looks like framing, is never found
\* invalid, and the file holds a prefix of its contents at every moment; of a body
\* of a given length nothing that follows it on the connection is taken
\* (ush_wget_chunked_write_feed, ush_cmd_wget).
SavedIsWhole ==
    /\ TypeOK
    /\ (Opened /\ resp.content # Unknown) =>
          /\ ~chunk.bad
          /\ IsPrefix(file, resp.content)
          /\ pc = "saved" /\ (how # "eof" \/ Arrived = resp.body) => file = resp.content
    /\ (Opened /\ resp.kind = "length") =>
          /\ IsPrefix(file, Upto(resp.body, resp.length))
          /\ pc = "saved" /\ how # "eof" => saved = resp.length /\ Len(file) = resp.length

\* wget and the browser agree on every body whose lines end in CR LF, valid or
\* not: wget is at the end exactly when the browser holds the body complete, both
\* have the same contents then, and what the browser refuses wget has refused
\* (ush_wget_chunked_write_feed; ush_browser_is_chunked_body_complete and
\* ush_browser_decode_chunked_body).
BrowserAgrees ==
    (resp.kind = "chunked" /\ pc \in {"body", "saved", "failed"} /\ ~chunk.lax
       /\ how \in {"none", "complete", "invalid"}) =>
        /\ chunk.done <=> IsComplete(Arrived) = "yes"
        /\ IsComplete(Arrived) = "invalid" => chunk.bad
        /\ chunk.done => DecodeBody(Arrived) = file
=============================================================================
