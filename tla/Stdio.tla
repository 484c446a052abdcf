------------------------------- MODULE Stdio --------------------------------
(***************************************************************************)
(* The standard streams of a process (src/stdio.c) and its start and end   *)
(* (src/runtime.c).  puts, putchar and fputs go through a buffer for the   *)
(* descriptors 1 and 2; printf writes each piece to the descriptor at once;*)
(* a process the desktop captures appends everything to the capture file.  *)
(* The kernel may refuse a write, or the rest of it, at any time.          *)
(***************************************************************************)
EXTENDS Integers, Sequences, FiniteSets, Format

CONSTANTS
    BufSize,    \* CLIO_STDIO_BUF_SIZE
    Slots,      \* CLIO_FILE_TABLE_SIZE
    Free,       \* a slot of the file table that is not used
    Texts,      \* the texts printed as they are: [fd, text]
    Specs,      \* the conversions printed with printf: [fd, spec]
    SnprintfSize,   \* the buffer snprintf writes to
    Rooms,      \* how much the kernel takes during a call before it refuses
    MaxCalls    \* bound: calls of one process

VARIABLES
    capture,    \* whether XDE_CAPTURE_PATH was in the environment
    buf,        \* clio_stdout_buf and clio_stderr_buf
    out,        \* what each sink has received
    said,       \* what the program printed to each sink, as C defines it
    lost,       \* sinks that refused a write
    phase, left,
    table,      \* clio_file_table: the descriptor of each slot
    fds         \* descriptors the kernel holds open for the process

vars == <<capture, buf, out, said, lost, phase, left, table, fds>>

Other == 3      \* a descriptor that is neither stdout nor stderr
CaptureFile == 4
Sinks == 1..4
Sink(fd) == IF capture /\ fd \in {1, 2} THEN CaptureFile ELSE fd
Buffered(fd) == fd \in {1, 2} /\ ~capture

\* The bytes of a text as they are told apart: by what they are, the way
\* they take and their number among the bytes said to the sink.
Said(fd, via, text) ==
    [i \in DOMAIN text |-> [via |-> via, ch |-> text[i], n |-> Len(said[Sink(fd)]) + i]]

---------------------------------------------------------------------------
(***************************************************************************)
(* One call works on [buf, out, room, ok]: the buffer, the sink, what the  *)
(* kernel still takes, and whether all went well.                          *)
(***************************************************************************)
\* clio_write_all_fd: short writes are continued until one is refused.  An
\* append to the capture file is taken whole or not at all.
WriteAll(fd, s, bytes) ==
    LET fits == Len(bytes) <= s.room
        n    == IF fits THEN Len(bytes) ELSE IF Sink(fd) = CaptureFile THEN 0 ELSE s.room
    IN  [s EXCEPT !.out = @ \o SubSeq(bytes, 1, n), !.room = @ - n, !.ok = fits]

\* The length is set to 0 first: what the kernel refuses is gone.
FlushStdio(fd, s) ==
    IF s.buf = <<>> THEN [s EXCEPT !.ok = TRUE] ELSE WriteAll(fd, [s EXCEPT !.buf = <<>>], s.buf)

BufferedWrite_Direct(fd, s, bytes) ==
    IF Len(bytes) >= BufSize THEN WriteAll(fd, s, bytes)
    ELSE IF Len(s.buf) + Len(bytes) <= BufSize THEN [s EXCEPT !.buf = @ \o bytes]
    ELSE [FlushStdio(fd, s) EXCEPT !.buf = bytes]
RECURSIVE BufferedWrite(_, _, _)
BufferedWrite(fd, s, bytes) ==
    IF ~Buffered(fd) THEN WriteAll(fd, s, bytes)
    ELSE IF bytes = <<>> THEN s
    ELSE LET flushed == IF Len(s.buf) = BufSize THEN FlushStdio(fd, s) ELSE s
             chunk   == Least(Len(bytes), BufSize - Len(flushed.buf))
             head    == SubSeq(bytes, 1, chunk)
             put     == IF chunk = BufSize THEN WriteAll(fd, flushed, head)
                        ELSE [flushed EXCEPT !.buf = @ \o head]
         IN  IF ~flushed.ok THEN flushed
             ELSE IF ~put.ok THEN put
             ELSE BufferedWrite(fd, put, SubSeq(bytes, chunk + 1, Len(bytes)))

\* clio_vformat on a descriptor: byte after byte until one is refused.
EmitToFd(fd, s, bytes) ==
    IF Sink(fd) = CaptureFile
    THEN LET n == Least(s.room, Len(bytes))
         IN  [s EXCEPT !.out = @ \o SubSeq(bytes, 1, n), !.ok = n = Len(bytes)]
    ELSE WriteAll(fd, s, bytes)

At(fd, room) ==
    [buf |-> IF fd \in {1, 2} THEN buf[fd] ELSE <<>>, out |-> out[Sink(fd)], room |-> room, ok |-> TRUE]

After(fd, s, more) ==
    /\ buf' = IF fd \in {1, 2} THEN [buf EXCEPT ![fd] = s.buf] ELSE buf
    /\ out' = [out EXCEPT ![Sink(fd)] = s.out]
    /\ said' = [said EXCEPT ![Sink(fd)] = @ \o more]
    /\ lost' = IF s.ok THEN lost ELSE lost \cup {Sink(fd)}
    /\ UNCHANGED <<capture, table, fds>>

Calls(next) == phase = "running" /\ left > 0 /\ left' = left - 1 /\ phase' = next

---------------------------------------------------------------------------
\* fputs, fputc and putchar; a text made by snprintf is cut to its buffer.
Fputs(fd, text, room) ==
    /\ Calls("running")
    /\ LET bytes == Said(fd, "buffer", text) IN After(fd, BufferedWrite(fd, At(fd, room), bytes), bytes)

\* puts adds the line break only when the text was taken.
Puts(text, room) ==
    /\ Calls("running")
    /\ LET all  == Said(1, "buffer", Append(text, "\n"))
           body == SubSeq(all, 1, Len(text))
           put  == BufferedWrite(1, At(1, room), body)
       IN  IF put.ok THEN After(1, BufferedWrite(1, put, SubSeq(all, Len(text) + 1, Len(all))), all)
           ELSE After(1, put, body)

Snprintf(spec, size) == Truncated(VFormat(spec), size)
PutsFormatted(fd, spec, size, room) ==
    /\ Calls("running")
    /\ LET cut == Truncated(CText(spec), size)
       IN  After(fd, BufferedWrite(fd, At(fd, room), Said(fd, "buffer", Snprintf(spec, size))),
                 Said(fd, "buffer", cut))

\* printf, fprintf and dprintf
Printf(fd, spec, room) ==
    /\ Calls("running")
    /\ After(fd, EmitToFd(fd, At(fd, room), Said(fd, "direct", VFormat(spec))), Said(fd, "direct", CText(spec)))

Fflush(fd, room) ==
    /\ Calls("running")
    /\ After(fd, FlushStdio(fd, At(fd, room)), <<>>)

\* Both buffers are written out and a refusal is not looked at.
FlushAll(r1, r2) ==
    LET s == [fd \in {1, 2} |-> FlushStdio(fd, [buf |-> buf[fd], out |-> out[fd],
                                                room |-> IF fd = 1 THEN r1 ELSE r2, ok |-> TRUE])]
    IN  /\ buf' = [fd \in {1, 2} |-> s[fd].buf]
        /\ out' = [k \in Sinks |-> IF k \in {1, 2} THEN s[k].out ELSE out[k]]
        /\ lost' = lost \cup {fd \in {1, 2} : ~s[fd].ok}
        /\ UNCHANGED <<capture, said, table, fds>>

\* getchar and fgetc(0) wait, yielding, until a byte or an error comes.
Getchar(r1, r2) == Calls("reading") /\ FlushAll(r1, r2)
Answered ==
    /\ phase = "reading"
    /\ phase' = "running"
    /\ UNCHANGED <<capture, buf, out, said, lost, left, table, fds>>

\* cleonos_app_main returns to _start.
Return(r1, r2) ==
    /\ phase = "running"
    /\ phase' = "done"
    /\ left' = left
    /\ FlushAll(r1, r2)

---------------------------------------------------------------------------
\* The kernel gives a descriptor; without a free slot it is closed again.
Fopen ==
    /\ Calls("running")
    /\ LET fd   == CHOOSE n \in 0..(Slots + 3) : n \notin fds /\ \A m \in 0..(n - 1) : m \in fds
           free == {i \in 1..Slots : table[i] = Free}
       IN  IF free = {} THEN UNCHANGED <<table, fds>>
           ELSE /\ table' = [table EXCEPT ![CHOOSE i \in free : \A j \in free : i <= j] = fd]
                /\ fds' = fds \cup {fd}
    /\ UNCHANGED <<capture, buf, out, said, lost>>

Fclose(i) ==
    /\ Calls("running")
    /\ table[i] # Free
    /\ fds' = fds \ {table[i]}
    /\ table' = [table EXCEPT ![i] = Free]
    /\ UNCHANGED <<capture, buf, out, said, lost>>

\* _start: cleonos_stdio_configure looks for the capture path.
Init ==
    /\ capture \in BOOLEAN
    /\ buf = [fd \in {1, 2} |-> <<>>]
    /\ out = [k \in Sinks |-> <<>>]
    /\ said = [k \in Sinks |-> <<>>]
    /\ lost = {}
    /\ phase = "running"
    /\ left = MaxCalls
    /\ table = [i \in 1..Slots |-> Free]
    /\ fds = {0, 1, 2}

Next ==
    \/ \E t \in Texts, room \in Rooms :
          \/ Fputs(t.fd, t.text, room)
          \/ t.fd = 1 /\ Puts(t.text, room)
    \/ \E p \in Specs, room \in Rooms :
          \/ Printf(p.fd, p.spec, room)
          \/ p.fd = 2 /\ PutsFormatted(p.fd, p.spec, SnprintfSize, room)
    \/ \E fd \in {1, 2}, room \in Rooms : Fflush(fd, room)
    \/ \E r1, r2 \in Rooms : Getchar(r1, r2) \/ Return(r1, r2)
    \/ Answered
    \/ Fopen
    \/ \E i \in 1..Slots : Fclose(i)

Spec == Init /\ [][Next]_vars

---------------------------------------------------------------------------
\* Every byte a program prints reaches its descriptor once, formatted as C
\* has it, and in order with the bytes printed the same way: through the
\* buffer or at once.  Only a refused write loses bytes, never their order;
\* nothing waits in a buffer while the program waits for input or has ended;
\* the capture file gets all in the order of the calls.  The descriptors
\* open are those of the table.
Of(via, s) == SelectSeq(s, LAMBDA b : b.via = via)
InOrder(s) == \A i, j \in DOMAIN s : i < j => s[i].n < s[j].n
BytesKept ==
    /\ \A k \in Sinks :
          LET waiting == IF k \in {1, 2} THEN buf[k] ELSE <<>>
          IN  IF k \in lost
              THEN \A via \in {"buffer", "direct"} :
                      /\ InOrder(Of(via, out[k]) \o Of(via, waiting))
                      /\ \A i \in DOMAIN out[k] : out[k][i] = said[k][out[k][i].n]
              ELSE IF k = CaptureFile THEN out[k] = said[k]
              ELSE /\ Of("direct", out[k]) = Of("direct", said[k])
                   /\ Of("buffer", out[k]) \o waiting = Of("buffer", said[k])
    /\ phase # "running" => buf[1] = <<>> /\ buf[2] = <<>>
    /\ fds = {0, 1, 2} \cup ({table[i] : i \in 1..Slots} \ {Free})
=============================================================================
