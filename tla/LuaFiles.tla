------------------------------ MODULE LuaFiles ------------------------------
(***************************************************************************)
(* The files of the Lua port (apps/lua/lua_cleonos_compat.c): the three    *)
(* standard streams and a table of slots, each a descriptor with a cell    *)
(* for one byte pushed back.  Nothing is buffered; the kernel may cut a    *)
(* write or break a read.                                                  *)
(***************************************************************************)
EXTENDS Integers, Sequences, FiniteSets, Format

CONSTANTS
    Slots,      \* CLEONOS_LUA_MAX_FILES
    Closed,     \* a handle without its magic number
    Content,    \* the files that exist: a path to its bytes
    NewPath,    \* a path without a file
    Break,      \* the line break among the bytes
    Modes,      \* the modes asked of fopen
    Specs,      \* the conversions printed
    FprintfMax, \* the buffer of fprintf: 512 bytes
    Nul, Stray, \* the byte 0, and a byte that stands behind that buffer
    Rooms,      \* how much the kernel takes of a write
    MaxCalls    \* bound: calls of one program

VARIABLES
    files,      \* the handles: 1 stdin, 2 stdout, 3 stderr, the slots after
    kernel,     \* the open descriptors
    strays,     \* descriptors freopen could not close
    left

vars == <<files, kernel, strays, left>>

Std == 1..3
Handles == 1..(3 + Slots)
Live(h) == files[h] # Closed
Handle(fd, stdio) == [fd |-> fd, stdio |-> stdio, eof |-> FALSE, err |-> FALSE, ungot |-> <<>>]

\* What the kernel keeps of a descriptor, with what the program has got from
\* it and said to it, and whether fprintf has written more than its buffer.
Opened(bytes, flags) ==
    [bytes |-> bytes, reads |-> "wronly" \notin flags, writes |-> "rdonly" \notin flags,
     pos |-> 0, got |-> <<>>, taken |-> <<>>, said |-> <<>>, broken |-> FALSE,
     overrun |-> FALSE]

Calls == left > 0 /\ left' = left - 1

---------------------------------------------------------------------------
OpenFlags(mode) ==
    (IF mode \in {"r+", "w+", "a+"} THEN {"rdwr"} ELSE IF mode \in {"w", "a"} THEN {"wronly"} ELSE {"rdonly"})
    \cup (IF mode \in {"w", "w+"} THEN {"creat", "trunc"} ELSE {})
    \cup (IF mode \in {"a", "a+"} THEN {"creat", "append"} ELSE {})

\* The open call of the kernel: the least descriptor, or none.
Finds(path, flags) == path \in DOMAIN Content \/ "creat" \in flags
NewFd == CHOOSE n \in 0..(Slots + 5) : n \notin DOMAIN kernel /\ \A m \in 0..(n - 1) : m \in DOMAIN kernel
BytesOf(path, flags) == IF path \notin DOMAIN Content \/ "trunc" \in flags THEN <<>> ELSE Content[path]
With(fd, r) == [k \in DOMAIN kernel \cup {fd} |-> IF k = fd THEN r ELSE kernel[k]]
Without(fds) == [k \in DOMAIN kernel \ fds |-> kernel[k]]

FreeSlot == {h \in Handles \ Std : ~Live(h)}
FirstOf(hs) == CHOOSE h \in hs : \A g \in hs : h <= g

\* Without a free slot the descriptor is closed again.
Fopen(path, mode) ==
    /\ Calls
    /\ LET flags == OpenFlags(mode)
       IN  IF Finds(path, flags) /\ FreeSlot # {}
           THEN /\ files' = [files EXCEPT ![FirstOf(FreeSlot)] = Handle(NewFd, FALSE)]
                /\ kernel' = With(NewFd, Opened(BytesOf(path, flags), flags))
           ELSE UNCHANGED <<files, kernel>>
    /\ UNCHANGED strays

\* freopen opens anew in a slot of its own, closes the old descriptor
\* whatever the kernel answers, and moves the new handle over the old one.
Freopen(h, path, mode, closes) ==
    /\ Calls
    /\ h \notin Std /\ Live(h)
    /\ LET flags == OpenFlags(mode)
           fd    == NewFd
           old   == files[h].fd
       IN  IF Finds(path, flags) /\ FreeSlot # {}
           THEN /\ files' = [files EXCEPT ![h] = Handle(fd, FALSE)]
                /\ kernel' = [k \in (DOMAIN kernel \cup {fd}) \ (IF closes THEN {old} ELSE {}) |->
                                IF k = fd THEN Opened(BytesOf(path, flags), flags) ELSE kernel[k]]
                /\ strays' = IF closes THEN strays ELSE strays \cup {old}
           ELSE UNCHANGED <<files, kernel, strays>>

\* A close the kernel refuses leaves the handle as it is, for another try.
Fclose(h, closes) ==
    /\ Calls
    /\ Live(h)
    /\ IF files[h].stdio THEN UNCHANGED <<files, kernel>>
       ELSE IF ~closes THEN files' = [files EXCEPT ![h].err = TRUE] /\ UNCHANGED kernel
       ELSE files' = [files EXCEPT ![h] = Closed] /\ kernel' = Without({files[h].fd})
    /\ UNCHANGED strays

---------------------------------------------------------------------------
\* The next n bytes: the one pushed back first, then from the descriptor
\* until the count is full, the file ends, or a read breaks after k bytes.
Ahead(h) ==
    LET r == kernel[files[h].fd] IN files[h].ungot \o SubSeq(r.bytes, r.pos + 1, Len(r.bytes))
Taken(h, n, k, ungot) ==
    LET fd     == files[h].fd
        ahead  == Ahead(h)
        wants  == Least(n, Len(ahead))
        breaks == ~kernel[fd].reads \/ k < wants
        kept   == Len(files[h].ungot)
        took   == IF ~breaks THEN wants ELSE IF ~kernel[fd].reads \/ k < kept THEN kept ELSE k
    IN  /\ files' = [files EXCEPT ![h].ungot = ungot, ![h].eof = @ \/ (~breaks /\ wants < n), ![h].err = @ \/ breaks]
        /\ kernel' = [kernel EXCEPT ![fd].pos = @ + took - kept, ![fd].got = @ \o SubSeq(ahead, 1, took)]
Take_KeepsUngot(h, n, k) == Taken(h, n, k, files[h].ungot)
Take(h, n, k) == Taken(h, n, k, <<>>)

Fread(h, n, k) == Calls /\ Live(h) /\ Take(h, n, k) /\ UNCHANGED strays

\* fgets stops behind the first line break or one short of its buffer.
Fgets(h, size, k) ==
    /\ Calls
    /\ Live(h)
    /\ LET ahead == Ahead(h)
           ends == {i \in DOMAIN ahead : ahead[i] = Break}
           n == IF ends = {} THEN size - 1 ELSE Least(size - 1, CHOOSE i \in ends : \A j \in ends : i <= j)
       IN  Take(h, n, k)
    /\ UNCHANGED strays

\* Lua pushes back the byte it has just read.
Ungetc(h) ==
    /\ Calls
    /\ Live(h)
    /\ LET fd == files[h].fd
           got == kernel[fd].got
       IN  /\ got # <<>>
           /\ IF files[h].ungot # <<>> THEN UNCHANGED <<files, kernel>>
              ELSE /\ files' = [files EXCEPT ![h].ungot = <<got[Len(got)]>>, ![h].eof = FALSE]
                   /\ kernel' = [kernel EXCEPT ![fd].got = SubSeq(@, 1, Len(@) - 1)]
    /\ UNCHANGED strays

---------------------------------------------------------------------------
\* Short writes are continued until one is refused; the programs of the model
\* write no more to a descriptor that has refused (bound).
Wrote(fd, text, said, room) ==
    [kernel[fd] EXCEPT !.taken = @ \o SubSeq(text, 1, Least(room, Len(text))),
                       !.said = @ \o said, !.broken = room < Len(text)]

\* fwrite, fputs and fputc, of a text string.format made
Fwrite(h, spec, room) ==
    /\ Calls
    /\ Live(h)
    /\ ~kernel[files[h].fd].broken
    /\ LET text  == LuaFormat(spec)
           takes == IF kernel[files[h].fd].writes THEN room ELSE 0
       IN  /\ kernel' = [kernel EXCEPT ![files[h].fd] = Wrote(files[h].fd, text, CText(spec), takes)]
           /\ files' = [files EXCEPT ![h].err = @ \/ takes < Len(text)]
    /\ UNCHANGED strays

\* The conversions behind fprintf are those of clio_vformat.
Plain == {s \in Specs : ~(s.plus \/ s.space \/ s.alt) /\ s.conv \in {"s", "c", "d", "u", "x", "p"}}

\* What fprintf writes to a file: vsnprintf cuts the text to the buffer and yet
\* returns its whole length, and as many bytes are written from the buffer on.
Buffered(text) ==
    [i \in DOMAIN text |-> IF i < FprintfMax \/ Len(text) < FprintfMax THEN text[i]
                           ELSE IF i = FprintfMax THEN Nul ELSE Stray]

\* fprintf goes around the handle for stdout and stderr: no error is noted.
Fprintf(h, spec, room) ==
    /\ Calls
    /\ Live(h)
    /\ ~kernel[files[h].fd].broken
    /\ LET direct == h \in {2, 3}
           text   == IF direct THEN VFormat(spec) ELSE Buffered(VFormat(spec))
           fd     == IF direct THEN h - 1 ELSE files[h].fd
           takes  == IF kernel[fd].writes THEN room ELSE 0
           file   == Wrote(fd, text, CText(spec), takes)
       IN  /\ kernel' = [kernel EXCEPT ![fd] = [file EXCEPT !.overrun = @ \/ (~direct /\ Len(text) >= FprintfMax)]]
           /\ files' = [files EXCEPT ![h].err = @ \/ (~direct /\ takes < Len(text))]
    /\ UNCHANGED strays

---------------------------------------------------------------------------
Init ==
    /\ files = [h \in Handles |-> IF h \in Std THEN Handle(h - 1, TRUE) ELSE Closed]
    /\ kernel = [fd \in 0..2 |-> Opened(<<>>, {"rdwr"})]
    /\ strays = {}
    /\ left = MaxCalls

Next ==
    \/ \E path \in DOMAIN Content \cup {NewPath}, mode \in Modes : Fopen(path, mode)
    \/ \E h \in Handles, path \in DOMAIN Content, closes \in BOOLEAN : Freopen(h, path, "r", closes)
    \/ \E h \in Handles, closes \in BOOLEAN : Fclose(h, closes)
    \/ \E h \in Handles \ Std : (\E n \in {1, 3}, k \in {0, 9} : Fread(h, n, k) \/ Fgets(h, n + 1, k)) \/ Ungetc(h)
    \/ \E h \in Handles \ {1}, room \in Rooms :
          \/ \E spec \in Specs : Fwrite(h, spec, room)
          \/ \E spec \in Plain : Fprintf(h, spec, room)

Spec == Init /\ [][Next]_vars

---------------------------------------------------------------------------
\* What a program has read of a file, with the byte it has pushed back, is
\* what stands before the position of the descriptor; what it has written is
\* what the kernel took, as C formats it, up to the first refused write and
\* unless fprintf was given a text its buffer does not hold.  No two handles
\* share a descriptor, and none is open that no handle holds but those freopen
\* could not close.
Owned == {files[h].fd : h \in {g \in Handles : Live(g)}}
BytesKept ==
    /\ \A h \in {g \in Handles : Live(g)} :
          LET r == kernel[files[h].fd]
          IN  /\ r.got \o files[h].ungot = SubSeq(r.bytes, 1, r.pos)
              /\ files[h].eof => r.pos = Len(r.bytes)
              /\ ~r.overrun =>
                   IF r.broken THEN r.taken = SubSeq(r.said, 1, Len(r.taken)) ELSE r.taken = r.said
              /\ r.broken /\ ~files[h].stdio => files[h].err
    /\ DOMAIN kernel = Owned \cup strays
    /\ \A g, h \in Handles : g # h /\ Live(g) /\ Live(h) => files[g].fd # files[h].fd
=============================================================================
