----------------------------- MODULE MemoryFile -----------------------------
(***************************************************************************)
(* The files minizip works on (apps/minizip_cleonos_io.c): a file is read  *)
(* whole into memory when it is opened, grows there, and is written back   *)
(* whole when it is closed.  Memory may run out at any growth, and the     *)
(* kernel may take only a part of the write.                               *)
(***************************************************************************)
EXTENDS Integers, Sequences

CONSTANTS
    Chunk,      \* the first capacity
    Zero, Junk, \* a byte of 0, and what fresh memory holds
    Bytes,      \* what is written at a time
    NoFile,     \* no file on disk, or no open file
    Starts,     \* the contents the file may begin with
    MaxCalls    \* bound: calls before the close

VARIABLES
    file,       \* the cleonos_mz_file: [data, size, pos, writable, error]
    disk,       \* the file on disk
    meant,      \* what the calls amount to, position by position
    answer,     \* of the last close
    left

vars == <<file, disk, meant, answer, left>>

Open == file # NoFile
Capacity(f) == Len(f.data)

---------------------------------------------------------------------------
\* The capacity doubles until it is enough; only the bytes in use move.
NewCapacity(f, needed) ==
    LET from == IF Capacity(f) = 0 THEN Chunk ELSE Capacity(f)
        c[n \in 0..needed] == IF n = 0 THEN from ELSE IF c[n - 1] >= needed THEN c[n - 1] ELSE 2 * c[n - 1]
    IN  c[needed]
Grow(f, needed) ==
    IF needed <= Capacity(f) THEN f
    ELSE [f EXCEPT !.data = [i \in 1..NewCapacity(f, needed) |-> IF i <= f.size THEN f.data[i] ELSE Junk]]

\* minizip creates, extends or reads; a created file is not read.
OpenFile(mode, memory) ==
    /\ ~Open /\ left > 0
    /\ LET bytes == IF mode = "create" \/ disk = NoFile THEN <<>> ELSE disk
       IN  IF mode # "create" /\ (disk = NoFile \/ (disk # <<>> /\ ~memory)) THEN UNCHANGED <<file, meant>>
           ELSE /\ file' = [data |-> bytes, size |-> Len(bytes), pos |-> 0, writable |-> mode # "read",
                            error |-> FALSE]
                /\ meant' = bytes
    /\ left' = left - 1
    /\ UNCHANGED <<disk, answer>>

Read(n) ==
    /\ Open /\ left > 0
    /\ file' = [file EXCEPT !.pos = IF @ >= file.size THEN @ ELSE IF @ + n > file.size THEN file.size ELSE @ + n]
    /\ left' = left - 1
    /\ UNCHANGED <<disk, meant, answer>>

Overlaid(old, pos, bytes, fill) ==
    LET end == pos + Len(bytes)
    IN  [i \in 1..(IF end > Len(old) THEN end ELSE Len(old)) |->
            IF i > pos /\ i <= end THEN bytes[i - pos] ELSE IF i <= Len(old) THEN old[i] ELSE fill]

\* A growth that fails marks the file and leaves it as it is.
Write(bytes, memory) ==
    /\ Open /\ left > 0
    /\ left' = left - 1
    /\ LET end   == file.pos + Len(bytes)
           grown == Grow(file, end)
       IN  IF ~file.writable THEN UNCHANGED <<file, meant>>
           ELSE IF end > Capacity(file) /\ ~memory THEN file' = [file EXCEPT !.error = TRUE] /\ UNCHANGED meant
           ELSE /\ file' = [grown EXCEPT !.data = Overlaid(grown.data, file.pos, bytes, Junk), !.pos = end,
                                         !.size = IF end > @ THEN end ELSE @]
                /\ meant' = Overlaid(meant, file.pos, bytes, Zero)
    /\ UNCHANGED <<disk, answer>>

\* Behind the end a writable file is filled with zeros.
Seek_NoFill(offset, origin, memory) ==
    /\ Open /\ left > 0
    /\ left' = left - 1
    /\ LET base  == CASE origin = "set" -> 0 [] origin = "cur" -> file.pos [] origin = "end" -> file.size
           next  == base + offset
           grown == Grow(file, next)
       IN  /\ ~(next > file.size /\ ~file.writable)
           /\ ~(next > Capacity(file) /\ ~memory)
           /\ file' = [grown EXCEPT !.pos = next, !.size = IF next > @ THEN next ELSE @]
           /\ meant' = Overlaid(meant, next, <<>>, Zero)
    /\ UNCHANGED <<disk, answer>>
Seek(offset, origin, memory) ==
    /\ Open /\ left > 0
    /\ left' = left - 1
    /\ LET base  == CASE origin = "set" -> 0 [] origin = "cur" -> file.pos [] origin = "end" -> file.size
           next  == base + offset
           grown == Grow(file, next)
       IN  IF next > file.size /\ ~file.writable THEN UNCHANGED <<file, meant>>
           ELSE IF next > Capacity(file) /\ ~memory
           THEN file' = [file EXCEPT !.error = TRUE] /\ UNCHANGED meant
           ELSE /\ file' = [grown EXCEPT !.pos = next, !.size = IF next > @ THEN next ELSE @,
                    !.data = [i \in DOMAIN @ |-> IF i > file.size /\ i <= next THEN Zero ELSE @[i]]]
                /\ meant' = Overlaid(meant, next, <<>>, Zero)
    /\ UNCHANGED <<disk, answer>>

\* One write of the whole file; not after an error, though the close is then
\* reported as good and only zerror tells.
Close(taken) ==
    /\ Open
    /\ LET n == IF taken < file.size THEN taken ELSE file.size
           saves == file.writable /\ ~file.error
       IN  /\ disk' = IF saves THEN SubSeq(file.data, 1, n) ELSE disk
           /\ answer' = [ok |-> ~saves \/ n = file.size, saves |-> saves, error |-> file.error]
    /\ file' = NoFile
    /\ UNCHANGED <<meant, left>>

Init ==
    /\ file = NoFile
    /\ disk \in Starts
    /\ meant = <<>>
    /\ answer = [ok |-> TRUE, saves |-> FALSE, error |-> FALSE]
    /\ left = MaxCalls

Next ==
    \/ \E mode \in {"create", "extend", "read"}, memory \in BOOLEAN : OpenFile(mode, memory)
    \/ \E n \in {1, 3} : Read(n)
    \/ \E bytes \in Bytes, memory \in BOOLEAN : Write(bytes, memory)
    \/ \E offset \in {0, 2}, origin \in {"set", "cur", "end"}, memory \in BOOLEAN : Seek(offset, origin, memory)
    \/ \E taken \in {1, 99} : Close(taken)

Spec == Init /\ [][Next]_vars

---------------------------------------------------------------------------
\* The memory of an open file holds what the calls amount to, holes read as
\* zeros and nothing of fresh memory in them; after a close that answers
\* well for a file with nothing wrong, so does the disk.
BytesKept ==
    /\ Open => /\ SubSeq(file.data, 1, file.size) = meant
               /\ file.pos <= file.size /\ file.size <= Capacity(file)
    /\ ~Open /\ answer.saves /\ answer.ok => disk = meant
=============================================================================
