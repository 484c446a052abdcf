------------------------------ MODULE Partition ------------------------------
(***************************************************************************)
(* partctl (apps/partctl_main.c): the four entries of a master boot record *)
(* and the commands that change them, with the numbers as the C library    *)
(* reads them (strtoul in src/libc_stdlib.c).                              *)
(*                                                                         *)
(* A typed number is a sequence of digits (0 to 35, the letters from 10)   *)
(* and other characters; the commands are given as lists of words.         *)
(***************************************************************************)
EXTENDS Integers, Sequences, FiniteSetsExt

CONSTANTS
    Word,               \* values of a u64: 0 .. Word - 1
    Field,              \* values of an entry's start and size
    Types,              \* values of an entry's type
    DiskSectors,        \* cleonos_sys_disk_sector_count()
    X, Plus, Minus,     \* the letter x as a digit; signs
    None,
    Records,            \* the boot records a disk may hold at first
    Requests,           \* the command lines typed
    MaxCommands         \* bound on the commands of a behaviour

Digit == 0 .. 35
Characters == Digit \cup {Plus, Minus}
Index == 1 .. 4
Entry == [boot : BOOLEAN, type : 0 .. Types - 1, start : 0 .. Field - 1, size : 0 .. Field - 1]
OneActive(entries) == \A i, j \in Index : entries[i].boot /\ entries[j].boot => i = j

\* An entry's fields are narrower than a word.
ASSUME WordsAssumption ==
    /\ Word \in Nat /\ Field \in 1 .. Word - 1 /\ Types \in 1 .. Word - 1
    /\ DiskSectors \in Nat
ASSUME RequestsAssumption == \A r \in Requests : \A i \in 2 .. Len(r) : r[i] \in Seq(Characters)
\* A disk may hold anything in place of its entries, but not two active ones.
ASSUME RecordsAssumption ==
    \A r \in Records : r.signed \in BOOLEAN /\ r.entries \in [Index -> Entry] /\ OneActive(r.entries)

VARIABLES
    mbr,    \* sector 0: its signature and its entries
    made,   \* ghost: for each entry, what was typed when partctl created it
    left    \* commands left

partitionVars == <<mbr, made, left>>

Empty == [boot |-> FALSE, type |-> 0, start |-> 0, size |-> 0]

(***************************************************************************)
(* Numbers.                                                                *)
(***************************************************************************)
Sign(text) == IF text # <<>> /\ text[1] \in {Plus, Minus} THEN 1 ELSE 0

\* The base of a number read with base 0, and the characters that say so.
Base(text) ==
    LET at == Sign(text)
    IN  IF Len(text) = at THEN 10
        ELSE IF text[at + 1] # 0 THEN 10
        ELSE IF Len(text) >= at + 3 /\ text[at + 2] = X /\ text[at + 3] \in 0 .. 15 THEN 16 ELSE 8
FirstDigit(text) == Sign(text) + (IF Base(text) = 16 THEN 3 ELSE 1)

\* Fault: a number too long for a word wraps.
NextValue_Wraps(value, digit, base) == (value * base + digit) % Word

\* Too large a number sticks at the largest.
NextValue(value, digit, base) ==
    IF value > (Word - 1 - digit) \div base THEN Word - 1 ELSE value * base + digit

\* The value of digits, read one after the other.
Value(digits, base) ==
    LET read[k \in 0 .. Len(digits)] == IF k = 0 THEN 0 ELSE NextValue(read[k - 1], digits[k], base)
    IN  read[Len(digits)]

StrToUl(text) ==
    LET base == Base(text)
        first == FirstDigit(text)
        end == Min({Len(text) + 1} \cup {i \in first .. Len(text) : text[i] \notin 0 .. base - 1})
        value == Value(SubSeq(text, first, end - 1), base)
    IN  [any |-> end > first, end |-> end,
         value |-> IF text # <<>> /\ text[1] = Minus THEN (Word - value) % Word ELSE value]

\* The whole text has to be a number: its value, or None.
ParseU64(text) ==
    LET n == StrToUl(text) IN IF n.any /\ n.end > Len(text) THEN n.value ELSE None
IsIndex(text) == ParseU64(text) \in Index
IsFlag(text) == ParseU64(text) \in {0, 1}

(***************************************************************************)
(* The boot record.                                                        *)
(***************************************************************************)
\* Fault: the index, which counts from 1, is taken for the one to skip from 0.
NoOverlap_SkipsNext(entries, i, start, size) ==
    \A j \in Index \ {i + 1} :
        entries[j].size = 0 \/ start + size <= entries[j].start \/ start >= entries[j].start + entries[j].size

NoOverlap(entries, i, start, size) ==
    \A j \in Index \ {i} :
        entries[j].size = 0 \/ start + size <= entries[j].start \/ start >= entries[j].start + entries[j].size

\* Only the entry i may be active.
OthersOff(entries, i) == [j \in Index |-> IF j = i THEN entries[j] ELSE [entries[j] EXCEPT !.boot = FALSE]]

\* The sector is read, changed, given its signature and written back; the disk
\* may be missing and both calls may fail.
Written(entries, ghost) ==
    \/ mbr' = [signed |-> TRUE, entries |-> entries] /\ made' = ghost
    \/ UNCHANGED <<mbr, made>>

Requested(name, counts) ==
    {r \in Requests : r[1] = name /\ Len(r) \in counts}
Started == left > 0 /\ left' = left - 1

InitMbr ==
    /\ Started /\ Requested("init-mbr", 1 .. 8) # {}
    /\ Written([i \in Index |-> Empty], [i \in Index |-> None])

Delete ==
    /\ Started
    /\ \E r \in Requested("delete", {2}) :
         LET i == ParseU64(r[2])
         IN  IF ~IsIndex(r[2]) THEN UNCHANGED <<mbr, made>>
             ELSE Written([mbr.entries EXCEPT ![i] = Empty], [made EXCEPT ![i] = None])

SetBoot ==
    /\ Started
    /\ \E r \in Requested("set-boot", {3}) :
         LET i == ParseU64(r[2])
             on == ParseU64(r[3]) = 1
             others == IF on THEN OthersOff(mbr.entries, i) ELSE mbr.entries
         IN  IF ~IsIndex(r[2]) \/ ~IsFlag(r[3]) THEN UNCHANGED <<mbr, made>>
             ELSE Written([others EXCEPT ![i].boot = on], made)

\* What is refused before the record is read.
InRange(start, size, type) ==
    /\ start # 0 /\ size # 0
    /\ type < Types /\ start < Field /\ size < Field
    /\ start < DiskSectors /\ size <= DiskSectors /\ start + size <= DiskSectors

Create ==
    /\ Started
    /\ \E r \in Requested("create", {5, 6}) :
         LET i == ParseU64(r[2])
             start == ParseU64(r[3])
             size == ParseU64(r[4])
             type == ParseU64(r[5])
             flag == IF Len(r) = 6 THEN r[6] ELSE <<0>>
             boot == ParseU64(flag) = 1
             others == IF boot THEN OthersOff(mbr.entries, i) ELSE mbr.entries
         IN  IF ~IsIndex(r[2]) \/ None \in {start, size, type} \/ ~IsFlag(flag) THEN UNCHANGED <<mbr, made>>
             ELSE IF ~InRange(start, size, type) THEN UNCHANGED <<mbr, made>>
             ELSE IF ~NoOverlap(mbr.entries, i, start, size) THEN UNCHANGED <<mbr, made>>
             ELSE Written([others EXCEPT ![i] = [boot |-> boot, type |-> type, start |-> start, size |-> size]],
                          [made EXCEPT ![i] = [start |-> r[3], size |-> r[4], type |-> r[5]]])

PartitionInit == mbr \in Records /\ made = [i \in Index |-> None] /\ left = MaxCommands

PartitionNext == InitMbr \/ Delete \/ SetBoot \/ Create

PartitionSpec == PartitionInit /\ [][PartitionNext]_partitionVars

(***************************************************************************)
(* Properties.                                                             *)
(***************************************************************************)
\* The number that digits stand for, by their places and without a word's limit.
InBase(digits, base) ==
    LET place[k \in 0 .. Len(digits)] == IF k = 0 THEN 1 ELSE base * place[k - 1]
        last[k \in 0 .. Len(digits)] ==
            IF k = 0 THEN 0 ELSE last[k - 1] + digits[Len(digits) - k + 1] * place[k - 1]
    IN  last[Len(digits)]

\* What a text without a sign means where the usage text asks for a number, and
\* where it asks for a <type_hex>.
DigitsOf(text) == SubSeq(text, FirstDigit(text), Len(text))
NumberMeant(text) == InBase(DigitsOf(text), Base(text))
TypeMeant(text) == InBase(DigitsOf(text), 16)

\* The code reads a type in the base of any other number, so that of several
\* digits without 0x in front it does not store the hexadecimal number: such a
\* type is not compared.
ReadAsHex(text) == Base(text) = 16 \/ Len(text) = 1
Unsigned(text) == text[1] # Minus /\ text[1] # Plus

\* An entry created with these words says what they mean, and its sectors are on the disk.
AsTyped(p, typed) ==
    /\ p.start >= 1 /\ p.size >= 1 /\ p.start + p.size <= DiskSectors
    /\ Unsigned(typed.start) => p.start = NumberMeant(typed.start)
    /\ Unsigned(typed.size) => p.size = NumberMeant(typed.size)
    /\ Unsigned(typed.type) /\ ReadAsHex(typed.type) => p.type = TypeMeant(typed.type)
Apart(p, q) == (p.start .. p.start + p.size - 1) \cap (q.start .. q.start + q.size - 1) = {}

EntriesHold(entries, ghost) ==
    /\ entries \in [Index -> Entry]
    /\ \A i \in Index : ghost[i] # None =>
          AsTyped(entries[i], ghost[i]) /\ \A j \in Index \ {i} : Apart(entries[i], entries[j])
    /\ OneActive(entries)

\* However the commands follow each other and whichever of them fail, from any
\* boot record: a partition that partctl created lies on the disk behind the
\* boot record, overlaps no other one, those it found included, and is where
\* the typed numbers say, of the type they say if that is typed with 0x or as one
\* digit; every number stays in its field, and no command makes a second partition
\* active
\* (partctl_cmd_create, partctl_check_overlap, partctl_cmd_set_boot).
PartitionsHold == mbr.signed \in BOOLEAN /\ EntriesHold(mbr.entries, made)

\* It holds step by step, with the words that were typed.
PartitionInv ==
    /\ PartitionsHold
    /\ made \in [Index -> {None} \cup [start : Seq(Characters), size : Seq(Characters), type : Seq(Characters)]]
=============================================================================
