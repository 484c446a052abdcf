-------------------------------- MODULE Heap --------------------------------
(***************************************************************************)
(* The allocator of the C library: malloc, calloc, free and realloc over   *)
(* one doubly linked list of blocks, each a header followed by the memory  *)
(* it manages.  The list starts as one block over the static heap of the   *)
(* linker script and grows at its tail by chunks from the kernel, which    *)
(* need not follow the memory before them: what lies between is foreign,   *)
(* a mapping of the program or memory that nobody gave out.                *)
(* Memory is a row of cells; one cell stands for 8 bytes, so that requests *)
(* which are no multiple of the alignment occur.                           *)
(***************************************************************************)
EXTENDS Integers, FiniteSets

CONSTANTS
    HDR,        \* cells of a header: sizeof(clib_heap_block)
    ALIGN,      \* cells of alignment: 16 bytes
    MinRest,    \* cells a split must leave for the new block
    Static,     \* cells of the static heap
    Chunk,      \* cells of a chunk: CLIB_HEAP_CHUNK_MAX
    Top,        \* bound: cells the kernel can give, the static heap included
    Sizes,      \* bound: sizes programs ask for
    Tags,       \* bound: allocations alive at once, by the data they hold
    Gaps,       \* cells of foreign memory there may be in front of a chunk
    NULL

ASSUME LayoutAssumption ==
    /\ {HDR, ALIGN, MinRest, Static, Chunk, Top} \subseteq Nat \ {0}
    /\ HDR < Static /\ Static <= Top
    /\ HDR % ALIGN = 0 /\ Static % ALIGN = 0
ASSUME SizeAssumption == Sizes \subseteq Nat \ {0} /\ Gaps \subseteq Nat
ASSUME NullAssumption == NULL \notin Nat

VARIABLES
    heap,   \* [blk, head, tail]: the headers by address, and the ends of the list
    mem,    \* what was last written to each cell
    live,   \* pointers the program holds: size asked for and data
    brk,    \* the end of the last chunk
    foreign \* cells below brk that are not the allocator's

vars == <<heap, mem, live, brk, foreign>>

Cells == 0 .. Top - 1
Span(a, n) == a .. a + n - 1
BlockRec == [size : Nat, free : BOOLEAN, next : Cells \cup {NULL}, prev : Cells \cup {NULL}]

\* clib_align_up
AlignUp(n) == ((n + ALIGN - 1) \div ALIGN) * ALIGN

\* clib_heap_init
Init ==
    /\ heap = [blk |-> [a \in {0} |-> [size |-> Static - HDR, free |-> TRUE,
                                       next |-> NULL, prev |-> NULL]],
               head |-> 0, tail |-> 0]
    /\ mem = [c \in Cells |-> IF c < HDR THEN "header" ELSE "nothing"]
    /\ live = [p \in {} |-> 0]
    /\ brk = Static
    /\ foreign = {}

----------------------------------------------------------------------------
(* The list. *)

Blocks(h) == DOMAIN h.blk

\* The i-th block of the list, counted from 0.
Nth(h) ==
    LET at[i \in 0 .. Cardinality(Blocks(h)) - 1] ==
            IF i = 0 THEN h.head ELSE h.blk[at[i - 1]].next
    IN  at

\* Fault: a split needs no room for the new header.
Split_NoRoom(h, b, n) ==
    IF h.blk[b].size < n + MinRest THEN h
    ELSE LET t   == b + HDR + n
             nx  == h.blk[b].next
             new == [size |-> h.blk[b].size - n - HDR, free |-> TRUE, next |-> nx, prev |-> b]
         IN  [blk  |-> [a \in Blocks(h) \cup {t} |->
                          IF a = t THEN new
                          ELSE IF a = b THEN [h.blk[b] EXCEPT !.size = n, !.next = t]
                          ELSE IF a = nx THEN [h.blk[a] EXCEPT !.prev = t]
                          ELSE h.blk[a]],
              head |-> h.head,
              tail |-> IF nx = NULL THEN t ELSE h.tail]


\* Fault: the block behind the new one keeps its old predecessor.
Split_StalePrev(h, b, n) ==
    IF h.blk[b].size < n + HDR + MinRest THEN h
    ELSE LET t   == b + HDR + n
             nx  == h.blk[b].next
             new == [size |-> h.blk[b].size - n - HDR, free |-> TRUE, next |-> nx, prev |-> b]
         IN  [blk  |-> [a \in Blocks(h) \cup {t} |->
                          IF a = t THEN new
                          ELSE IF a = b THEN [h.blk[b] EXCEPT !.size = n, !.next = t]
                          ELSE h.blk[a]],
              head |-> h.head,
              tail |-> IF nx = NULL THEN t ELSE h.tail]

\* clib_heap_split: the rest of block b becomes a free block of its own,
\* unless it is too small.
Split(h, b, n) ==
    IF h.blk[b].size < n + HDR + MinRest THEN h
    ELSE LET t   == b + HDR + n
             nx  == h.blk[b].next
             new == [size |-> h.blk[b].size - n - HDR, free |-> TRUE, next |-> nx, prev |-> b]
         IN  [blk  |-> [a \in Blocks(h) \cup {t} |->
                          IF a = t THEN new
                          ELSE IF a = b THEN [h.blk[b] EXCEPT !.size = n, !.next = t]
                          ELSE IF a = nx THEN [h.blk[a] EXCEPT !.prev = t]
                          ELSE h.blk[a]],
              head |-> h.head,
              tail |-> IF nx = NULL THEN t ELSE h.tail]

\* Fault: nobody asks whether the neighbour is free.
NextIsFree_Any(h, b) == h.blk[b].next # NULL

NextIsFree(h, b) == h.blk[b].next # NULL /\ h.blk[h.blk[b].next].free

\* Fault: the header of the swallowed block is lost.
MergeNext_LosesHeader(h, b) ==
    IF ~NextIsFree(h, b) THEN h
    ELSE LET n  == h.blk[b].next
             nn == h.blk[n].next
         IN  [blk  |-> [a \in Blocks(h) \ {n} |->
                          IF a = b THEN [h.blk[b] EXCEPT !.size = @ + h.blk[n].size,
                                                         !.next = nn]
                          ELSE IF a = nn THEN [h.blk[a] EXCEPT !.prev = b]
                          ELSE h.blk[a]],
              head |-> h.head,
              tail |-> IF nn = NULL THEN b ELSE h.tail]

\* clib_heap_merge_next: b swallows its free neighbour of the list.
MergeNext(h, b) ==
    IF ~NextIsFree(h, b) THEN h
    ELSE LET n  == h.blk[b].next
             nn == h.blk[n].next
         IN  [blk  |-> [a \in Blocks(h) \ {n} |->
                          IF a = b THEN [h.blk[b] EXCEPT !.size = @ + HDR + h.blk[n].size,
                                                         !.next = nn]
                          ELSE IF a = nn THEN [h.blk[a] EXCEPT !.prev = b]
                          ELSE h.blk[a]],
              head |-> h.head,
              tail |-> IF nn = NULL THEN b ELSE h.tail]

\* clib_heap_request_chunk: one free block over a new chunk, behind the tail.
ChunkSize(need) == AlignUp(IF Chunk < need + HDR THEN need + HDR ELSE Chunk)

WithChunk(h, need, at) ==
    [blk  |-> [a \in Blocks(h) \cup {at} |->
                 IF a = at THEN [size |-> ChunkSize(need) - HDR, free |-> TRUE,
                                 next |-> NULL, prev |-> h.tail]
                 ELSE IF a = h.tail THEN [h.blk[a] EXCEPT !.next = at]
                 ELSE h.blk[a]],
     head |-> h.head,
     tail |-> at]

Take(h, b, need) == LET s == Split(h, b, need) IN [s EXCEPT !.blk[b].free = FALSE]

\* free: merge with the next block, then let the previous one merge.
Release(h, b) ==
    LET g == MergeNext([h EXCEPT !.blk[b].free = TRUE], b)
        p == g.blk[b].prev
    IN  IF p # NULL /\ g.blk[p].free THEN MergeNext(g, p) ELSE g

----------------------------------------------------------------------------
(* Memory.  The allocator writes headers, the program fills what it asked for. *)

Headers(h) == UNION {Span(a, HDR) : a \in Blocks(h)}

\* The cells of the headers that a list operation wrote.
Written(old, new) ==
    UNION {Span(a, HDR) : a \in {b \in Blocks(new) : b \notin Blocks(old) \/ new.blk[b] # old.blk[b]}}

Stamped(m, old, new) ==
    LET w == Written(old, new) IN [c \in Cells |-> IF c \in w THEN "header" ELSE m[c]]
Filled(m, from, to, t) == [c \in Cells |-> IF from <= c /\ c < to THEN t ELSE m[c]]

\* What is in no header, allocation or foreign memory is dead: nobody may read
\* it again, and it is forgotten.
InUse(h, l) == Headers(h) \cup UNION {Span(p, l[p].req) : p \in DOMAIN l}
Settled(m, h, l) ==
    LET u == InUse(h, l)
    IN  [c \in Cells |-> IF c \in u \/ m[c] = "foreign" THEN m[c] ELSE "nothing"]

Copied(m, from, to, n) == [c \in Cells |-> IF c \in Span(to, n) THEN m[c - to + from] ELSE m[c]]

\* The ways malloc can find `need` cells: the first free block of the list that
\* is large enough, else a new chunk if the kernel has one.
Found(need) ==
    LET nth  == Nth(heap)
        fits == {i \in DOMAIN nth : heap.blk[nth[i]].free /\ heap.blk[nth[i]].size >= need}
        b    == nth[CHOOSE i \in fits : \A j \in fits : i <= j]
    IN  IF fits # {}
        THEN {[h |-> Take(heap, b, need), at |-> b, brk |-> brk]}
        ELSE {[h |-> Take(WithChunk(heap, need, brk + g), brk + g, need), at |-> brk + g,
               brk |-> brk + g + ChunkSize(need)] :
                g \in {g \in Gaps : brk + g + ChunkSize(need) <= Top}}

\* Memory and foreign cells once the heap has grown to f.
Grow(f) ==
    LET gap == IF f.brk = brk THEN {} ELSE brk .. f.at - 1
    IN  /\ brk' = f.brk
        /\ foreign' = foreign \cup gap
Received(m, f) == IF f.brk = brk THEN m ELSE Filled(m, brk, f.at, "foreign")

----------------------------------------------------------------------------
(* The calls.  A call that fails returns NULL and changes nothing. *)

Unused == {t \in Tags : \A p \in DOMAIN live : live[p].tag # t}
Holding(p, n, t) ==
    [q \in DOMAIN live \cup {p} |-> IF q = p THEN [req |-> n, tag |-> t] ELSE live[q]]
Without(p) == [q \in DOMAIN live \ {p} |-> live[q]]

Malloc(n, t) ==
    \E f \in Found(AlignUp(n)) :
        /\ heap' = f.h /\ Grow(f)
        /\ live' = Holding(f.at + HDR, n, t)
        /\ mem' = Settled(Filled(Stamped(Received(mem, f), heap, f.h),
                                 f.at + HDR, f.at + HDR + n, t), heap', live')

\* free, and realloc to size 0.
Free(p) ==
    /\ heap' = Release(heap, p - HDR)
    /\ live' = Without(p)
    /\ mem' = Settled(Stamped(mem, heap, heap'), heap', live')
    /\ UNCHANGED <<brk, foreign>>

\* The program fills what it asked for beyond what it had.
Grown(m, p, n) == Filled(m, p + live[p].req, p + n, live[p].tag)

\* The block is large enough: cut off what is not needed.
ReallocShrink(p, n) ==
    LET b == p - HDR
    IN  /\ heap.blk[b].size >= n
        /\ heap' = Split(heap, b, AlignUp(n))
        /\ live' = [live EXCEPT ![p].req = n]
        /\ mem' = Settled(Grown(Stamped(mem, heap, heap'), p, n), heap', live')
        /\ UNCHANGED <<brk, foreign>>

\* The block and its free neighbour are large enough together.
RoomBehind(b, n) ==
    /\ heap.blk[b].size < n
    /\ NextIsFree(heap, b)
    /\ heap.blk[b].size + HDR + heap.blk[heap.blk[b].next].size >= n

ReallocExtend(p, n) ==
    LET b == p - HDR
    IN  /\ RoomBehind(b, n)
        /\ heap' = Split(MergeNext(heap, b), b, AlignUp(n))
        /\ live' = [live EXCEPT ![p].req = n]
        /\ mem' = Settled(Grown(Stamped(mem, heap, heap'), p, n), heap', live')
        /\ UNCHANGED <<brk, foreign>>

Moved(p, q, n) == [r \in (DOMAIN live \ {p}) \cup {q} |->
                     IF r = q THEN [req |-> n, tag |-> live[p].tag] ELSE live[r]]

\* Fault: the old block is freed before its contents are copied.
ReallocMove_FreeFirst(p, n) ==
    LET b == p - HDR
    IN  /\ heap.blk[b].size < n /\ ~RoomBehind(b, n)
        /\ \E f \in Found(AlignUp(n)) :
             LET q == f.at + HDR
                 m == Settled(Stamped(Stamped(Received(mem, f), heap, f.h), f.h, Release(f.h, b)),
                              Release(f.h, b), Without(p))
             IN  /\ heap' = Release(f.h, b) /\ Grow(f)
                 /\ live' = Moved(p, q, n)
                 /\ mem' = Settled(Filled(Copied(m, p, q, heap.blk[b].size),
                                          q + live[p].req, q + n, live[p].tag), heap', live')

\* A new block, a copy of the old contents, and the old block is freed.
ReallocMove(p, n) ==
    LET b == p - HDR
    IN  /\ heap.blk[b].size < n /\ ~RoomBehind(b, n)
        /\ \E f \in Found(AlignUp(n)) :
             LET q == f.at + HDR
                 m == Copied(Stamped(Received(mem, f), heap, f.h), p, q, heap.blk[b].size)
             IN  /\ heap' = Release(f.h, b) /\ Grow(f)
                 /\ live' = Moved(p, q, n)
                 /\ mem' = Settled(Filled(Stamped(m, f.h, heap'),
                                          q + live[p].req, q + n, live[p].tag), heap', live')

Realloc(p, n) == ReallocShrink(p, n) \/ ReallocExtend(p, n) \/ ReallocMove(p, n)

Next ==
    \/ \E n \in Sizes, t \in Unused : Malloc(n, t)
    \/ \E p \in DOMAIN live : Free(p)
    \/ \E p \in DOMAIN live, n \in Sizes : Realloc(p, n)

Spec == Init /\ [][Next]_vars

----------------------------------------------------------------------------
(* Properties. *)

TypeOK ==
    /\ Blocks(heap) \subseteq Cells
    /\ heap.blk \in [Blocks(heap) -> BlockRec]
    /\ heap.head \in Blocks(heap) /\ heap.tail \in Blocks(heap)
    /\ mem \in [Cells -> Tags \cup {"header", "nothing", "foreign"}]
    /\ live \in [DOMAIN live -> [req : Sizes, tag : Tags]]
    /\ brk \in Static .. Top /\ foreign \subseteq Static .. brk - 1

\* What the program wrote into an allocation is there until it frees it, across
\* every split, merge, in-place and moving realloc of this and other blocks.
\* Nor does an allocation reach into a header: the list the allocator walks is
\* the one it wrote.
DataIntact ==
    /\ \A p \in DOMAIN live : \A c \in Span(p, live[p].req) : mem[c] = live[p].tag
    /\ \A c \in Headers(heap) : mem[c] = "header"

\* The list is one chain from head to tail that holds every block once.
Linked == LET nth == Nth(heap) IN {nth[i] : i \in DOMAIN nth} = Blocks(heap)

\* The list h is in the order of the addresses: next and prev of a block name
\* the blocks behind and before it and undo each other, no block reaches into
\* the next one, and the last one ends at `end` or before.
Chain(h, end) ==
    /\ h = [blk |-> h.blk, head |-> h.head, tail |-> h.tail]
    /\ h.blk \in [Blocks(h) -> BlockRec] /\ Blocks(h) \subseteq Cells
    /\ h.head \in Blocks(h) /\ h.blk[h.head].prev = NULL
    /\ h.tail \in Blocks(h) /\ h.blk[h.tail].next = NULL
    /\ \A a \in Blocks(h) : h.blk[a].next # NULL =>
         /\ h.blk[a].next \in Blocks(h) /\ h.blk[h.blk[a].next].prev = a
         /\ a + HDR + h.blk[a].size <= h.blk[a].next
    /\ \A a \in Blocks(h) : h.blk[a].prev # NULL =>
         h.blk[a].prev \in Blocks(h) /\ h.blk[h.blk[a].prev].next = a
    /\ \A a, b \in Blocks(h) : a < b =>
         /\ h.blk[a].next # NULL /\ h.blk[a].next <= b
         /\ h.blk[b].prev # NULL /\ a <= h.blk[b].prev
    /\ \A a \in Blocks(h) : a + HDR + h.blk[a].size <= end

\* The cells of the blocks, and those the linker script and the kernel gave.
Covered(h) == UNION {Span(a, HDR + h.blk[a].size) : a \in Blocks(h)}
Given == (0 .. brk - 1) \ foreign

\* The blocks are exactly the memory the allocator was given: no cell of it is
\* lost, whatever was split, merged, shrunk and extended (and Chain has no cell
\* counted twice).  A block that was merged over foreign memory is excepted:
\* what becomes of the memory given out then is ForeignIntact's question.
Tiled == Covered(heap) \cap foreign = {} => Covered(heap) = Given

\* The program's pointers are exactly the blocks in use, and each block holds
\* what was asked for.
Busy(h) == {b \in Blocks(h) : ~h.blk[b].free}
LiveAreUsed ==
    /\ DOMAIN live = {a + HDR : a \in Busy(heap)}
    /\ \A p \in DOMAIN live : live[p].req <= heap.blk[p - HDR].size

\* The list the allocator walks describes the heap: all of the above
\* (clib_heap_split, clib_heap_merge_next, clib_heap_extend).
ListIsHeap == TypeOK /\ Chain(heap, brk) /\ Linked /\ Tiled /\ LiveAreUsed

\* Memory the kernel did not give to the allocator, such as a mapping of the
\* program, is never written by it nor given out.
ForeignIntact == \A c \in foreign : mem[c] = "foreign"
=============================================================================
