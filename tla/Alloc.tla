-------------------------------- MODULE Alloc --------------------------------
(***************************************************************************)
(* malloc/alloc.c: first fit over a doubly linked free list, splitting,    *)
(* and coalescing with boundary tags.  A block is an entry (header), its   *)
(* payload and an end (footer).  The heap is a record, and malloc and free *)
(* map a heap to a heap, so that realloc is their composition.             *)
(*                                                                         *)
(* Addresses are numbers.  hdr and foot hold the headers and footers that  *)
(* are in force; one that has been merged into another block, or handed to *)
(* a client as payload, is no longer in their domains.                     *)
(***************************************************************************)
EXTENDS Integers, FiniteSets

CONSTANTS ENTRY, END,  \* sizeof(entry), sizeof(end)
          ALIGN,       \* blocks are multiples of it
          TRESHOLD,    \* how much must be left over for a block to be split
          Base,        \* the first address sbrk returns
          Limit,       \* bound: sbrk fails beyond it
          MaxLive,     \* bound: the pointers clients hold at a time
          Sizes        \* the sizes clients ask for

\* What the constants must satisfy (assumed by the module that gives them values).
LayoutOK ==
    /\ {ENTRY, END, ALIGN, TRESHOLD, Base, Limit, MaxLive} \subseteq Nat \ {0}
    /\ Sizes \subseteq Nat

VARIABLES heap,  \* [hdr, foot, head, start, final, brk]
          live   \* history: the pointers clients hold |-> the size they asked for

vars == <<heap, live>>

NULL == 0
Overhead == ENTRY + END

\* The first byte after block e, where the next one starts.
After(h, e) == e + ENTRY + h.hdr[e].size + END

Init == /\ heap = [hdr |-> << >>, foot |-> << >>, head |-> NULL, start |-> NULL,
                   final |-> NULL, brk |-> Base]
        /\ live = << >>

-----------------------------------------------------------------------------
\* Writing a header: all four fields; and writing the footer that goes with it.
With(f, a, v) == [x \in DOMAIN f \cup {a} |-> IF x = a THEN v ELSE f[x]]
Without(f, a) == [x \in DOMAIN f \ {a} |-> f[x]]
PutBlock(h, e, size, free, prev, next) ==
    [h EXCEPT !.hdr = With(@, e, [size |-> size, free |-> free, prev |-> prev, next |-> next]),
              !.foot = With(@, e + ENTRY + size, size)]

\* p->next = e and p->prev = e, where the code tests p for NULL.
SetNext(h, p, e) == IF p = NULL THEN h ELSE [h EXCEPT !.hdr[p].next = e]
SetPrev(h, p, e) == IF p = NULL THEN h ELSE [h EXCEPT !.hdr[p].prev = e]

\* MUTANT: the result is rounded down.
RoundUpDown(size) == ((size + Overhead) \div ALIGN) * ALIGN - Overhead

\* Lines 87-89: the payload size of a block that is a multiple of ALIGN.
RoundUp(size) == ((size + Overhead + (ALIGN - 1)) \div ALIGN) * ALIGN - Overhead

\* Lines 92-99: the first block of the free list that is large enough.
FirstFit(h, size) ==
    LET search[p \in DOMAIN h.hdr \cup {NULL}] ==
          IF p = NULL THEN NULL
          ELSE IF h.hdr[p].size >= size THEN p
          ELSE search[h.hdr[p].next]
    IN search[h.head]

\* Lines 100-117: a new block from sbrk, or NULL.
Extend(h, size) ==
    IF h.brk + Overhead + size > Limit THEN [heap |-> h, ptr |-> NULL]
    ELSE [heap |-> [PutBlock(h, h.brk, size, FALSE, NULL, NULL) EXCEPT
                      !.start = IF @ = NULL THEN h.brk ELSE @,
                      !.final = h.brk,
                      !.brk = @ + Overhead + size],
          ptr |-> h.brk + ENTRY]

\* Lines 119-157: the rest of block e becomes a free block in its place.
Split(h, e, size) ==
    LET old == h.hdr[e]
        new == e + ENTRY + size + END
        h1 == PutBlock(h, new, old.size - size - Overhead, TRUE, old.prev, old.next)
        h2 == PutBlock(h1, e, size, FALSE, NULL, NULL)
        h3 == SetPrev(SetNext(h2, old.prev, new), old.next, new)
    IN [h3 EXCEPT !.final = IF @ = e THEN new ELSE @,
                  !.head = IF @ = e THEN new ELSE @]

\* Lines 119-121 and 159-170: block e as a whole leaves the free list.
Take(h, e) ==
    LET old == h.hdr[e]
        h1 == PutBlock(h, e, old.size, FALSE, NULL, NULL)
        h2 == SetPrev(SetNext(h1, old.prev, old.next), old.next, old.prev)
    IN [h2 EXCEPT !.head = IF @ = e THEN old.next ELSE @]

\* Line 122.
WorthSplitting(h, e, size) ==
    h.hdr[e].size > size /\ h.hdr[e].size >= TRESHOLD + size + Overhead

MallocOn(h, request) ==
    LET size == RoundUp(request)
        e == FirstFit(h, size)
    IN IF request = 0 THEN [heap |-> h, ptr |-> NULL]
       ELSE IF e = NULL THEN Extend(h, size)
       ELSE [heap |-> IF WorthSplitting(h, e, size) THEN Split(h, e, size) ELSE Take(h, e),
             ptr |-> e + ENTRY]

-----------------------------------------------------------------------------
\* Lines 203-209: the blocks before and behind e, by the footer before it.
Previous(h, e) == IF e > h.start THEN (e - END) - h.foot[e - END] - ENTRY ELSE NULL
NextBlock(h, e) == IF e < h.final THEN After(h, e) ELSE NULL

\* MUTANT: final is not moved back.
FinalAfterNot(h, b, gone) == h.final

FinalAfter(h, b, gone) == IF h.final = gone THEN b ELSE h.final

\* Block b grows over block gone, which lies right behind it: gone's header and
\* the footer of b cease to be.
Absorb(h, b, gone) ==
    LET size == h.hdr[b].size + Overhead + h.hdr[gone].size
        h1 == PutBlock(h, b, size, TRUE, h.hdr[b].prev, h.hdr[b].next)
    IN [h1 EXCEPT !.hdr = Without(@, gone),
                  !.foot = Without(@, gone - END),
                  !.final = FinalAfter(h, b, gone)]

\* Lines 210-217: into the free block before it.
MergePrevious(h, e) == Absorb(h, Previous(h, e), e)

\* MUTANT: head keeps pointing to the block that was absorbed.
MergeNextKeepsHead(h, e) ==
    LET n == NextBlock(h, e)
        h1 == [h EXCEPT !.hdr[e].prev = h.hdr[n].prev, !.hdr[e].next = h.hdr[n].next]
    IN Absorb(SetPrev(SetNext(h1, h.hdr[n].prev, e), h.hdr[n].next, e), e, n)

\* Lines 218-239: with the free block behind it, whose place in the list it takes.
MergeNext(h, e) ==
    LET n == NextBlock(h, e)
        h1 == [h EXCEPT !.hdr[e].prev = h.hdr[n].prev, !.hdr[e].next = h.hdr[n].next,
                        !.head = IF @ = n THEN e ELSE @]
    IN Absorb(SetPrev(SetNext(h1, h.hdr[n].prev, e), h.hdr[n].next, e), e, n)

\* Lines 240-253: with both.
MergeBoth(h, e) ==
    LET p == Previous(h, e)
        n == NextBlock(h, e)
        h1 == SetPrev(SetNext(h, p, h.hdr[n].next), h.hdr[n].next, p)
    IN Absorb(Absorb(h1, e, n), p, e)

\* Lines 255-286: insertion by address.  The walk stops at the first block
\* behind e, or at the last one.
Insert(h, e) ==
    LET walk[p \in DOMAIN h.hdr] == IF h.hdr[p].next = NULL \/ p > e THEN p
                                    ELSE walk[h.hdr[p].next]
        p == walk[h.head]
    IN IF h.head = NULL THEN [h EXCEPT !.head = e]
       ELSE IF p < e THEN [h EXCEPT !.hdr[p].next = e, !.hdr[e].prev = p]
       ELSE LET before == h.hdr[p].prev
                h1 == [h EXCEPT !.hdr[e].prev = before, !.hdr[e].next = p,
                                !.head = IF @ = p THEN e ELSE @]
            IN SetPrev(SetNext(h1, before, e), p, e)

FreeOn(h, ptr) ==
    LET e == ptr - ENTRY
        h1 == [h EXCEPT !.hdr[e].free = TRUE]
        p == Previous(h, e)
        n == NextBlock(h, e)
        prevFree == p # NULL /\ h.hdr[p].free
        nextFree == n # NULL /\ h.hdr[n].free
    IN CASE prevFree /\ ~nextFree -> MergePrevious(h1, e)
         [] ~prevFree /\ nextFree -> MergeNext(h1, e)
         [] prevFree /\ nextFree -> MergeBoth(h1, e)
         [] OTHER -> Insert(h1, e)

-----------------------------------------------------------------------------
\* A client keeps the pointer it was given, if it was given one.
Keep(ptr, size, held) == IF ptr = NULL THEN held ELSE With(held, ptr, size)

\* malloc, and calloc, which asks for num * size bytes and clears them.
Malloc(size) == LET r == MallocOn(heap, size) IN
                /\ heap' = r.heap
                /\ live' = Keep(r.ptr, size, live)

Free(ptr) == /\ heap' = FreeOn(heap, ptr)
             /\ live' = Without(live, ptr)

\* realloc of a block: size 0 frees it; otherwise a new block is allocated for
\* the rounded size, the old one is copied and freed, unless there is no room.
Realloc(ptr, size) ==
    LET r == MallocOn(heap, RoundUp(size)) IN
    IF size = 0 THEN Free(ptr)
    ELSE /\ heap' = IF r.ptr = NULL THEN heap ELSE FreeOn(r.heap, ptr)
         /\ live' = IF r.ptr = NULL THEN live ELSE Keep(r.ptr, size, Without(live, ptr))

Next == \/ \E size \in Sizes : Cardinality(DOMAIN live) < MaxLive /\ Malloc(size)
        \/ \E ptr \in DOMAIN live : Free(ptr) \/ \E size \in Sizes : Realloc(ptr, size)

Spec == Init /\ [][Next]_vars

-----------------------------------------------------------------------------
Blocks == DOMAIN heap.hdr
FreeBlocks == {e \in Blocks : heap.hdr[e].free}

\* The blocks tile the heap from start to the break: each one begins where
\* another ends, its footer repeats its size, no other footer is in force, and
\* final is the last.  free finds both neighbours by nothing else.
HeapTiled ==
    Blocks # {} =>
      /\ heap.start = Base /\ Base \in Blocks
      /\ {After(heap, e) : e \in Blocks} = (Blocks \ {Base}) \cup {heap.brk}
      /\ Cardinality({After(heap, e) : e \in Blocks}) = Cardinality(Blocks)
      /\ heap.final \in Blocks /\ After(heap, heap.final) = heap.brk
      /\ DOMAIN heap.foot = {After(heap, e) - END : e \in Blocks}
      /\ \A e \in Blocks : heap.foot[After(heap, e) - END] = heap.hdr[e].size

\* The free list is the free blocks in address order, linked both ways, and
\* whatever was freed is coalesced: no two free blocks touch.
FreeListExact ==
    LET before(e) == {f \in FreeBlocks : f < e}
        behind(e) == {f \in FreeBlocks : f > e}
        first(S) == IF S = {} THEN NULL ELSE CHOOSE f \in S : \A g \in S : f <= g
        last(S) == IF S = {} THEN NULL ELSE CHOOSE f \in S : \A g \in S : f >= g
    IN /\ heap.head = first(FreeBlocks)
       /\ \A e \in FreeBlocks : /\ heap.hdr[e].next = first(behind(e))
                                /\ heap.hdr[e].prev = last(before(e))
                                /\ After(heap, e) \notin FreeBlocks

\* The blocks in use are exactly those clients hold, each at least as large as
\* was asked for, aligned, and not larger than it by more than what a split
\* would have cut off.
ClientsOwnTheirBlocks ==
    /\ {e + ENTRY : e \in Blocks \ FreeBlocks} = DOMAIN live
    /\ \A ptr \in DOMAIN live :
         LET size == heap.hdr[ptr - ENTRY].size IN
         /\ size >= live[ptr]
         /\ size < RoundUp(live[ptr]) + TRESHOLD + Overhead
         /\ (ptr - ENTRY - Base) % ALIGN = 0
=============================================================================
