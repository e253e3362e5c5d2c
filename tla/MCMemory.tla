------------------------------- MODULE MCMemory -------------------------------
(***************************************************************************)
(* The three memory managers for TLC: the mmu, malloc, and the checking    *)
(* wrappers of mini_memcheck.  One of them is used; the others stay in     *)
(* their initial state.                                                    *)
(*                                                                         *)
(* The mmu: page 0 is in no segment, 1 and 2 are the TESTING pages, 3 is a *)
(* TEXT page under another directory entry.                                *)
(***************************************************************************)
EXTENDS Mmu

CONSTANTS ENTRY, END, ALIGN, TRESHOLD, Base, Limit, MaxLive, Sizes,
          Address, BlockSizes, MaxTotal, MaxInvalid

VARIABLES part, heap, live,
          head, total_memory_requested, total_memory_freed, invalid_addresses,
          mem, owned, misused, crashed

MCDir == [g \in 0 .. 3 |-> IF g = 3 THEN 1 ELSE 0]

A == INSTANCE Alloc
C == INSTANCE MiniMemcheck WITH Sizes <- BlockSizes

ASSUME LayoutAssumption == A!LayoutOK
ASSUME RequestsAssumption == C!RequestsOK

allocVars == <<heap, live>>
checkVars == <<head, total_memory_requested, total_memory_freed, invalid_addresses,
               mem, owned, misused, crashed>>
all == <<part, vars, allocVars, checkVars>>

SuiteInit == /\ part \in {"mmu", "malloc", "memcheck"}
             /\ Init /\ A!Init /\ C!Init

MmuNext == part = "mmu" /\ Next /\ UNCHANGED <<part, allocVars, checkVars>>
MallocNext == part = "malloc" /\ A!Next /\ UNCHANGED <<part, vars, checkVars>>
MemcheckNext == part = "memcheck" /\ C!Next /\ UNCHANGED <<part, vars, allocVars>>

SuiteNext == MmuNext \/ MallocNext \/ MemcheckNext

SuiteSpec == SuiteInit /\ [][SuiteNext]_all

-----------------------------------------------------------------------------
\* alloc.c: the blocks tile the heap, and their footers agree with them.
HeapTiled == A!HeapTiled

\* alloc.c: the free list is exact, in address order and coalesced.
FreeListExact == A!FreeListExact

\* alloc.c: the blocks in use are the clients', large enough and aligned.
ClientsOwnTheirBlocks == A!ClientsOwnTheirBlocks

\* mini_memcheck.c: list, totals and count of invalid addresses are exact.
LedgerExact == C!LedgerExact
=============================================================================
