--------------------------------- MODULE Mmu ----------------------------------
(***************************************************************************)
(* ideal_indirection/mmu.c: virtual memory through segments, a two-level   *)
(* page table per process and a TLB, with frames asked of the kernel,      *)
(* which may swap out any page to find one.                                *)
(*                                                                         *)
(* The kernel, the TLB and the disk are not in the repository; they are    *)
(* modelled from their use here.  A page_table_entry* is the frame of its  *)
(* table with the page's place in it.  A page's bytes are one value.  Left *)
(* out: the counters of misses and faults, and the bits accessed, dirty,   *)
(* read_write and user_supervisor, which this file only writes.            *)
(***************************************************************************)
EXTENDS Integers, FiniteSets

CONSTANTS Pids,
          Pages,      \* virtual page numbers
          Testing,    \* the two pages add_process maps, entries 1 and 2 of table 0
          Readable, Writable,  \* the pages in a segment with READ, with WRITE
          Unmapped,   \* the pages in no segment
          Dir,        \* Dir[g]: the directory entry page g is under
          Frames,     \* physical frames
          TlbSize,    \* how many entries the TLB holds
          MaxAdds,    \* bound: how often a process is added
          Values,     \* what a page can hold
          Zero,       \* the contents of a new page
          NoProcess

ASSUME FrameAssumption == Frames \subseteq Nat \ {0} /\ TlbSize \in Nat \ {0}
ASSUME PageAssumption == /\ Testing \subseteq Pages /\ Unmapped \subseteq Pages
                         /\ Readable \subseteq Pages \ Unmapped
                         /\ Writable \subseteq Pages \ Unmapped
                         /\ \A g \in Testing : Dir[g] = 0
                         /\ Zero \in Values
ASSUME NoProcessAssumption == NoProcess \notin [Pages -> Values]

NULL == 0
Free == <<NULL, "free">>
Pinned == <<NULL, "pinned">>
Dirs == {Dir[g] : g \in Pages}

VARIABLES page_directories,  \* the frame of each process's directory, or NULL
          curr_pid,
          tlb,     \* page number |-> page_table_entry*
          ram,     \* [pdes, ptes, data, owner]: directory entries, page table
                   \* entries and data of each frame, and who got it: Free,
                   \* Pinned, or the page_table_entry* it was given for
          swap,    \* the swap files of the pages that are out
          answer,  \* of the last access
          added    \* the number of processes added so far

vars == <<page_directories, curr_pid, tlb, ram, swap, answer, added>>

\* mmu_create: calloc makes curr_pid 0, a pid like any other.
Init == /\ page_directories = [p \in Pids |-> NULL]
        /\ curr_pid = 0
        /\ tlb = << >>
        /\ ram = [pdes |-> [f \in Frames |-> [d \in Dirs |-> NULL]],
                  ptes |-> [f \in Frames |-> [g \in Pages |-> NULL]],
                  data |-> [f \in Frames |-> Zero],
                  owner |-> [f \in Frames |-> Free]]
        /\ swap = << >>
        /\ answer = <<"none">>
        /\ added = 0

-----------------------------------------------------------------------------
(* The kernel, the TLB and the disk. *)

Without(f, S) == [x \in DOMAIN f \ S |-> f[x]]
With(f, x, v) == [y \in DOMAIN f \cup {x} |-> IF y = x THEN v ELSE f[y]]

\* *pge refers to frame f, or is not present if f is NULL.
Mapped(m, pge, f) == [m EXCEPT !.ptes[pge[1]][pge[2]] = f]

\* Frame f holds v.
Filled(m, f, v) == [m EXCEPT !.data[f] = v]

\* Entry d of directory pd refers to the table in frame t.
Linked(m, pd, d, t) == [m EXCEPT !.pdes[pd][d] = t]

\* The frames in S, zeroed, go to who.
Given(m, S, who) ==
    [pdes |-> [f \in Frames |-> IF f \in S THEN [d \in Dirs |-> NULL] ELSE m.pdes[f]],
     ptes |-> [f \in Frames |-> IF f \in S THEN [g \in Pages |-> NULL] ELSE m.ptes[f]],
     data |-> [f \in Frames |-> IF f \in S THEN Zero ELSE m.data[f]],
     owner |-> [f \in Frames |-> IF f \in S THEN who ELSE m.owner[f]]]

\* ask_kernel_for_frame: a free frame, else one whose page is written to its
\* swap file and marked as not present.  The result is a set of outcomes.
AskKernel(m, s, who) ==
    LET free == {f \in Frames : m.owner[f] = Free}
        first == CHOOSE f \in free : \A x \in free : f <= x
        victims == {f \in Frames : m.owner[f] \notin {Free, Pinned}}
    IN IF free # {} THEN {[ram |-> Given(m, {first}, who), swap |-> s, frame |-> first]}
       ELSE {[ram |-> Given(Mapped(m, m.owner[f], NULL), {f}, who),
              swap |-> With(s, m.owner[f], m.data[f]), frame |-> f] : f \in victims}

-----------------------------------------------------------------------------
\* MUTANT: the TLB is kept when another process is served.
SwitchedKeeps(pid) == tlb

\* Lines 24-27.
Switched(pid) == IF pid # curr_pid THEN << >> ELSE tlb

\* Lines 45-52: the page table of page g, made if it is not there.
TableOutcomes(pid, g) ==
    LET pd == page_directories[pid]
        table == ram.pdes[pd][Dir[g]]
    IN IF table # NULL THEN {[ram |-> ram, swap |-> swap, frame |-> table]}
       ELSE {[ram |-> Linked(k.ram, pd, Dir[g], k.frame), swap |-> k.swap, frame |-> k.frame] :
               k \in AskKernel(ram, swap, Pinned)}

\* read_page_from_disk: the swap file, if there is one.
FromDisk(m, s, pge, f) == IF pge \in DOMAIN s THEN s[pge] ELSE m.data[f]

\* Lines 58-66: the page behind pge, brought in if it is not present.
PageOutcomes(m, s, pge) ==
    IF m.ptes[pge[1]][pge[2]] # NULL
    THEN {[ram |-> m, swap |-> s, frame |-> m.ptes[pge[1]][pge[2]]]}
    ELSE {[ram |-> Filled(Mapped(k.ram, pge, k.frame), k.frame,
                          FromDisk(k.ram, k.swap, pge, k.frame)),
           swap |-> Without(k.swap, {pge}), frame |-> k.frame] : k \in AskKernel(m, s, pge)}

\* tlb_add_pte: a full TLB loses one entry, any one.
Cached(t, g, pge) ==
    IF Cardinality(DOMAIN t) < TlbSize THEN {With(t, g, pge)}
    ELSE {With(Without(t, {x}), g, pge) : x \in DOMAIN t}

\* The page behind pge, with c in the TLB.
Fetched(c, m, s, pge) == {[tlb |-> c, ram |-> k.ram, swap |-> k.swap, frame |-> k.frame] :
                            k \in PageOutcomes(m, s, pge)}

\* A miss: the entry of page g in the table found is cached in TLB t.
Missed(t, table, g) ==
    LET pge == <<table.frame, g>>
    IN UNION {Fetched(c, table.ram, table.swap, pge) : c \in Cached(t, g, pge)}

\* Both accesses, up to the frame: TLB, page table, page.
Access(pid, g) ==
    LET t == Switched(pid)
    IN IF g \in DOMAIN t THEN Fetched(t, ram, swap, t[g])
       ELSE UNION {Missed(t, table, g) : table \in TableOutcomes(pid, g)}

SegmentationFault(pid) == /\ tlb' = Switched(pid)
                          /\ answer' = <<"segfault">>
                          /\ UNCHANGED <<ram, swap>>

mmu_read_from_virtual_address(pid, g) ==
    /\ page_directories[pid] # NULL
    /\ curr_pid' = pid
    /\ \/ g \in Unmapped /\ SegmentationFault(pid)
       \/ /\ g \notin Unmapped
          /\ \E k \in Access(pid, g) :
               /\ tlb' = k.tlb /\ ram' = k.ram /\ swap' = k.swap
               /\ answer' = IF g \in Readable THEN <<"value", k.ram.data[k.frame]>>
                            ELSE <<"segfault">>
    /\ UNCHANGED <<page_directories, added>>

\* Line 135.
MayWrite(g) == g \in Writable

mmu_write_to_virtual_address(pid, g, v) ==
    /\ page_directories[pid] # NULL
    /\ curr_pid' = pid
    /\ \/ g \in Unmapped /\ SegmentationFault(pid)
       \/ /\ g \notin Unmapped
          /\ \E k \in Access(pid, g) :
               /\ tlb' = k.tlb /\ swap' = k.swap
               /\ \/ MayWrite(g) /\ ram' = Filled(k.ram, k.frame, v) /\ answer' = <<"done">>
                  \/ ~MayWrite(g) /\ ram' = k.ram /\ answer' = <<"segfault">>
    /\ UNCHANGED <<page_directories, added>>

\* Lines 231-236: a page of a new process, nothing of which can be on the disk.
NewPage(m, s, pge) == {[ram |-> Mapped(k.ram, pge, k.frame), swap |-> k.swap] :
                         k \in AskKernel(m, s, pge)}

\* A directory, its first table and the two testing pages, in that order; a
\* later request may already swap out an earlier page.
mmu_add_process(pid) ==
    /\ page_directories[pid] = NULL /\ added < MaxAdds
    /\ added' = added + 1
    /\ \E pd \in AskKernel(ram, swap, Pinned) :
       \E pt \in AskKernel(pd.ram, pd.swap, Pinned) :
       \E g1 \in Testing : \E g2 \in Testing \ {g1} :
         /\ \A g \in Testing : g1 <= g
         /\ \E k1 \in NewPage(Linked(pt.ram, pd.frame, 0, pt.frame), pt.swap, <<pt.frame, g1>>) :
            \E k2 \in NewPage(k1.ram, k1.swap, <<pt.frame, g2>>) :
              ram' = k2.ram /\ swap' = k2.swap
         /\ page_directories' = [page_directories EXCEPT ![pid] = pd.frame]
    /\ UNCHANGED <<curr_pid, tlb, answer>>

\* MUTANT: the process's entries stay in the TLB.
FlushedKeeps(pid) == tlb

\* Lines 267-269.
Flushed(pid) == IF curr_pid = pid THEN << >> ELSE tlb

\* Line 255: the swap file of every entry of the process's tables goes.
SwapLeft(tables) == Without(swap, {x \in DOMAIN swap : x[1] \in tables})

\* MUTANT: page tables are not returned.
ReturnedPagesOnly(pd, tables, pages) == {pd} \cup pages

\* Lines 253, 257 and 260.
Returned(pd, tables, pages) == {pd} \cup tables \cup pages

mmu_remove_process(pid) ==
    LET pd == page_directories[pid]
        tables == {ram.pdes[pd][d] : d \in Dirs} \ {NULL}
        pages == (UNION {{ram.ptes[t][g] : g \in Pages} : t \in tables}) \ {NULL}
    IN /\ pd # NULL
       /\ ram' = Given(ram, Returned(pd, tables, pages), Free)
       /\ swap' = SwapLeft(tables)
       /\ page_directories' = [page_directories EXCEPT ![pid] = NULL]
       /\ tlb' = Flushed(pid)
       /\ UNCHANGED <<curr_pid, answer, added>>

Next == \E pid \in Pids :
          \/ mmu_add_process(pid)
          \/ mmu_remove_process(pid)
          \/ \E g \in Pages : \/ mmu_read_from_virtual_address(pid, g)
                              \/ \E v \in Values : mmu_write_to_virtual_address(pid, g, v)

Spec == Init /\ [][Next]_vars

-----------------------------------------------------------------------------
\* Every TLB entry is the entry that a walk of the tables of the process being
\* served would find: the TLB outlives neither a switch, nor the process, nor
\* the frames its tables were in.
TlbFresh ==
    DOMAIN tlb # {} =>
      /\ page_directories[curr_pid] # NULL
      /\ \A g \in DOMAIN tlb :
           tlb[g] = <<ram.pdes[page_directories[curr_pid]][Dir[g]], g>> /\ tlb[g][1] # NULL

\* What each directory and each table in use refers to.
TablesOf(pd) == {ram.pdes[pd][d] : d \in Dirs} \ {NULL}
Directories == {page_directories[p] : p \in Pids} \ {NULL}
Tables == UNION {TablesOf(pd) : pd \in Directories}

\* Every frame the kernel has given out has one use: the directory of one
\* process, the table of one directory entry, or the page of the table entry it
\* was given for; none is leaked when a process goes, none is shared.
FramesOwnedOnce ==
    /\ \A p, q \in Pids : page_directories[p] = page_directories[q] =>
                             p = q \/ page_directories[p] = NULL
    /\ \A pd, qd \in Directories, d, e \in Dirs :
         ram.pdes[pd][d] = ram.pdes[qd][e] => <<pd, d>> = <<qd, e>> \/ ram.pdes[pd][d] = NULL
    /\ Directories \cap Tables = {}
    /\ Directories \cup Tables = {f \in Frames : ram.owner[f] = Pinned}
    /\ \A f \in Frames : ram.owner[f] \notin {Free, Pinned} =>
         ram.owner[f][1] \in Tables /\ ram.ptes[ram.owner[f][1]][ram.owner[f][2]] = f
    /\ \A t \in Tables, g \in Pages :
         ram.ptes[t][g] # NULL => ram.owner[ram.ptes[t][g]] = <<t, g>>
    /\ \A x \in DOMAIN swap : x[1] \in Tables

\* Where page g of a process is, by its tables: in a frame, on the disk, or
\* nowhere yet.
ContentsOf(pid) ==
    LET pd == page_directories[pid]
        at(g) == LET t == ram.pdes[pd][Dir[g]]
                 IN IF t = NULL THEN Zero
                    ELSE IF ram.ptes[t][g] # NULL THEN ram.data[ram.ptes[t][g]]
                    ELSE IF <<t, g>> \in DOMAIN swap THEN swap[<<t, g>>] ELSE Zero
    IN IF pd = NULL THEN NoProcess ELSE [g \in Pages |-> at(g)]

\* The mmu implements private memory: whatever is switched, evicted, swapped in,
\* cached, removed and added again, a process reads what it last wrote to the
\* page, zero if nothing, and is refused where its segments say so.
Memory == INSTANCE PrivateMemory WITH contents <- [p \in Pids |-> ContentsOf(p)]
ImplementsPrivateMemory == Memory!MemorySpec
=============================================================================
