----------------------------- MODULE MemoryProofs -----------------------------
(***************************************************************************)
(* Proofs about the memory managers: ideal_indirection/mmu.c, for all      *)
(* processes, pages, frames and sizes of the TLB; malloc/alloc.c, for      *)
(* every size of entries, ends, alignment and threshold, every size of     *)
(* heap and every sequence of requests; and mini_memcheck.c, for all       *)
(* addresses, sizes and sequences of calls.                                *)
(***************************************************************************)
EXTENDS MCMemory, FiniteSetTheorems, WellFoundedInduction, TLAPS

-----------------------------------------------------------------------------
(* mmu.c.  The memory m, the swap files s and the set ds of directories    *)
(* are parameters of what follows: mmu_add_process and the accesses go     *)
(* through several memories before the one they leave behind.              *)


Owners == {Free, Pinned} \cup (Frames \X Pages)

MemoryType(m) ==
    m \in [pdes : [Frames -> [Dirs -> Frames \cup {NULL}]],
           ptes : [Frames -> [Pages -> Frames \cup {NULL}]],
           data : [Frames -> Values],
           owner : [Frames -> Owners]]

SwapType(s) == /\ DOMAIN s \subseteq Frames \X Pages
               /\ s \in [DOMAIN s -> Values]

\* The tables that the directories in ds refer to.
TablesIn(ds, m) == {t \in Frames : \E pd \in ds, d \in Dirs : m.pdes[pd][d] = t}

SoundTypes(ds, loose, m, s) ==
    MemoryType(m) /\ SwapType(s) /\ ds \subseteq Frames /\ loose \subseteq Frames

\* Every directory entry in use has a table of its own.
TablesApart(ds, m) ==
    \A pd \in ds : \A qd \in ds : \A d \in Dirs : \A e \in Dirs :
      m.pdes[pd][d] = m.pdes[qd][e] /\ m.pdes[pd][d] # NULL => pd = qd /\ d = e

\* Directories, tables and the frames in loose, not yet linked, are the pinned
\* ones, and no frame is two of these.
PinnedUse(ds, loose, m) ==
    /\ \A f \in TablesIn(ds, m) : f \notin ds /\ f \notin loose
    /\ \A f \in ds : f \notin loose
    /\ \A f \in Frames : m.owner[f] = Pinned <=> f \in ds \/ f \in TablesIn(ds, m) \/ f \in loose

\* Every other frame given out is the page of one entry of one table.
PageUse(ds, m) ==
    /\ \A f \in Frames : \A t \in Frames : \A g \in Pages :
         m.owner[f] = <<t, g>> => t \in TablesIn(ds, m) /\ m.ptes[t][g] = f
    /\ \A t \in TablesIn(ds, m) : \A g \in Pages :
         m.ptes[t][g] # NULL => m.owner[m.ptes[t][g]] = <<t, g>>

\* The swap files are of entries of the tables.
SwapUse(ds, m, s) ==
    \A t \in Frames : \A g \in Pages :
      <<t, g>> \in DOMAIN s => t \in TablesIn(ds, m)

Sound(ds, loose, m, s) == /\ SoundTypes(ds, loose, m, s)
                          /\ TablesApart(ds, m) /\ PinnedUse(ds, loose, m)
                          /\ PageUse(ds, m) /\ SwapUse(ds, m, s)

\* What entry g of table t stands for: its page, in memory or on the disk.
PageOf(m, s, t, g) == IF m.ptes[t][g] # NULL THEN m.data[m.ptes[t][g]]
                      ELSE IF <<t, g>> \in DOMAIN s THEN s[<<t, g>>] ELSE Zero

-----------------------------------------------------------------------------
(* The kernel. *)

\* < on the natural numbers is a well-founded relation.
LEMMA LessThan ==
    \E less : /\ IsWellFoundedOn(less, Nat)
              /\ \A x \in Nat : \A y \in Nat : x < y => <<x, y>> \in less
  <1> DEFINE less == OpToRel(<, Nat)
  <1>1. IsWellFoundedOn(less, Nat)
    BY NatLessThanWellFounded, Zenon
  <1>2. \A x \in Nat : \A y \in Nat : x < y => <<x, y>> \in less
    BY DEF OpToRel
  <1> HIDE DEF less
  <1> QED BY <1>1, <1>2, Zenon

\* A set of numbers has a minimal element of such a relation.
LEMMA MinimalElement ==
    ASSUME NEW Q \in SUBSET Nat, Q # {}, NEW less, IsWellFoundedOn(less, Nat)
    PROVE  \E x \in Q : \A y \in Q : ~(<<y, x>> \in less)
  BY WFMin, Zenon

\* The frame that ask_kernel_for_frame chooses among the free ones is one of them.
LEMMA LeastFrame ==
    ASSUME NEW Q \in SUBSET Nat, Q # {}
    PROVE  (CHOOSE f \in Q : \A x \in Q : f <= x) \in Q
  <1>1. PICK less : /\ IsWellFoundedOn(less, Nat)
                    /\ \A x \in Nat : \A y \in Nat : x < y => <<x, y>> \in less
    BY LessThan
  <1>2. PICK x \in Q : \A y \in Q : ~(<<y, x>> \in less)
    BY <1>1, MinimalElement
  <1>3. \A y \in Q : x <= y
    <2> TAKE y \in Q
    <2>1. ~(y < x)
      BY <1>1, <1>2
    <2> QED BY <2>1
  <1> QED BY <1>3

\* No frame is taken for NULL.
LEMMA FramesAreNot0 == \A f \in Frames : f # NULL /\ f \in Nat
  BY FrameAssumption DEF NULL

\* A page_table_entry* is taken for neither mark of the kernel.
LEMMA PagesOwn ==
    \A t \in Frames : \A g \in Pages : <<t, g>> # Free /\ <<t, g>> # Pinned /\ <<t, g>> \in Owners
  <1>1. Free # Pinned
    BY DEF Free, Pinned
  <1> QED BY FramesAreNot0 DEF Free, Pinned, Owners

\* A frame is free, pinned or some entry's.
LEMMA OwnersCases ==
    ASSUME NEW o \in Owners
    PROVE  /\ Free # Pinned
           /\ o = Free \/ o = Pinned \/ \E t \in Frames, g \in Pages : o = <<t, g>>
  BY DEF Owners, Free, Pinned

\* r is memory m with frame f zeroed and given to who.
GivenOne(m, f, who, r) ==
    /\ MemoryType(r)
    /\ \A x \in Frames : \A d \in Dirs : r.pdes[x][d] = IF x = f THEN NULL ELSE m.pdes[x][d]
    /\ \A x \in Frames : \A g \in Pages : r.ptes[x][g] = IF x = f THEN NULL ELSE m.ptes[x][g]
    /\ \A x \in Frames : r.data[x] = IF x = f THEN Zero ELSE m.data[x]
    /\ \A x \in Frames : r.owner[x] = IF x = f THEN who ELSE m.owner[x]

\* z is s with the page that owner o had, of contents v, in its swap file.
WrittenOut(s, o, v, z) ==
    /\ SwapType(z)
    /\ \A x \in Frames : \A h \in Pages :
         /\ <<x, h>> \in DOMAIN z <=> <<x, h>> \in DOMAIN s \/ o = <<x, h>>
         /\ <<x, h>> \in DOMAIN z => z[<<x, h>>] = IF o = <<x, h>> THEN v ELSE s[<<x, h>>]

\* What ask_kernel_for_frame does, entry by entry: frame f, which is no directory
\* and no table, is zeroed and goes to who; the page that was in it, if any, goes
\* to its swap file.
Asked(m, s, who, r, z, f) ==
    /\ f \in Frames /\ m.owner[f] # Pinned
    /\ MemoryType(r)
    /\ \A x \in Frames : \A d \in Dirs : r.pdes[x][d] = IF x = f THEN NULL ELSE m.pdes[x][d]
    /\ \A x \in Frames : \A g \in Pages :
         r.ptes[x][g] = IF x = f \/ m.owner[f] = <<x, g>> THEN NULL ELSE m.ptes[x][g]
    /\ \A x \in Frames : r.data[x] = IF x = f THEN Zero ELSE m.data[x]
    /\ \A x \in Frames : r.owner[x] = IF x = f THEN who ELSE m.owner[x]
    /\ WrittenOut(s, m.owner[f], m.data[f], z)

\* Given, entry by entry.
LEMMA GivenMemory ==
    ASSUME NEW m, MemoryType(m), NEW f \in Frames, NEW who \in Owners
    PROVE  GivenOne(m, f, who, Given(m, {f}, who))
  BY PageAssumption DEF MemoryType, Given, GivenOne

\* r is memory m with entry g of table t referring to frame f.
MappedOne(m, t, g, f, r) ==
    /\ MemoryType(r)
    /\ r.pdes = m.pdes /\ r.data = m.data /\ r.owner = m.owner
    /\ \A x \in Frames : \A h \in Pages :
         r.ptes[x][h] = IF x = t /\ h = g THEN f ELSE m.ptes[x][h]

\* Mapped, entry by entry.
LEMMA MappedMemory ==
    ASSUME NEW m, MemoryType(m), NEW t \in Frames, NEW g \in Pages, NEW f \in Frames \cup {NULL}
    PROVE  MappedOne(m, t, g, f, Mapped(m, <<t, g>>, f))
  <1> DEFINE r == Mapped(m, <<t, g>>, f)
             row == [m.ptes[t] EXCEPT ![g] = f]
             ptes == [m.ptes EXCEPT ![t] = row]
  <1>1. r = [m EXCEPT !.ptes = ptes]
    BY DEF Mapped
  <1>2. /\ row \in [Pages -> Frames \cup {NULL}]
        /\ \A h \in Pages : row[h] = IF h = g THEN f ELSE m.ptes[t][h]
    BY DEF MemoryType
  <1> HIDE DEF row
  <1>3. /\ ptes \in [Frames -> [Pages -> Frames \cup {NULL}]]
        /\ \A x \in Frames : ptes[x] = IF x = t THEN row ELSE m.ptes[x]
    BY <1>2 DEF MemoryType
  <1> HIDE DEF ptes
  <1>4. MemoryType(r) /\ r.ptes = ptes /\ r.pdes = m.pdes /\ r.data = m.data /\ r.owner = m.owner
    BY <1>1, <1>3 DEF MemoryType
  <1> HIDE DEF r
  <1>5. MappedOne(m, t, g, f, r)
    BY <1>2, <1>3, <1>4 DEF MappedOne
  <1> QED BY <1>5 DEF r

\* r is memory m with entry d of directory pd referring to table t.
LinkedOne(m, pd, d, t, r) ==
    /\ MemoryType(r)
    /\ r.ptes = m.ptes /\ r.data = m.data /\ r.owner = m.owner
    /\ \A x \in Frames : \A e \in Dirs :
         r.pdes[x][e] = IF x = pd /\ e = d THEN t ELSE m.pdes[x][e]

\* Linked, entry by entry.
LEMMA LinkedMemory ==
    ASSUME NEW m, MemoryType(m), NEW pd \in Frames, NEW d \in Dirs, NEW t \in Frames
    PROVE  LinkedOne(m, pd, d, t, Linked(m, pd, d, t))
  <1> DEFINE r == Linked(m, pd, d, t)
             row == [m.pdes[pd] EXCEPT ![d] = t]
             pdes == [m.pdes EXCEPT ![pd] = row]
  <1>1. r = [m EXCEPT !.pdes = pdes]
    BY DEF Linked
  <1>2. /\ row \in [Dirs -> Frames \cup {NULL}]
        /\ \A e \in Dirs : row[e] = IF e = d THEN t ELSE m.pdes[pd][e]
    BY DEF MemoryType
  <1> HIDE DEF row
  <1>3. /\ pdes \in [Frames -> [Dirs -> Frames \cup {NULL}]]
        /\ \A x \in Frames : pdes[x] = IF x = pd THEN row ELSE m.pdes[x]
    BY <1>2 DEF MemoryType
  <1> HIDE DEF pdes
  <1>4. MemoryType(r) /\ r.pdes = pdes /\ r.ptes = m.ptes /\ r.data = m.data /\ r.owner = m.owner
    BY <1>1, <1>3 DEF MemoryType
  <1> HIDE DEF r
  <1>5. LinkedOne(m, pd, d, t, r)
    BY <1>2, <1>3, <1>4 DEF LinkedOne
  <1> QED BY <1>5 DEF r

\* ask_kernel_for_frame where a frame is free.
LEMMA AskKernelFree ==
    ASSUME NEW m, NEW s, MemoryType(m), SwapType(s), NEW who \in Owners,
           NEW f \in Frames, m.owner[f] = Free
    PROVE  Asked(m, s, who, Given(m, {f}, who), s, f)
  <1> DEFINE r == Given(m, {f}, who)
  <1>1. GivenOne(m, f, who, r)
    BY GivenMemory
  <1> HIDE DEF r
  <1>2. Free # Pinned /\ \A x \in Frames : \A g \in Pages : Free # <<x, g>>
    BY PagesOwn, OwnersCases DEF Owners
  <1>3. WrittenOut(s, Free, m.data[f], s)
    BY <1>2 DEF WrittenOut
  <1>4. Asked(m, s, who, r, s, f)
    BY <1>1, <1>2, <1>3 DEF Asked, GivenOne
  <1> QED BY <1>4 DEF r

\* ask_kernel_for_frame where a page has to go.
LEMMA AskKernelEvicts ==
    ASSUME NEW m, NEW s, MemoryType(m), SwapType(s), NEW who \in Owners,
           NEW f \in Frames, m.owner[f] \notin {Free, Pinned}
    PROVE  Asked(m, s, who, Given(Mapped(m, m.owner[f], NULL), {f}, who),
                 With(s, m.owner[f], m.data[f]), f)
  <1>1. PICK t \in Frames, g \in Pages : m.owner[f] = <<t, g>>
    BY OwnersCases DEF MemoryType
  <1> DEFINE e == Mapped(m, <<t, g>>, NULL)
             r == Given(e, {f}, who)
             z == With(s, <<t, g>>, m.data[f])
  <1>2. MappedOne(m, t, g, NULL, e)
    BY MappedMemory
  <1>3. m.data[f] \in Values
    BY DEF MemoryType
  <1>4. WrittenOut(s, <<t, g>>, m.data[f], z)
    BY <1>3 DEF With, SwapType, WrittenOut
  <1> HIDE DEF e
  <1>5. GivenOne(e, f, who, r)
    BY <1>2, GivenMemory DEF MappedOne
  <1> HIDE DEF r, z
  <1>6. m.owner[f] # Pinned
    OBVIOUS
  <1>7. \A x \in Frames : \A h \in Pages :
          r.ptes[x][h] = IF x = f \/ m.owner[f] = <<x, h>> THEN NULL ELSE m.ptes[x][h]
    BY <1>1, <1>2, <1>5 DEF MappedOne, GivenOne
  <1>8. Asked(m, s, who, r, z, f)
    BY <1>1, <1>2, <1>4, <1>5, <1>6, <1>7 DEF Asked, MappedOne, GivenOne
  <1> QED BY <1>1, <1>8 DEF r, z, e

\* Both cases of ask_kernel_for_frame.
LEMMA AskKernelGives ==
    ASSUME NEW m, NEW s, MemoryType(m), SwapType(s), NEW who \in Owners,
           NEW k \in AskKernel(m, s, who)
    PROVE  Asked(m, s, who, k.ram, k.swap, k.frame)
  <1> DEFINE free == {f \in Frames : m.owner[f] = Free}
             first == CHOOSE f \in free : \A x \in free : f <= x
             victims == {f \in Frames : m.owner[f] \notin {Free, Pinned}}
  <1>1. CASE free # {}
    <2>1. k.ram = Given(m, {first}, who) /\ k.swap = s /\ k.frame = first
      BY <1>1 DEF AskKernel
    <2>2. free \in SUBSET Nat
      BY FramesAreNot0
    <2>3. first \in free
      BY <1>1, <2>2, LeastFrame
    <2> HIDE DEF first
    <2> QED BY <2>1, <2>3, AskKernelFree
  <1>2. CASE free = {}
    <2>1. PICK f \in victims :
            /\ k.ram = Given(Mapped(m, m.owner[f], NULL), {f}, who)
            /\ k.swap = With(s, m.owner[f], m.data[f]) /\ k.frame = f
      BY <1>2 DEF AskKernel
    <2> QED BY <2>1, AskKernelEvicts
  <1> QED BY <1>1, <1>2

\* The tables stand for the same pages in both memories.
SamePages(ds, m, s, r, z) ==
    \A t \in TablesIn(ds, m) : \A g \in Pages : PageOf(r, z, t, g) = PageOf(m, s, t, g)

\* The directories refer to the same tables, which stand for the same pages.
Kept(ds, m, s, r, z) ==
    /\ \A pd \in ds : \A d \in Dirs : r.pdes[pd][d] = m.pdes[pd][d]
    /\ TablesIn(ds, r) = TablesIn(ds, m)
    /\ SamePages(ds, m, s, r, z)

\* A frame asked for as a directory or table leaves everything else as it is.
LEMMA KernelPins ==
    ASSUME NEW ds, NEW loose, NEW m, NEW s, Sound(ds, loose, m, s),
           NEW r, NEW z, NEW f, Asked(m, s, Pinned, r, z, f)
    PROVE  /\ f \in Frames /\ f \notin ds /\ f \notin loose /\ f \notin TablesIn(ds, m)
           /\ Kept(ds, m, s, r, z)
           /\ Sound(ds, loose \cup {f}, r, z)
  <1> USE DEF SoundTypes
  <1>1. f \in Frames /\ f \notin ds /\ f \notin loose /\ f \notin TablesIn(ds, m)
    BY DEF Sound, PinnedUse, Asked
  <1>2. \A pd \in ds : \A d \in Dirs : r.pdes[pd][d] = m.pdes[pd][d]
    BY <1>1 DEF Sound, Asked
  <1>3. TablesIn(ds, r) = TablesIn(ds, m)
    BY <1>2 DEF TablesIn
  <1>4. SoundTypes(ds, loose \cup {f}, r, z)
    BY <1>1 DEF Asked, WrittenOut, Sound
  <1>5. TablesApart(ds, r)
    BY <1>2 DEF Sound, TablesApart
  <1>6. PinnedUse(ds, loose \cup {f}, r)
    BY <1>1, <1>3 DEF Sound, PinnedUse, Asked
  <1>7. PageUse(ds, r)
    <2>1. ASSUME NEW x \in Frames, NEW t \in Frames, NEW g \in Pages, r.owner[x] = <<t, g>>
          PROVE  t \in TablesIn(ds, m) /\ r.ptes[t][g] = x
      <3>1. x # f /\ m.owner[x] = <<t, g>>
        BY <2>1, PagesOwn DEF Asked
      <3>2. t \in TablesIn(ds, m) /\ m.ptes[t][g] = x
        BY <3>1 DEF Sound, PageUse
      <3>3. t # f /\ m.owner[f] # <<t, g>>
        BY <3>1, <3>2, <1>1 DEF Sound, PageUse
      <3> QED BY <3>2, <3>3 DEF Asked
    <2>2. ASSUME NEW t \in TablesIn(ds, m), NEW g \in Pages, r.ptes[t][g] # NULL
          PROVE  r.owner[r.ptes[t][g]] = <<t, g>>
      <3>0. t \in Frames
        BY DEF TablesIn
      <3>1. r.ptes[t][g] = m.ptes[t][g] /\ m.owner[f] # <<t, g>>
        BY <2>2, <3>0 DEF Asked
      <3>2. m.owner[m.ptes[t][g]] = <<t, g>>
        BY <2>2, <3>1 DEF Sound, PageUse
      <3>3. m.ptes[t][g] \in Frames /\ m.ptes[t][g] # f
        BY <2>2, <3>0, <3>1, <3>2 DEF Sound, MemoryType
      <3> QED BY <3>1, <3>2, <3>3 DEF Asked
    <2> QED BY <1>3, <2>1, <2>2 DEF PageUse
  <1>8. SwapUse(ds, r, z)
    BY <1>1, <1>3 DEF Sound, SwapUse, PageUse, Asked, WrittenOut
  <1>9. SamePages(ds, m, s, r, z)
    <2> SUFFICES ASSUME NEW t \in TablesIn(ds, m), NEW g \in Pages
                 PROVE  PageOf(r, z, t, g) = PageOf(m, s, t, g)
      BY DEF SamePages
    <2>1. t \in Frames /\ t # f
      BY <1>1 DEF TablesIn
    <2>2. CASE m.owner[f] = <<t, g>>
      <3>1. m.ptes[t][g] = f /\ f # NULL
        BY <1>1, <2>1, <2>2, FramesAreNot0 DEF Sound, PageUse
      <3>2. r.ptes[t][g] = NULL /\ <<t, g>> \in DOMAIN z /\ z[<<t, g>>] = m.data[f]
        BY <2>1, <2>2 DEF Asked, WrittenOut
      <3> QED BY <3>1, <3>2 DEF PageOf
    <2>3. CASE m.owner[f] # <<t, g>>
      <3>1. r.ptes[t][g] = m.ptes[t][g]
        BY <2>1, <2>3 DEF Asked
      <3>2. /\ <<t, g>> \in DOMAIN z <=> <<t, g>> \in DOMAIN s
            /\ <<t, g>> \in DOMAIN z => z[<<t, g>>] = s[<<t, g>>]
        BY <2>1, <2>3 DEF Asked, WrittenOut
      <3>3. m.ptes[t][g] # NULL => m.ptes[t][g] # f /\ m.ptes[t][g] \in Frames
        BY <2>1, <2>3 DEF Sound, PageUse, MemoryType
      <3>4. m.ptes[t][g] # NULL => r.data[r.ptes[t][g]] = m.data[m.ptes[t][g]]
        BY <3>1, <3>3 DEF Asked
      <3> QED BY <3>1, <3>2, <3>4 DEF PageOf
    <2> QED BY <2>2, <2>3
  <1> QED BY <1>1, <1>2, <1>3, <1>4, <1>5, <1>6, <1>7, <1>8, <1>9 DEF Sound, Kept

\* A directory just asked for refers to nothing.
LEMMA DirectoryLinked ==
    ASSUME NEW ds, NEW loose, NEW m, NEW s, Sound(ds, loose, m, s),
           NEW pd \in loose, \A d \in Dirs : m.pdes[pd][d] = NULL
    PROVE  /\ TablesIn(ds \cup {pd}, m) = TablesIn(ds, m)
           /\ Sound(ds \cup {pd}, loose \ {pd}, m, s)
  <1>1. TablesIn(ds \cup {pd}, m) = TablesIn(ds, m)
    BY FramesAreNot0 DEF TablesIn
  <1>2. SoundTypes(ds \cup {pd}, loose \ {pd}, m, s)
    BY DEF Sound, SoundTypes
  <1>3. TablesApart(ds \cup {pd}, m)
    BY DEF Sound, TablesApart
  <1>4. PinnedUse(ds \cup {pd}, loose \ {pd}, m)
    BY <1>1 DEF Sound, PinnedUse
  <1>5. PageUse(ds \cup {pd}, m) /\ SwapUse(ds \cup {pd}, m, s)
    BY <1>1 DEF Sound, PageUse, SwapUse
  <1> QED BY <1>1, <1>2, <1>3, <1>4, <1>5 DEF Sound

\* Memory r is memory m with the empty table t, which is in no directory yet,
\* linked into an absent entry d of pd.
LinkedTable(ds, loose, m, s, pd, d, t, r) ==
    /\ Sound(ds, loose, m, s)
    /\ pd \in ds /\ d \in Dirs /\ m.pdes[pd][d] = NULL
    /\ t \in loose /\ \A g \in Pages : m.ptes[t][g] = NULL
    /\ LinkedOne(m, pd, d, t, r)

\* A table just asked for, linked into a directory.
LEMMA TableLinked ==
    ASSUME NEW ds, NEW loose, NEW m, NEW s, NEW pd, NEW d, NEW t, NEW r,
           LinkedTable(ds, loose, m, s, pd, d, t, r)
    PROVE  /\ TablesIn(ds, r) = TablesIn(ds, m) \cup {t}
           /\ Sound(ds, loose \ {t}, r, s)
           /\ \A g \in Pages : PageOf(r, s, t, g) = Zero
           /\ SamePages(ds, m, s, r, s)
  <1> USE DEF LinkedTable
  <1>0. t \in Frames /\ t # NULL /\ pd \in Frames
    BY FramesAreNot0 DEF Sound, SoundTypes
  <1>1. TablesIn(ds, r) = TablesIn(ds, m) \cup {t}
    <2>1. \A x \in Frames : x \in TablesIn(ds, m) => x \in TablesIn(ds, r)
      <3> SUFFICES ASSUME NEW x \in TablesIn(ds, m) PROVE x \in TablesIn(ds, r)
        OBVIOUS
      <3>1. PICK qd \in ds, e \in Dirs : m.pdes[qd][e] = x
        BY DEF TablesIn
      <3>2. r.pdes[qd][e] = x /\ x \in Frames
        BY <3>1, FramesAreNot0 DEF LinkedOne, TablesIn, Sound, SoundTypes
      <3> QED BY <3>2 DEF TablesIn
    <2>2. t \in TablesIn(ds, r)
      BY <1>0 DEF LinkedOne, TablesIn
    <2>3. \A x \in TablesIn(ds, r) : x \in TablesIn(ds, m) \/ x = t
      BY DEF LinkedOne, TablesIn, Sound, SoundTypes
    <2> QED BY <1>0, <2>1, <2>2, <2>3 DEF TablesIn
  <1>2. SoundTypes(ds, loose \ {t}, r, s)
    BY DEF Sound, SoundTypes, LinkedOne
  <1>3. TablesApart(ds, r)
    <2>1. \A qd \in ds : \A e \in Dirs : m.pdes[qd][e] # t
      BY <1>0 DEF Sound, PinnedUse, TablesIn
    <2>2. \A qd \in ds : \A e \in Dirs :
            r.pdes[qd][e] = IF qd = pd /\ e = d THEN t ELSE m.pdes[qd][e]
      BY DEF LinkedOne, Sound, SoundTypes
    <2> QED BY <2>1, <2>2 DEF Sound, TablesApart
  <1>4. PinnedUse(ds, loose \ {t}, r)
    BY <1>1 DEF Sound, PinnedUse, LinkedOne
  <1>5. PageUse(ds, r)
    BY <1>1 DEF Sound, PageUse, LinkedOne
  <1>6. SwapUse(ds, r, s)
    BY <1>1 DEF Sound, SwapUse
  <1>7. \A g \in Pages : PageOf(r, s, t, g) = Zero
    BY <1>0 DEF Sound, PinnedUse, SwapUse, PageOf, LinkedOne
  <1>8. SamePages(ds, m, s, r, s)
    BY DEF SamePages, PageOf, LinkedOne
  <1> QED BY <1>1, <1>2, <1>3, <1>4, <1>5, <1>6, <1>7, <1>8 DEF Sound

-----------------------------------------------------------------------------
(* Pages brought in. *)

\* r and z are the memory and the swap files after the page of entry g of table
\* t, not present before, has been brought into frame f.
BroughtIn(m, s, t, g, r, z, f) ==
    /\ f \in Frames /\ m.owner[f] # Pinned
    /\ MemoryType(r) /\ SwapType(z)
    /\ \A x \in Frames : \A d \in Dirs : r.pdes[x][d] = IF x = f THEN NULL ELSE m.pdes[x][d]
    /\ \A x \in Frames : \A h \in Pages :
         r.ptes[x][h] = IF x = t /\ h = g THEN f
                        ELSE IF x = f \/ m.owner[f] = <<x, h>> THEN NULL ELSE m.ptes[x][h]
    /\ \A x \in Frames : r.data[x] = IF x = f THEN PageOf(m, s, t, g) ELSE m.data[x]
    /\ \A x \in Frames : r.owner[x] = IF x = f THEN <<t, g>> ELSE m.owner[x]
    /\ \A x \in Frames : \A h \in Pages :
         /\ <<x, h>> \in DOMAIN z => <<x, h>> \in DOMAIN s \/ m.owner[f] = <<x, h>>
         /\ (<<x, h>> \in DOMAIN s \/ m.owner[f] = <<x, h>>) /\ (x # t \/ h # g)
              => <<x, h>> \in DOMAIN z
         /\ <<x, h>> \in DOMAIN z =>
              z[<<x, h>>] = IF m.owner[f] = <<x, h>> THEN m.data[f] ELSE s[<<x, h>>]

\* Bringing a page in keeps memory sound and every page as it was, the evicted one,
\* now on the disk, included.
LEMMA PageBroughtIn ==
    ASSUME NEW ds, NEW m, NEW s, Sound(ds, {}, m, s),
           NEW t \in TablesIn(ds, m), NEW g \in Pages, m.ptes[t][g] = NULL,
           NEW r, NEW z, NEW f, BroughtIn(m, s, t, g, r, z, f)
    PROVE  /\ f \in Frames /\ r.ptes[t][g] = f
           /\ Kept(ds, m, s, r, z)
           /\ Sound(ds, {}, r, z)
  <1> USE DEF SoundTypes
  <1>0. t \in Frames
    BY DEF TablesIn
  <1>1. f \in Frames /\ f \notin ds /\ f \notin TablesIn(ds, m)
    BY DEF Sound, PinnedUse, BroughtIn
  <1>2. \A pd \in ds : \A d \in Dirs : r.pdes[pd][d] = m.pdes[pd][d]
    BY <1>1 DEF Sound, BroughtIn
  <1>3. TablesIn(ds, r) = TablesIn(ds, m)
    BY <1>2 DEF TablesIn
  <1>4. SoundTypes(ds, {}, r, z)
    BY DEF BroughtIn, Sound
  <1>5. TablesApart(ds, r)
    BY <1>2 DEF Sound, TablesApart
  <1>6. PinnedUse(ds, {}, r)
    BY <1>0, <1>1, <1>3, PagesOwn DEF Sound, PinnedUse, BroughtIn
  <1>7. r.ptes[t][g] = f /\ r.owner[f] = <<t, g>> /\ m.owner[f] # <<t, g>>
    BY <1>0, <1>1, FramesAreNot0 DEF BroughtIn, Sound, PageUse
  <1>8. PageUse(ds, r)
    <2>1. ASSUME NEW x \in Frames, NEW u \in Frames, NEW h \in Pages, r.owner[x] = <<u, h>>
          PROVE  u \in TablesIn(ds, m) /\ r.ptes[u][h] = x
      <3>1. CASE x = f
        BY <1>7, <2>1, <3>1
      <3>2. CASE x # f
        <4>1. m.owner[x] = <<u, h>>
          BY <2>1, <3>2 DEF BroughtIn
        <4>2. u \in TablesIn(ds, m) /\ m.ptes[u][h] = x
          BY <4>1 DEF Sound, PageUse
        <4>3. u # f /\ m.owner[f] # <<u, h>> /\ ~(u = t /\ h = g)
          BY <1>1, <3>2, <4>1, <4>2, FramesAreNot0 DEF Sound, PageUse
        <4> QED BY <4>2, <4>3 DEF BroughtIn
      <3> QED BY <3>1, <3>2
    <2>2. ASSUME NEW u \in TablesIn(ds, m), NEW h \in Pages, r.ptes[u][h] # NULL
          PROVE  r.owner[r.ptes[u][h]] = <<u, h>>
      <3>0. u \in Frames
        BY DEF TablesIn
      <3>1. CASE u = t /\ h = g
        BY <1>7, <3>1
      <3>2. CASE ~(u = t /\ h = g)
        <4>1. r.ptes[u][h] = m.ptes[u][h] /\ m.owner[f] # <<u, h>>
          BY <2>2, <3>0, <3>2 DEF BroughtIn
        <4>2. m.owner[m.ptes[u][h]] = <<u, h>>
          BY <2>2, <4>1 DEF Sound, PageUse
        <4>3. m.ptes[u][h] \in Frames /\ m.ptes[u][h] # f
          BY <2>2, <3>0, <4>1, <4>2 DEF Sound, MemoryType
        <4> QED BY <4>1, <4>2, <4>3 DEF BroughtIn
      <3> QED BY <3>1, <3>2
    <2> QED BY <1>3, <2>1, <2>2 DEF PageUse
  <1>9. SwapUse(ds, r, z)
    BY <1>1, <1>3 DEF Sound, SwapUse, PageUse, BroughtIn
  <1>10. SamePages(ds, m, s, r, z)
    <2> SUFFICES ASSUME NEW u \in TablesIn(ds, m), NEW h \in Pages
                 PROVE  PageOf(r, z, u, h) = PageOf(m, s, u, h)
      BY DEF SamePages
    <2>1. u \in Frames /\ u # f
      BY <1>1 DEF TablesIn
    <2>2. CASE u = t /\ h = g
      <3>1. r.data[f] = PageOf(m, s, t, g) /\ f # NULL
        BY <1>1, FramesAreNot0 DEF BroughtIn
      <3> QED BY <1>7, <2>2, <3>1 DEF PageOf
    <2>3. CASE ~(u = t /\ h = g) /\ m.owner[f] = <<u, h>>
      <3>1. m.ptes[u][h] = f /\ f # NULL
        BY <1>1, <2>1, <2>3, FramesAreNot0 DEF Sound, PageUse
      <3>2. r.ptes[u][h] = NULL /\ <<u, h>> \in DOMAIN z /\ z[<<u, h>>] = m.data[f]
        BY <2>1, <2>3 DEF BroughtIn
      <3> QED BY <3>1, <3>2 DEF PageOf
    <2>4. CASE ~(u = t /\ h = g) /\ m.owner[f] # <<u, h>>
      <3>1. r.ptes[u][h] = m.ptes[u][h]
        BY <2>1, <2>4 DEF BroughtIn
      <3>2. /\ <<u, h>> \in DOMAIN z <=> <<u, h>> \in DOMAIN s
            /\ <<u, h>> \in DOMAIN z => z[<<u, h>>] = s[<<u, h>>]
        BY <2>1, <2>4 DEF BroughtIn
      <3>3. m.ptes[u][h] # NULL => m.ptes[u][h] # f /\ m.ptes[u][h] \in Frames
        BY <2>1, <2>4 DEF Sound, PageUse, MemoryType
      <3>4. m.ptes[u][h] # NULL => r.data[r.ptes[u][h]] = m.data[m.ptes[u][h]]
        BY <3>1, <3>3 DEF BroughtIn
      <3> QED BY <3>1, <3>2, <3>4 DEF PageOf
    <2> QED BY <2>2, <2>3, <2>4
  <1> QED BY <1>1, <1>2, <1>3, <1>4, <1>5, <1>6, <1>7, <1>8, <1>9, <1>10 DEF Sound, Kept

\* Lines 60 to 65: the frame asked for, the entry set, the page read from disk.
LEMMA ReadIn ==
    ASSUME NEW ds, NEW m, NEW s, Sound(ds, {}, m, s),
           NEW t \in TablesIn(ds, m), NEW g \in Pages, m.ptes[t][g] = NULL,
           NEW k \in AskKernel(m, s, <<t, g>>)
    PROVE  BroughtIn(m, s, t, g,
                     Filled(Mapped(k.ram, <<t, g>>, k.frame), k.frame,
                            FromDisk(k.ram, k.swap, <<t, g>>, k.frame)),
                     Without(k.swap, {<<t, g>>}), k.frame)
  <1> DEFINE f == k.frame
             q == Mapped(k.ram, <<t, g>>, f)
             v == FromDisk(k.ram, k.swap, <<t, g>>, f)
             z == Without(k.swap, {<<t, g>>})
             r == Filled(q, f, v)
  <1>0. t \in Frames
    BY DEF TablesIn
  <1>1. Asked(m, s, <<t, g>>, k.ram, k.swap, k.frame)
    BY <1>0, PagesOwn, AskKernelGives DEF Sound, SoundTypes
  <1>2. f \in Frames /\ MemoryType(k.ram)
    BY <1>1 DEF Asked
  <1>3. MappedOne(k.ram, t, g, f, q)
    BY <1>0, <1>2, MappedMemory
  <1>4. m.owner[f] # <<t, g>>
    BY <1>0, <1>2, FramesAreNot0 DEF Sound, PageUse
  <1>5. v = PageOf(m, s, t, g)
    BY <1>0, <1>1, <1>4 DEF FromDisk, PageOf, Asked, WrittenOut
  <1>6. v \in Values
    BY <1>5, <1>0, PageAssumption DEF PageOf, Sound, SoundTypes, SwapType, MemoryType
  <1>7. /\ SwapType(z)
        /\ \A x \in Frames : \A h \in Pages :
             /\ <<x, h>> \in DOMAIN z <=>
                  (<<x, h>> \in DOMAIN s \/ m.owner[f] = <<x, h>>) /\ (x # t \/ h # g)
             /\ <<x, h>> \in DOMAIN z =>
                  z[<<x, h>>] = IF m.owner[f] = <<x, h>> THEN m.data[f] ELSE s[<<x, h>>]
    BY <1>0, <1>1 DEF Asked, WrittenOut, Without, SwapType
  <1> HIDE DEF f, q, v, z
  <1>8. /\ MemoryType(r)
        /\ r.pdes = q.pdes /\ r.ptes = q.ptes /\ r.owner = q.owner
        /\ \A x \in Frames : r.data[x] = IF x = f THEN v ELSE q.data[x]
    BY <1>2, <1>3, <1>6 DEF MappedOne, MemoryType, Filled
  <1> HIDE DEF r
  <1>9. Asked(m, s, <<t, g>>, k.ram, k.swap, f)
    BY <1>1 DEF f
  <1>10. BroughtIn(m, s, t, g, r, z, f)
    BY <1>3, <1>5, <1>7, <1>8, <1>9 DEF BroughtIn, Asked, MappedOne
  <1> QED BY <1>10 DEF f, q, v, z, r

\* mmu_add_process: the frame asked for and the entry set, for a page that is new.
LEMMA MappedIn ==
    ASSUME NEW ds, NEW m, NEW s, Sound(ds, {}, m, s),
           NEW t \in TablesIn(ds, m), NEW g \in Pages, m.ptes[t][g] = NULL,
           <<t, g>> \notin DOMAIN s,
           NEW k \in AskKernel(m, s, <<t, g>>)
    PROVE  BroughtIn(m, s, t, g, Mapped(k.ram, <<t, g>>, k.frame), k.swap, k.frame)
  <1> DEFINE f == k.frame
             r == Mapped(k.ram, <<t, g>>, f)
  <1>0. t \in Frames
    BY DEF TablesIn
  <1>1. Asked(m, s, <<t, g>>, k.ram, k.swap, f)
    BY <1>0, PagesOwn, AskKernelGives DEF Sound, SoundTypes
  <1>2. f \in Frames /\ MemoryType(k.ram)
    BY <1>1 DEF Asked
  <1>3. MappedOne(k.ram, t, g, f, r)
    BY <1>0, <1>2, MappedMemory
  <1>5. PageOf(m, s, t, g) = Zero
    BY DEF PageOf
  <1> HIDE DEF f, r
  <1>6. BroughtIn(m, s, t, g, r, k.swap, f)
    BY <1>1, <1>3, <1>5 DEF BroughtIn, Asked, WrittenOut, MappedOne
  <1> QED BY <1>6 DEF f, r

-----------------------------------------------------------------------------
(* The accesses. *)

\* What page g of the process with directory pd holds.
At(m, s, pd, g) == IF m.pdes[pd][Dir[g]] = NULL THEN Zero
                   ELSE PageOf(m, s, m.pdes[pd][Dir[g]], g)

SameContents(ds, m, s, r, z) ==
    \A pd \in ds : \A g \in Pages : At(r, z, pd, g) = At(m, s, pd, g)

\* The entries of the directories in ds are those of memory m, but for entry d
\* of pd, which was not present.
SameEntries(ds, pd, d, m, r) ==
    \A qd \in ds : \A e \in Dirs :
      r.pdes[qd][e] = m.pdes[qd][e] \/ (qd = pd /\ e = d /\ m.pdes[pd][d] = NULL)

\* What keeps the tables and their pages keeps the contents.
LEMMA KeptContents ==
    ASSUME NEW ds, NEW m, NEW s, NEW r, NEW z, Sound(ds, {}, m, s),
           Kept(ds, m, s, r, z)
    PROVE  SameContents(ds, m, s, r, z)
  <1> SUFFICES ASSUME NEW pd \in ds, NEW g \in Pages
               PROVE  At(r, z, pd, g) = At(m, s, pd, g)
    BY DEF SameContents
  <1>1. Dir[g] \in Dirs
    BY DEF Dirs
  <1>2. r.pdes[pd][Dir[g]] = m.pdes[pd][Dir[g]]
    BY <1>1 DEF Kept
  <1>3. m.pdes[pd][Dir[g]] # NULL => m.pdes[pd][Dir[g]] \in TablesIn(ds, m)
    BY <1>1 DEF Sound, SoundTypes, MemoryType, TablesIn
  <1> QED BY <1>2, <1>3 DEF At, SamePages, Kept

\* Lines 58-66, present or not.
LEMMA PageFetched ==
    ASSUME NEW ds, NEW m, NEW s, Sound(ds, {}, m, s),
           NEW t \in TablesIn(ds, m), NEW g \in Pages,
           NEW k \in PageOutcomes(m, s, <<t, g>>)
    PROVE  /\ k.frame \in Frames /\ k.ram.ptes[t][g] = k.frame
           /\ \A pd \in ds : \A d \in Dirs : k.ram.pdes[pd][d] = m.pdes[pd][d]
           /\ Sound(ds, {}, k.ram, k.swap)
           /\ SameContents(ds, m, s, k.ram, k.swap)
  <1>1. CASE m.ptes[t][g] # NULL
    <2>1. k.ram = m /\ k.swap = s /\ k.frame = m.ptes[t][g]
      BY <1>1 DEF PageOutcomes
    <2>2. m.ptes[t][g] \in Frames
      BY <1>1 DEF Sound, SoundTypes, MemoryType, TablesIn
    <2>3. SameContents(ds, m, s, m, s)
      BY DEF SameContents
    <2> QED BY <2>1, <2>2, <2>3
  <1>2. CASE m.ptes[t][g] = NULL
    <2> DEFINE rec(j) == [ram |-> Filled(Mapped(j.ram, <<t, g>>, j.frame), j.frame,
                                         FromDisk(j.ram, j.swap, <<t, g>>, j.frame)),
                          swap |-> Without(j.swap, {<<t, g>>}), frame |-> j.frame]
               pge == <<t, g>>
    <2>a. pge[1] = t /\ pge[2] = g
      OBVIOUS
    <2>b. k \in {rec(j) : j \in AskKernel(m, s, pge)}
      BY <1>2, <2>a DEF PageOutcomes
    <2>c. PICK j \in AskKernel(m, s, pge) : k = rec(j)
      <3> HIDE DEF rec, pge
      <3> QED BY <2>b
    <2>1. /\ k.ram = Filled(Mapped(j.ram, <<t, g>>, j.frame), j.frame,
                            FromDisk(j.ram, j.swap, <<t, g>>, j.frame))
          /\ k.swap = Without(j.swap, {<<t, g>>}) /\ k.frame = j.frame
      BY <2>c
    <2>2. BroughtIn(m, s, t, g, k.ram, k.swap, k.frame)
      BY <1>2, <2>1, ReadIn
    <2>3. /\ k.frame \in Frames /\ k.ram.ptes[t][g] = k.frame
          /\ Kept(ds, m, s, k.ram, k.swap)
          /\ Sound(ds, {}, k.ram, k.swap)
      BY <1>2, <2>2, PageBroughtIn
    <2>4. SameContents(ds, m, s, k.ram, k.swap)
      BY <2>3, KeptContents
    <2> QED BY <2>3, <2>4 DEF Kept
  <1> QED BY <1>1, <1>2

\* Lines 45-52, present or not.
LEMMA TableFound ==
    ASSUME NEW ds, Sound(ds, {}, ram, swap),
           NEW pid, NEW pd \in ds, page_directories[pid] = pd,
           NEW g \in Pages, NEW k \in TableOutcomes(pid, g)
    PROVE  /\ k.frame \in TablesIn(ds, k.ram) /\ k.ram.pdes[pd][Dir[g]] = k.frame
           /\ SameEntries(ds, pd, Dir[g], ram, k.ram)
           /\ Sound(ds, {}, k.ram, k.swap)
           /\ SameContents(ds, ram, swap, k.ram, k.swap)
  <1> DEFINE table == ram.pdes[pd][Dir[g]]
  <1>0. Dir[g] \in Dirs /\ pd \in Frames
    BY DEF Dirs, Sound, SoundTypes
  <1>1. CASE table # NULL
    <2>1. k.ram = ram /\ k.swap = swap /\ k.frame = table
      BY <1>1 DEF TableOutcomes
    <2>2. table \in TablesIn(ds, ram)
      BY <1>0, <1>1 DEF Sound, SoundTypes, MemoryType, TablesIn
    <2>3. SameContents(ds, ram, swap, ram, swap) /\ SameEntries(ds, pd, Dir[g], ram, ram)
      BY DEF SameContents, SameEntries
    <2> QED BY <2>1, <2>2, <2>3
  <1>2. CASE table = NULL
    <2>1. PICK j \in AskKernel(ram, swap, Pinned) :
            k.ram = Linked(j.ram, pd, Dir[g], j.frame) /\ k.swap = j.swap /\ k.frame = j.frame
      BY <1>2 DEF TableOutcomes
    <2>2. Asked(ram, swap, Pinned, j.ram, j.swap, j.frame)
      <3>1. Pinned \in Owners
        BY DEF Owners
      <3>2. MemoryType(ram) /\ SwapType(swap)
        BY DEF Sound, SoundTypes
      <3> QED BY <3>1, <3>2, AskKernelGives
    <2>3. /\ j.frame \in Frames /\ j.frame \notin ds /\ j.frame \notin TablesIn(ds, ram)
          /\ Kept(ds, ram, swap, j.ram, j.swap)
          /\ Sound(ds, {} \cup {j.frame}, j.ram, j.swap)
      BY <2>2, KernelPins, Zenon
    <2>4. \A h \in Pages : j.ram.ptes[j.frame][h] = NULL
      BY <2>2 DEF Asked
    <2>5. LinkedOne(j.ram, pd, Dir[g], j.frame, k.ram)
      <3>1. MemoryType(j.ram)
        BY <2>2 DEF Asked
      <3> QED BY <1>0, <2>1, <2>3, <3>1, LinkedMemory
    <2>6. j.ram.pdes[pd][Dir[g]] = NULL
      BY <1>0, <1>2, <2>3 DEF Kept
    <2>7. /\ TablesIn(ds, k.ram) = TablesIn(ds, j.ram) \cup {j.frame}
          /\ Sound(ds, ({} \cup {j.frame}) \ {j.frame}, k.ram, j.swap)
          /\ \A h \in Pages : PageOf(k.ram, j.swap, j.frame, h) = Zero
          /\ SamePages(ds, j.ram, j.swap, k.ram, j.swap)
      <3> DEFINE loose == {} \cup {j.frame}
      <3>1. j.frame \in loose
        OBVIOUS
      <3>2. Sound(ds, loose, j.ram, j.swap)
        BY <2>3
      <3> HIDE DEF loose
      <3>3. /\ TablesIn(ds, k.ram) = TablesIn(ds, j.ram) \cup {j.frame}
            /\ Sound(ds, loose \ {j.frame}, k.ram, j.swap)
            /\ \A h \in Pages : PageOf(k.ram, j.swap, j.frame, h) = Zero
            /\ SamePages(ds, j.ram, j.swap, k.ram, j.swap)
        <4>1. LinkedTable(ds, loose, j.ram, j.swap, pd, Dir[g], j.frame, k.ram)
          BY <1>0, <2>4, <2>5, <2>6, <3>1, <3>2 DEF LinkedTable
        <4> QED BY <4>1, TableLinked
      <3> QED BY <3>3 DEF loose
    <2>8. Sound(ds, {}, k.ram, k.swap)
      <3>1. ({} \cup {j.frame}) \ {j.frame} = {}
        OBVIOUS
      <3> QED BY <2>1, <2>7, <3>1
    <2>9. k.frame \in TablesIn(ds, k.ram) /\ k.ram.pdes[pd][Dir[g]] = k.frame
      BY <1>0, <2>1, <2>5, <2>7 DEF LinkedOne
    <2>10. SameEntries(ds, pd, Dir[g], ram, k.ram)
      BY <1>2, <2>3, <2>5 DEF SameEntries, LinkedOne, Sound, SoundTypes, Kept
    <2>11. SameContents(ds, ram, swap, k.ram, k.swap)
      <3> SUFFICES ASSUME NEW qd \in ds, NEW h \in Pages
                   PROVE  At(k.ram, k.swap, qd, h) = At(ram, swap, qd, h)
        BY DEF SameContents
      <3>1. Dir[h] \in Dirs
        BY DEF Dirs
      <3>2. CASE qd = pd /\ Dir[h] = Dir[g]
        <4>1. At(ram, swap, qd, h) = Zero
          BY <1>2, <3>2 DEF At
        <4>2. k.ram.pdes[qd][Dir[h]] = j.frame /\ j.frame # NULL
          BY <2>1, <2>3, <2>9, <3>2, FramesAreNot0
        <4> QED BY <2>1, <2>7, <4>1, <4>2 DEF At
      <3>3. CASE ~(qd = pd /\ Dir[h] = Dir[g])
        <4>1. k.ram.pdes[qd][Dir[h]] = ram.pdes[qd][Dir[h]]
          BY <2>10, <3>1, <3>3 DEF SameEntries
        <4>2. ram.pdes[qd][Dir[h]] # NULL => ram.pdes[qd][Dir[h]] \in TablesIn(ds, ram)
          BY <3>1 DEF Sound, SoundTypes, MemoryType, TablesIn
        <4>3. \A t \in TablesIn(ds, ram) : PageOf(k.ram, k.swap, t, h) = PageOf(ram, swap, t, h)
          BY <2>1, <2>3, <2>7 DEF SamePages, Kept
        <4> QED BY <4>1, <4>2, <4>3 DEF At
      <3> QED BY <3>2, <3>3
    <2> QED BY <2>8, <2>9, <2>10, <2>11
  <1> QED BY <1>1, <1>2

\* The entries of TLB c are those that a walk from directory pd finds.
TlbIn(c, m, pd) == \A g \in DOMAIN c : /\ g \in Pages
                                       /\ c[g] = <<m.pdes[pd][Dir[g]], g>>
                                       /\ m.pdes[pd][Dir[g]] # NULL

\* The frames the processes' directories are in, and the TLB, as TlbFresh has
\* it; curr_pid starts as 0 whether there is such a process or not.
DirectoriesApart ==
    /\ page_directories \in [Pids -> Frames \cup {NULL}]
    /\ \A p \in Pids : \A q \in Pids :
         page_directories[p] = page_directories[q] => p = q \/ page_directories[p] = NULL

TlbInv == DOMAIN tlb # {} => /\ curr_pid \in Pids /\ page_directories[curr_pid] # NULL
                             /\ TlbIn(tlb, ram, page_directories[curr_pid])

IInv == DirectoriesApart /\ Sound(Directories, {}, ram, swap) /\ TlbInv

\* What the set of directories says of page_directories.
LEMMA DirectoriesAre ==
    ASSUME DirectoriesApart
    PROVE  /\ Directories \subseteq Frames
           /\ \A p \in Pids : page_directories[p] # NULL => page_directories[p] \in Directories
           /\ \A pd \in Directories : \E p \in Pids : page_directories[p] = pd
  BY FramesAreNot0 DEF DirectoriesApart, Directories

\* What an access to page g through directory pd leaves behind.
Accessed(ds, m, s, pd, g, k) ==
    /\ Sound(ds, {}, k.ram, k.swap)
    /\ SameContents(ds, m, s, k.ram, k.swap)
    /\ TlbIn(k.tlb, k.ram, pd)
    /\ k.frame \in Frames
    /\ k.ram.pdes[pd][Dir[g]] \in TablesIn(ds, k.ram)
    /\ k.ram.ptes[k.ram.pdes[pd][Dir[g]]][g] = k.frame

\* Lines 24-27 leave a TLB that is about the process now served.
LEMMA SwitchedTlb ==
    ASSUME IInv, NEW pid \in Pids
    PROVE  TlbIn(Switched(pid), ram, page_directories[pid])
  <1>1. CASE pid # curr_pid
    <2>1. Switched(pid) = << >> /\ DOMAIN << >> = {}
      BY <1>1 DEF Switched
    <2> QED BY <2>1 DEF TlbIn
  <1>2. CASE pid = curr_pid
    <2>1. Switched(pid) = tlb
      BY <1>2 DEF Switched
    <2> QED BY <1>2, <2>1 DEF IInv, TlbInv, TlbIn
  <1> QED BY <1>1, <1>2

\* A TLB with the entry that the walk has found, and with one less if it was full.
LEMMA CachedTlb ==
    ASSUME NEW t, NEW m, NEW r, NEW ds, NEW pd \in ds, TlbIn(t, m, pd), NEW g \in Pages,
           SameEntries(ds, pd, Dir[g], m, r), r.pdes[pd][Dir[g]] # NULL,
           NEW c \in Cached(t, g, <<r.pdes[pd][Dir[g]], g>>)
    PROVE  TlbIn(c, r, pd)
  <1> DEFINE pge == <<r.pdes[pd][Dir[g]], g>>
  <1>1. TlbIn(t, r, pd)
    <2> SUFFICES ASSUME NEW h \in DOMAIN t
                 PROVE  h \in Pages /\ t[h] = <<r.pdes[pd][Dir[h]], h>> /\ r.pdes[pd][Dir[h]] # NULL
      BY DEF TlbIn
    <2>1. h \in Pages /\ t[h] = <<m.pdes[pd][Dir[h]], h>> /\ m.pdes[pd][Dir[h]] # NULL
      BY DEF TlbIn
    <2>2. Dir[h] \in Dirs
      BY <2>1 DEF Dirs
    <2>3. r.pdes[pd][Dir[h]] = m.pdes[pd][Dir[h]]
      BY <2>1, <2>2 DEF SameEntries
    <2> QED BY <2>1, <2>3
  <1>2. ASSUME NEW u, TlbIn(u, r, pd) PROVE TlbIn(With(u, g, pge), r, pd)
    BY <1>2 DEF TlbIn, With
  <1>3. ASSUME NEW x PROVE TlbIn(Without(t, {x}), r, pd)
    BY <1>1 DEF TlbIn, Without
  <1>4. c = With(t, g, pge) \/ \E x \in DOMAIN t : c = With(Without(t, {x}), g, pge)
    BY DEF Cached
  <1> QED BY <1>1, <1>2, <1>3, <1>4

\* Hit or miss, an access ends at the frame of its page and changes no contents.
LEMMA AccessKeeps ==
    ASSUME IInv, NEW pid \in Pids, page_directories[pid] # NULL,
           NEW g \in Pages, NEW k \in Access(pid, g)
    PROVE  Accessed(Directories, ram, swap, page_directories[pid], g, k)
  <1> DEFINE t == Switched(pid)
             pd == page_directories[pid]
             ds == Directories
  <1>1. pd \in ds /\ Dir[g] \in Dirs /\ Sound(ds, {}, ram, swap)
    BY DirectoriesAre DEF IInv, Dirs
  <1>2. TlbIn(t, ram, pd)
    BY SwitchedTlb
  <1>3. CASE g \in DOMAIN t
    <2>1. PICK j \in PageOutcomes(ram, swap, t[g]) :
            k.tlb = t /\ k.ram = j.ram /\ k.swap = j.swap /\ k.frame = j.frame
      BY <1>3 DEF Access, Fetched
    <2> DEFINE table == ram.pdes[pd][Dir[g]]
    <2>2. t[g] = <<table, g>> /\ table # NULL
      BY <1>2, <1>3 DEF TlbIn
    <2>3. table \in TablesIn(ds, ram)
      BY <1>1, <2>2 DEF Sound, SoundTypes, MemoryType, TablesIn
    <2> HIDE DEF t, pd, ds, table
    <2>4. j \in PageOutcomes(ram, swap, <<table, g>>)
      BY <2>2
    <2>5. /\ j.frame \in Frames /\ j.ram.ptes[table][g] = j.frame
          /\ \A qd \in ds : \A d \in Dirs : j.ram.pdes[qd][d] = ram.pdes[qd][d]
          /\ Sound(ds, {}, j.ram, j.swap)
          /\ SameContents(ds, ram, swap, j.ram, j.swap)
      BY <1>1, <2>3, <2>4, PageFetched
    <2>6. TlbIn(t, j.ram, pd)
      <3>1. \A h \in DOMAIN t : Dir[h] \in Dirs
        BY <1>2 DEF TlbIn, Dirs
      <3> QED BY <1>1, <1>2, <2>5, <3>1 DEF TlbIn
    <2>7. j.ram.pdes[pd][Dir[g]] = table /\ table \in TablesIn(ds, j.ram)
      <3>1. j.ram.pdes[pd][Dir[g]] = table
        BY <1>1, <2>5 DEF table
      <3> QED BY <1>1, <2>3, <3>1 DEF TablesIn
    <2>8. Accessed(ds, ram, swap, pd, g, k)
      BY <2>1, <2>5, <2>6, <2>7 DEF Accessed
    <2> QED BY <2>8 DEF ds, pd
  <1>4. CASE g \notin DOMAIN t
    <2>1. PICK table \in TableOutcomes(pid, g) : k \in Missed(t, table, g)
      BY <1>4 DEF Access
    <2>2. PICK c \in Cached(t, g, <<table.frame, g>>),
               j \in PageOutcomes(table.ram, table.swap, <<table.frame, g>>) :
            k.tlb = c /\ k.ram = j.ram /\ k.swap = j.swap /\ k.frame = j.frame
      <3>1. PICK c \in Cached(t, g, <<table.frame, g>>) :
              k \in Fetched(c, table.ram, table.swap, <<table.frame, g>>)
        BY <2>1 DEF Missed
      <3> QED BY <3>1 DEF Fetched
    <2>3. pd = page_directories[pid]
      OBVIOUS
    <2> HIDE DEF t, pd, ds
    <2>4. /\ table.frame \in TablesIn(ds, table.ram)
          /\ table.ram.pdes[pd][Dir[g]] = table.frame
          /\ SameEntries(ds, pd, Dir[g], ram, table.ram)
          /\ Sound(ds, {}, table.ram, table.swap)
          /\ SameContents(ds, ram, swap, table.ram, table.swap)
      BY <1>1, <2>3, TableFound
    <2>5. /\ j.frame \in Frames /\ j.ram.ptes[table.frame][g] = j.frame
          /\ \A qd \in ds : \A d \in Dirs : j.ram.pdes[qd][d] = table.ram.pdes[qd][d]
          /\ Sound(ds, {}, j.ram, j.swap)
          /\ SameContents(ds, table.ram, table.swap, j.ram, j.swap)
      BY <2>4, PageFetched
    <2>6. table.frame # NULL /\ table.frame \in Frames
      BY <2>4, FramesAreNot0 DEF TablesIn
    <2>7. SameEntries(ds, pd, Dir[g], ram, j.ram) /\ j.ram.pdes[pd][Dir[g]] = table.frame
      BY <1>1, <2>4, <2>5 DEF SameEntries
    <2>8. TlbIn(c, j.ram, pd)
      BY <1>1, <1>2, <2>6, <2>7, CachedTlb
    <2>9. table.frame \in TablesIn(ds, j.ram)
      BY <1>1, <2>6, <2>7 DEF TablesIn
    <2>10. SameContents(ds, ram, swap, j.ram, j.swap)
      BY <2>4, <2>5 DEF SameContents
    <2>11. Accessed(ds, ram, swap, pd, g, k)
      BY <2>2, <2>5, <2>7, <2>8, <2>9, <2>10 DEF Accessed
    <2> QED BY <2>11 DEF ds, pd
  <1> QED BY <1>3, <1>4

\* A write to the frame that holds page g of directory pd.
LEMMA FilledMemory ==
    ASSUME NEW ds, NEW m, NEW s, Sound(ds, {}, m, s), NEW pd \in ds, NEW g \in Pages,
           NEW t \in TablesIn(ds, m), m.pdes[pd][Dir[g]] = t,
           NEW f \in Frames, m.ptes[t][g] = f, NEW v \in Values,
           NEW r, r = Filled(m, f, v)
    PROVE  /\ r.pdes = m.pdes
           /\ Sound(ds, {}, r, s)
           /\ \A qd \in ds : \A h \in Pages :
                At(r, s, qd, h) = IF qd = pd /\ h = g THEN v ELSE At(m, s, qd, h)
  <1>1. MemoryType(m)
    BY DEF Sound, SoundTypes
  <1>2. /\ MemoryType(r) /\ r.pdes = m.pdes /\ r.ptes = m.ptes /\ r.owner = m.owner
        /\ \A x \in Frames : r.data[x] = IF x = f THEN v ELSE m.data[x]
    BY <1>1 DEF MemoryType, Filled
  <1>3. TablesIn(ds, r) = TablesIn(ds, m)
    BY <1>2 DEF TablesIn
  <1>4. Sound(ds, {}, r, s)
    <2>1. SoundTypes(ds, {}, r, s)
      BY <1>2 DEF Sound, SoundTypes
    <2>2. TablesApart(ds, r)
      BY <1>2, <1>3 DEF Sound, TablesApart
    <2>3. PinnedUse(ds, {}, r)
      BY <1>2, <1>3 DEF Sound, PinnedUse
    <2>4. PageUse(ds, r)
      BY <1>2, <1>3 DEF Sound, PageUse
    <2>5. SwapUse(ds, r, s)
      BY <1>2, <1>3 DEF Sound, SwapUse
    <2> QED BY <2>1, <2>2, <2>3, <2>4, <2>5 DEF Sound
  <1>5. ASSUME NEW qd \in ds, NEW h \in Pages
        PROVE  At(r, s, qd, h) = IF qd = pd /\ h = g THEN v ELSE At(m, s, qd, h)
    <2> DEFINE u == m.pdes[qd][Dir[h]]
    <2>0. Dir[h] \in Dirs /\ Dir[g] \in Dirs /\ f # NULL /\ t # NULL
      BY FramesAreNot0 DEF Dirs, TablesIn
    <2>1. CASE u = NULL
      BY <1>2, <2>0, <2>1 DEF At
    <2>2. CASE u # NULL
      <3>1. u \in TablesIn(ds, m) /\ u \in Frames
        BY <1>1, <2>0, <2>2 DEF MemoryType, TablesIn, Sound, SoundTypes
      <3>2. m.owner[f] = <<t, g>>
        BY <2>0 DEF Sound, PageUse
      <3>3. m.ptes[u][h] = f => u = t /\ h = g
        BY <2>0, <3>1, <3>2 DEF Sound, PageUse
      <3>4. u = t => qd = pd
        BY <2>0, <2>2 DEF Sound, TablesApart
      <3>5. m.ptes[u][h] # NULL => m.ptes[u][h] \in Frames
        BY <1>1, <3>1 DEF MemoryType
      <3>6. PageOf(r, s, u, h) = IF m.ptes[u][h] = f THEN v ELSE PageOf(m, s, u, h)
        <4>1. r.ptes[u][h] = m.ptes[u][h]
          BY <1>2
        <4>2. CASE m.ptes[u][h] = NULL
          BY <2>0, <4>1, <4>2 DEF PageOf
        <4>3. CASE m.ptes[u][h] # NULL
          <5>1. r.data[m.ptes[u][h]] = IF m.ptes[u][h] = f THEN v ELSE m.data[m.ptes[u][h]]
            BY <1>2, <3>5, <4>3
          <5> QED BY <4>1, <4>3, <5>1 DEF PageOf
        <4> QED BY <4>2, <4>3
      <3>7. m.ptes[u][h] = f <=> qd = pd /\ h = g
        BY <3>3, <3>4
      <3>8. r.pdes[qd][Dir[h]] = u
        BY <1>2
      <3> QED BY <2>2, <3>6, <3>7, <3>8 DEF At
    <2> QED BY <2>1, <2>2
  <1> QED BY <1>2, <1>4, <1>5

-----------------------------------------------------------------------------
(* Adding a process: directory and table, then the two pages. *)

\* Table t is new: it has no page, in memory or on the disk, and is referred to
\* by entry 0 of directory pd, which has no other entry.
NewTable(pd, t, m, s) ==
    /\ \A d \in Dirs : m.pdes[pd][d] = IF d = 0 THEN t ELSE NULL
    /\ \A g \in Pages : m.ptes[t][g] = NULL /\ <<t, g>> \notin DOMAIN s

\* The two pinned frames of mmu_add_process.
LEMMA DirectoryAndTable ==
    ASSUME NEW ds, NEW m, NEW s, Sound(ds, {}, m, s), 0 \in Dirs,
           NEW pd \in AskKernel(m, s, Pinned), NEW pt \in AskKernel(pd.ram, pd.swap, Pinned),
           NEW r, r = Linked(pt.ram, pd.frame, 0, pt.frame)
    PROVE  /\ pd.frame \in Frames /\ pd.frame \notin ds
           /\ Sound(ds \cup {pd.frame}, {}, r, pt.swap)
           /\ pt.frame \in TablesIn(ds \cup {pd.frame}, r)
           /\ NewTable(pd.frame, pt.frame, r, pt.swap)
           /\ Kept(ds, m, s, r, pt.swap)
  <1> DEFINE none == {}
             d1 == pd.frame
             t1 == pt.frame
             both == (none \cup {d1}) \cup {t1}
             dirs == ds \cup {d1}
  <1>1. Pinned \in Owners
    BY DEF Owners
  <1>2. Asked(m, s, Pinned, pd.ram, pd.swap, d1)
    BY <1>1, AskKernelGives DEF Sound, SoundTypes
  <1>3. Sound(ds, none, m, s)
    OBVIOUS
  <1> HIDE DEF none, d1, t1
  <1>4. /\ d1 \in Frames /\ d1 \notin ds /\ d1 \notin none /\ d1 \notin TablesIn(ds, m)
        /\ Kept(ds, m, s, pd.ram, pd.swap)
        /\ Sound(ds, none \cup {d1}, pd.ram, pd.swap)
    BY <1>2, <1>3, KernelPins, Zenon
  <1>5. Asked(pd.ram, pd.swap, Pinned, pt.ram, pt.swap, t1)
    <2>1. MemoryType(pd.ram) /\ SwapType(pd.swap)
      BY <1>4 DEF Sound, SoundTypes
    <2>2. Asked(pd.ram, pd.swap, Pinned, pt.ram, pt.swap, pt.frame)
      BY <1>1, <2>1, AskKernelGives
    <2> QED BY <2>2 DEF t1
  <1>6. /\ t1 \in Frames /\ t1 \notin ds /\ t1 \notin none \cup {d1}
        /\ t1 \notin TablesIn(ds, pd.ram)
        /\ Kept(ds, pd.ram, pd.swap, pt.ram, pt.swap)
        /\ Sound(ds, both, pt.ram, pt.swap)
    BY <1>4, <1>5, KernelPins, Zenon
  <1>7. d1 # t1 /\ d1 \in both /\ t1 \in both \ {d1} /\ (both \ {d1}) \ {t1} = {}
    BY <1>6 DEF none
  <1>8. (\A d \in Dirs : pt.ram.pdes[d1][d] = NULL) /\ \A g \in Pages : pt.ram.ptes[t1][g] = NULL
    BY <1>2, <1>5, <1>7 DEF Asked
  <1> HIDE DEF both
  <1>9. /\ TablesIn(dirs, pt.ram) = TablesIn(ds, pt.ram)
        /\ Sound(dirs, both \ {d1}, pt.ram, pt.swap)
    BY <1>6, <1>7, <1>8, DirectoryLinked
  <1>10. LinkedOne(pt.ram, d1, 0, t1, r)
    <2>1. r = Linked(pt.ram, d1, 0, t1) /\ MemoryType(pt.ram)
      BY <1>6 DEF d1, t1, Sound, SoundTypes
    <2> QED BY <1>4, <1>6, <2>1, LinkedMemory
  <1> DEFINE one == both \ {d1}
  <1>11. /\ d1 \in dirs /\ pt.ram.pdes[d1][0] = NULL
         /\ t1 \in one /\ one \ {t1} = {} /\ Sound(dirs, one, pt.ram, pt.swap)
    BY <1>7, <1>8, <1>9
  <1> HIDE DEF dirs, one
  <1>12. /\ TablesIn(dirs, r) = TablesIn(dirs, pt.ram) \cup {t1}
         /\ Sound(dirs, one \ {t1}, r, pt.swap)
         /\ \A g \in Pages : PageOf(r, pt.swap, t1, g) = Zero
         /\ SamePages(dirs, pt.ram, pt.swap, r, pt.swap)
    <2> DEFINE first == 0
    <2>1. LinkedTable(dirs, one, pt.ram, pt.swap, d1, first, t1, r)
      BY <1>8, <1>10, <1>11 DEF LinkedTable
    <2> HIDE DEF first
    <2> QED BY ONLY <2>1, TableLinked
  <1>13. NewTable(d1, t1, r, pt.swap)
    <2>1. \A g \in Pages : <<t1, g>> \notin DOMAIN pt.swap
      BY <1>6 DEF Sound, SwapUse, Kept
    <2> QED BY <1>4, <1>8, <1>10, <2>1 DEF NewTable, LinkedOne
  <1>14. Kept(ds, m, s, r, pt.swap)
    <2>1. \A qd \in ds : \A d \in Dirs : r.pdes[qd][d] = m.pdes[qd][d]
      BY <1>4, <1>6, <1>10 DEF Kept, LinkedOne, Sound, SoundTypes
    <2>2. TablesIn(ds, r) = TablesIn(ds, m)
      BY <2>1 DEF TablesIn
    <2>3. SamePages(ds, m, s, r, pt.swap)
      BY <1>4, <1>6, <1>9, <1>12 DEF Kept, SamePages
    <2> QED BY <2>1, <2>2, <2>3 DEF Kept
  <1>15. Sound(dirs, {}, r, pt.swap) /\ t1 \in TablesIn(dirs, r)
    BY <1>11, <1>12
  <1> QED BY <1>4, <1>13, <1>14, <1>15 DEF dirs, d1, t1

\* One turn of the loop of mmu_add_process.
LEMMA OnePage ==
    ASSUME NEW ds, NEW m, NEW s, Sound(ds, {}, m, s),
           NEW t \in TablesIn(ds, m), NEW g \in Pages, m.ptes[t][g] = NULL,
           <<t, g>> \notin DOMAIN s,
           NEW j \in NewPage(m, s, <<t, g>>), NEW r, NEW z, r = j.ram, z = j.swap
    PROVE  /\ Kept(ds, m, s, r, z) /\ Sound(ds, {}, r, z)
           /\ \A h \in Pages : h # g /\ m.ptes[t][h] = NULL /\ <<t, h>> \notin DOMAIN s =>
                r.ptes[t][h] = NULL /\ <<t, h>> \notin DOMAIN z
  <1>0. PICK k \in AskKernel(m, s, <<t, g>>) : r = Mapped(k.ram, <<t, g>>, k.frame) /\ z = k.swap
    BY DEF NewPage
  <1>1. BroughtIn(m, s, t, g, r, z, k.frame)
    BY <1>0, MappedIn
  <1>2. /\ k.frame \in Frames
        /\ Kept(ds, m, s, r, z) /\ Sound(ds, {}, r, z)
    BY <1>1, PageBroughtIn
  <1>3. ASSUME NEW h \in Pages, h # g, m.ptes[t][h] = NULL, <<t, h>> \notin DOMAIN s
        PROVE  r.ptes[t][h] = NULL /\ <<t, h>> \notin DOMAIN z
    <2>1. t \in Frames /\ k.frame # NULL
      BY <1>2, FramesAreNot0 DEF TablesIn
    <2>2. m.owner[k.frame] # <<t, h>>
      BY <1>2, <1>3, <2>1 DEF Sound, PageUse
    <2> QED BY <1>1, <1>3, <2>1, <2>2 DEF BroughtIn
  <1> QED BY <1>2, <1>3

\* Keeping is transitive,
LEMMA KeptTwice ==
    ASSUME NEW ds, NEW m, NEW s, NEW m1, NEW s1, NEW m2, NEW s2,
           Kept(ds, m, s, m1, s1), Kept(ds, m1, s1, m2, s2)
    PROVE  Kept(ds, m, s, m2, s2)
  BY DEF Kept, SamePages

\* and holds for fewer directories.
LEMMA KeptByFewer ==
    ASSUME NEW ds, NEW es, ds \subseteq es, NEW m, NEW s, NEW r, NEW z, Kept(es, m, s, r, z)
    PROVE  Kept(ds, m, s, r, z)
  BY DEF Kept, SamePages, TablesIn

\* mmu_add_process: all processes keep what they have and the new one has zeros.
LEMMA ProcessAdded ==
    ASSUME IInv, NEW pid \in Pids, mmu_add_process(pid)
    PROVE  \E pd \in Frames :
             /\ pd \notin Directories
             /\ page_directories' = [page_directories EXCEPT ![pid] = pd]
             /\ Sound(Directories \cup {pd}, {}, ram', swap')
             /\ Kept(Directories, ram, swap, ram', swap')
             /\ \A g \in Pages : At(ram', swap', pd, g) = Zero
  <1> DEFINE ds == Directories
  <1> DEFINE Linking(d, t) == Linked(t.ram, d.frame, 0, t.frame)
             Done(d, t, g, h) ==
               /\ \E k \in NewPage(Linking(d, t), t.swap, <<t.frame, g>>) :
                  \E l \in NewPage(k.ram, k.swap, <<t.frame, h>>) :
                    ram' = l.ram /\ swap' = l.swap
               /\ page_directories' = [page_directories EXCEPT ![pid] = d.frame]
  <1>1. PICK pd \in AskKernel(ram, swap, Pinned) :
          \E pt \in AskKernel(pd.ram, pd.swap, Pinned) :
          \E g1 \in Testing : \E g2 \in Testing \ {g1} : Done(pd, pt, g1, g2)
    BY DEF mmu_add_process
  <1> HIDE DEF Done
  <1>2. PICK pt \in AskKernel(pd.ram, pd.swap, Pinned) :
          \E g1 \in Testing : \E g2 \in Testing \ {g1} : Done(pd, pt, g1, g2)
    BY <1>1
  <1>3. PICK g1 \in Testing, g2 \in Testing : g1 # g2 /\ Done(pd, pt, g1, g2)
    BY <1>2
  <1> DEFINE linked == Linking(pd, pt)
  <1>4. PICK k1 \in NewPage(linked, pt.swap, <<pt.frame, g1>>) :
          \E l \in NewPage(k1.ram, k1.swap, <<pt.frame, g2>>) : ram' = l.ram /\ swap' = l.swap
    BY <1>3 DEF Done
  <1> DEFINE m1 == k1.ram
  <1>5. PICK k2 \in NewPage(m1, k1.swap, <<pt.frame, g2>>) : ram' = k2.ram /\ swap' = k2.swap
    BY <1>4
  <1>6. 0 \in Dirs /\ g1 \in Pages /\ g2 \in Pages /\ g1 # g2
    BY <1>3, PageAssumption DEF Dirs
  <1>7. Sound(ds, {}, ram, swap)
    BY DEF IInv
  <1> HIDE DEF ds
  <1>8. /\ pd.frame \in Frames /\ pd.frame \notin ds
        /\ Sound(ds \cup {pd.frame}, {}, linked, pt.swap)
        /\ pt.frame \in TablesIn(ds \cup {pd.frame}, linked)
        /\ NewTable(pd.frame, pt.frame, linked, pt.swap)
        /\ Kept(ds, ram, swap, linked, pt.swap)
    BY <1>6, <1>7, DirectoryAndTable
  <1> DEFINE dirs == ds \cup {pd.frame}
  <1>9. pd.frame \in dirs /\ ds \subseteq dirs
    OBVIOUS
  <1> HIDE DEF linked, m1, dirs
  <1>10. /\ Kept(dirs, linked, pt.swap, m1, k1.swap) /\ Sound(dirs, {}, m1, k1.swap)
         /\ m1.ptes[pt.frame][g2] = NULL /\ <<pt.frame, g2>> \notin DOMAIN k1.swap
    <2>1. Sound(dirs, {}, linked, pt.swap) /\ pt.frame \in TablesIn(dirs, linked)
      BY <1>8 DEF dirs
    <2>2. \A g \in Pages : linked.ptes[pt.frame][g] = NULL /\ <<pt.frame, g>> \notin DOMAIN pt.swap
      BY <1>8 DEF NewTable
    <2>3. m1 = k1.ram
      BY DEF m1
    <2>4. /\ Kept(dirs, linked, pt.swap, m1, k1.swap) /\ Sound(dirs, {}, m1, k1.swap)
          /\ \A h \in Pages :
               h # g1 /\ linked.ptes[pt.frame][h] = NULL /\ <<pt.frame, h>> \notin DOMAIN pt.swap
               => m1.ptes[pt.frame][h] = NULL /\ <<pt.frame, h>> \notin DOMAIN k1.swap
      BY <1>6, <2>1, <2>2, <2>3, OnePage
    <2> QED BY <1>6, <2>2, <2>4
  <1>11. Kept(dirs, m1, k1.swap, ram', swap') /\ Sound(dirs, {}, ram', swap')
    <2>1. pt.frame \in TablesIn(dirs, m1)
      BY <1>8, <1>10 DEF Kept, dirs
    <2> QED BY <1>5, <1>6, <1>10, <2>1, OnePage
  <1>12. Kept(dirs, linked, pt.swap, ram', swap')
    BY <1>10, <1>11, KeptTwice
  <1>13. Kept(ds, ram, swap, ram', swap')
    <2>1. Kept(ds, linked, pt.swap, ram', swap')
      BY <1>9, <1>12, KeptByFewer
    <2> QED BY <1>8, <2>1, KeptTwice
  <1>14. ASSUME NEW g \in Pages PROVE At(ram', swap', pd.frame, g) = Zero
    <2>1. Dir[g] \in Dirs
      BY DEF Dirs
    <2>2. ram'.pdes[pd.frame][Dir[g]] = linked.pdes[pd.frame][Dir[g]]
      BY <1>9, <1>12, <2>1 DEF Kept
    <2>3. PageOf(ram', swap', pt.frame, g) = PageOf(linked, pt.swap, pt.frame, g)
      BY <1>8, <1>12 DEF Kept, SamePages, dirs
    <2>4. PageOf(linked, pt.swap, pt.frame, g) = Zero
      BY <1>8 DEF NewTable, PageOf
    <2> QED BY <1>8, <2>1, <2>2, <2>3, <2>4 DEF At, NewTable
  <1>15. Sound(ds \cup {pd.frame}, {}, ram', swap')
    BY <1>11 DEF dirs
  <1> QED BY <1>3, <1>8, <1>13, <1>14, <1>15 DEF ds, Done

-----------------------------------------------------------------------------
(* Removing a process: what goes is its directory, its tables and their pages,
   and nothing that another process refers to is among them. *)

\* tables are those of directory pd, and S the frames of the process: the
\* directory, the tables and their pages.
TablesAre(m, pd, tables) ==
    /\ tables \subseteq Frames
    /\ \A t \in Frames : t \in tables <=> \E d \in Dirs : m.pdes[pd][d] = t

FramesAre(m, pd, tables, S) ==
    \A x \in Frames : x \in S <=>
      x = pd \/ x \in tables \/ \E t \in tables : \E g \in Pages : m.ptes[t][g] = x

\* r is memory m after the frames in S have been returned.
GivenBack(m, S, r) ==
    /\ MemoryType(r)
    /\ \A x \in Frames : x \in S => r.owner[x] = Free
    /\ \A x \in Frames : x \notin S => /\ r.owner[x] = m.owner[x] /\ r.data[x] = m.data[x]
                                       /\ r.pdes[x] = m.pdes[x] /\ r.ptes[x] = m.ptes[x]

\* z is s without the swap files of the entries of the tables.
FilesGone(s, tables, z) ==
    /\ SwapType(z)
    /\ \A t \in Frames : \A g \in Pages :
         /\ <<t, g>> \in DOMAIN z <=> <<t, g>> \in DOMAIN s /\ t \notin tables
         /\ <<t, g>> \in DOMAIN z => z[<<t, g>>] = s[<<t, g>>]

\* mmu_remove_process, for the directories that stay: their tables, pages and swap
\* files are not among those that go.
LEMMA ProcessGone ==
    ASSUME NEW ds, NEW m, NEW s, Sound(ds, {}, m, s), NEW pd \in ds,
           NEW tables, TablesAre(m, pd, tables), NEW S, FramesAre(m, pd, tables, S),
           NEW r, GivenBack(m, S, r), NEW z, FilesGone(s, tables, z)
    PROVE  /\ Sound(ds \ {pd}, {}, r, z)
           /\ Kept(ds \ {pd}, m, s, r, z)
  <1> DEFINE rest == ds \ {pd}
  <1>1. MemoryType(m) /\ SwapType(s) /\ ds \subseteq Frames
    BY DEF Sound, SoundTypes
  <1>2. /\ MemoryType(r)
        /\ \A x \in Frames : x \in S => r.owner[x] = Free
        /\ \A x \in Frames : x \notin S =>
             /\ r.owner[x] = m.owner[x] /\ r.data[x] = m.data[x]
             /\ r.pdes[x] = m.pdes[x] /\ r.ptes[x] = m.ptes[x]
    BY DEF GivenBack
  <1>3. \A t \in Frames : t \in tables <=> \E d \in Dirs : m.pdes[pd][d] = t
    BY DEF TablesAre
  <1>4. tables \subseteq Frames /\ tables \subseteq TablesIn(ds, m)
    BY DEF TablesIn, TablesAre
  <1>5. \A t \in TablesIn(ds, m) : t \in TablesIn(rest, m) <=> t \notin tables
    <2>1. ASSUME NEW t \in TablesIn(ds, m), t \notin tables PROVE t \in TablesIn(rest, m)
      BY <1>3, <2>1 DEF TablesIn
    <2>2. ASSUME NEW t \in TablesIn(rest, m), t \in tables PROVE FALSE
      <3>1. PICK qd \in rest, e \in Dirs : m.pdes[qd][e] = t
        BY DEF TablesIn
      <3>2. PICK d \in Dirs : m.pdes[pd][d] = t /\ t # NULL
        BY <1>3, <1>4, <2>2, FramesAreNot0
      <3> QED BY <3>1, <3>2 DEF Sound, TablesApart, rest
    <2> QED BY <2>1, <2>2 DEF TablesIn
  <1>6. TablesIn(rest, m) \subseteq TablesIn(ds, m) /\ TablesIn(ds, m) \subseteq Frames
    BY DEF TablesIn
  <1>7. \A x \in Frames : x \in S <=>
          x = pd \/ x \in tables \/ \E t \in tables : \E g \in Pages : m.ptes[t][g] = x
    BY DEF FramesAre
  <1> HIDE DEF rest
  <1>8. \A x \in Frames : \A t \in tables : \A g \in Pages :
          m.ptes[t][g] = x => m.owner[x] = <<t, g>>
    BY <1>4, FramesAreNot0 DEF Sound, PageUse
  <1>9. \A x \in Frames : x \in S /\ m.owner[x] = Pinned => x = pd \/ x \in tables
    <2> SUFFICES ASSUME NEW x \in Frames, x \in S, m.owner[x] = Pinned
                 PROVE  x = pd \/ x \in tables
      OBVIOUS
    <2>1. ~ \E t \in tables : \E g \in Pages : m.ptes[t][g] = x
      BY <1>4, <1>8, PagesOwn
    <2> QED BY <1>7, <2>1
  <1>10. \A x \in ds : x # pd => x \notin S
    BY <1>1, <1>4, <1>9 DEF Sound, PinnedUse
  <1>11. \A x \in TablesIn(rest, m) : x \notin S
    <2> TAKE x \in TablesIn(rest, m)
    <2>1. x \in TablesIn(ds, m) /\ x \in Frames /\ x \notin tables
      BY <1>5, <1>6
    <2>2. x # pd /\ m.owner[x] = Pinned
      BY <2>1 DEF Sound, PinnedUse
    <2> QED BY <1>9, <2>1, <2>2
  <1>12. rest \subseteq ds /\ pd \notin rest /\ \A x \in ds : x # pd => x \in rest
    BY DEF rest
  <1>13. \A qd \in rest : \A d \in Dirs : r.pdes[qd][d] = m.pdes[qd][d]
    BY <1>1, <1>2, <1>10, <1>12
  <1>14. TablesIn(rest, r) = TablesIn(rest, m)
    BY <1>13 DEF TablesIn
  <1>15. \A t \in TablesIn(rest, m) : r.ptes[t] = m.ptes[t]
    BY <1>2, <1>6, <1>11
  <1>16. \A t \in TablesIn(rest, m) : \A g \in Pages :
           m.ptes[t][g] # NULL =>
             m.ptes[t][g] \in Frames /\ m.ptes[t][g] \notin S /\ m.owner[m.ptes[t][g]] = <<t, g>>
    <2> SUFFICES ASSUME NEW t \in TablesIn(rest, m), NEW g \in Pages, m.ptes[t][g] # NULL
                 PROVE  /\ m.ptes[t][g] \in Frames /\ m.ptes[t][g] \notin S
                        /\ m.owner[m.ptes[t][g]] = <<t, g>>
      OBVIOUS
    <2> DEFINE x == m.ptes[t][g]
    <2>1. t \in Frames /\ t \in TablesIn(ds, m) /\ t \notin tables
      BY <1>5, <1>6
    <2>2. x \in Frames /\ m.owner[x] = <<t, g>>
      BY <1>1, <2>1 DEF Sound, PageUse, MemoryType
    <2> HIDE DEF x
    <2>3. x # pd /\ x \notin tables
      BY <1>1, <1>4, <2>1, <2>2, PagesOwn DEF Sound, PinnedUse
    <2>4. ~ \E u \in tables : \E h \in Pages : m.ptes[u][h] = x
      BY <1>8, <2>1, <2>2
    <2>5. x \notin S
      BY <1>7, <2>2, <2>3, <2>4
    <2> QED BY <2>2, <2>5 DEF x
  <1>17. /\ SwapType(z)
         /\ \A t \in Frames : \A g \in Pages :
              /\ <<t, g>> \in DOMAIN z <=> <<t, g>> \in DOMAIN s /\ t \notin tables
              /\ <<t, g>> \in DOMAIN z => z[<<t, g>>] = s[<<t, g>>]
    BY DEF FilesGone
  <1>18. SamePages(rest, m, s, r, z)
    <2> SUFFICES ASSUME NEW t \in TablesIn(rest, m), NEW g \in Pages
                 PROVE  PageOf(r, z, t, g) = PageOf(m, s, t, g)
      BY DEF SamePages
    <2>1. t \in Frames /\ t \notin tables
      BY <1>5, <1>6
    <2>2. r.ptes[t][g] = m.ptes[t][g]
      BY <1>15
    <2>3. m.ptes[t][g] # NULL => r.data[m.ptes[t][g]] = m.data[m.ptes[t][g]]
      BY <1>2, <1>16
    <2>4. /\ <<t, g>> \in DOMAIN z <=> <<t, g>> \in DOMAIN s
          /\ <<t, g>> \in DOMAIN z => z[<<t, g>>] = s[<<t, g>>]
      BY <1>17, <2>1
    <2> QED BY <2>2, <2>3, <2>4 DEF PageOf
  <1>19. SoundTypes(rest, {}, r, z)
    BY <1>1, <1>2, <1>12, <1>17 DEF SoundTypes
  <1>20. TablesApart(rest, r)
    BY <1>12, <1>13 DEF Sound, TablesApart
  <1>21. PinnedUse(rest, {}, r)
    <2>1. \A f \in TablesIn(rest, r) : f \notin rest
      BY <1>6, <1>12, <1>14 DEF Sound, PinnedUse
    <2>2. ASSUME NEW f \in Frames
          PROVE  r.owner[f] = Pinned <=> f \in rest \/ f \in TablesIn(rest, r)
      <3>1. r.owner[f] = Pinned <=> f \notin S /\ m.owner[f] = Pinned
        BY <1>2 DEF Free, Pinned
      <3>2. f \in rest \/ f \in TablesIn(rest, m) => f \notin S /\ m.owner[f] = Pinned
        BY <1>6, <1>10, <1>11, <1>12 DEF Sound, PinnedUse
      <3>3. f \notin S /\ m.owner[f] = Pinned => f \in rest \/ f \in TablesIn(rest, m)
        BY <1>5, <1>7, <1>12 DEF Sound, PinnedUse
      <3> QED BY <1>14, <3>1, <3>2, <3>3
    <2> QED BY <2>1, <2>2 DEF PinnedUse
  <1>22. PageUse(rest, r)
    <2>1. ASSUME NEW f \in Frames, NEW t \in Frames, NEW g \in Pages, r.owner[f] = <<t, g>>
          PROVE  t \in TablesIn(rest, m) /\ r.ptes[t][g] = f
      <3>1. f \notin S /\ m.owner[f] = <<t, g>>
        BY <1>2, <2>1, PagesOwn
      <3>2. t \in TablesIn(ds, m) /\ m.ptes[t][g] = f
        BY <3>1 DEF Sound, PageUse
      <3>3. t \in TablesIn(rest, m)
        BY <1>5, <1>7, <3>1, <3>2
      <3> QED BY <1>15, <3>2, <3>3
    <2>2. ASSUME NEW t \in TablesIn(rest, m), NEW g \in Pages, r.ptes[t][g] # NULL
          PROVE  r.owner[r.ptes[t][g]] = <<t, g>>
      BY <1>2, <1>15, <1>16, <2>2
    <2> QED BY <1>14, <2>1, <2>2 DEF PageUse
  <1>23. SwapUse(rest, r, z)
    BY <1>5, <1>14, <1>17 DEF Sound, SwapUse
  <1>24. Sound(rest, {}, r, z) /\ Kept(rest, m, s, r, z)
    BY <1>13, <1>14, <1>18, <1>19, <1>20, <1>21, <1>22, <1>23 DEF Sound, Kept
  <1> QED BY <1>24 DEF rest

\* The same from the action.
LEMMA ProcessRemoved ==
    ASSUME IInv, NEW pid \in Pids, mmu_remove_process(pid)
    PROVE  /\ page_directories[pid] \in Directories
           /\ page_directories' = [page_directories EXCEPT ![pid] = NULL]
           /\ Sound(Directories \ {page_directories[pid]}, {}, ram', swap')
           /\ Kept(Directories \ {page_directories[pid]}, ram, swap, ram', swap')
           /\ tlb' = Flushed(pid) /\ UNCHANGED <<curr_pid, answer>>
  <1> DEFINE pd == page_directories[pid]
             ds == Directories
             tables == {ram.pdes[pd][d] : d \in Dirs} \ {NULL}
             of(t) == {ram.ptes[t][g] : g \in Pages}
             each == {of(t) : t \in tables}
             pages == (UNION each) \ {NULL}
             S == {pd} \cup tables \cup pages
             gone == {x \in DOMAIN swap : x[1] \in tables}
  <1>1. /\ pd # NULL /\ ram' = Given(ram, S, Free) /\ swap' = Without(swap, gone)
        /\ page_directories' = [page_directories EXCEPT ![pid] = NULL]
        /\ tlb' = Flushed(pid) /\ UNCHANGED <<curr_pid, answer>>
    BY DEF mmu_remove_process, Returned, SwapLeft
  <1>2. pd \in ds /\ Sound(ds, {}, ram, swap) /\ MemoryType(ram) /\ SwapType(swap) /\ pd \in Frames
    BY <1>1, DirectoriesAre DEF IInv, Sound, SoundTypes
  <1> HIDE DEF pd, ds
  <1>3. TablesAre(ram, pd, tables)
    BY <1>2, FramesAreNot0 DEF TablesAre, MemoryType
  <1>4. FilesGone(swap, tables, swap')
    <2> HIDE DEF tables
    <2> QED BY <1>1, <1>2 DEF Without, SwapType, FilesGone
  <1> HIDE DEF tables
  <1> HIDE DEF S
  <1>5. FramesAre(ram, pd, tables, S)
    <2>1. \A t : \A x : x \in of(t) <=> \E g \in Pages : ram.ptes[t][g] = x
      OBVIOUS
    <2> HIDE DEF of
    <2>2. \A y : y \in each <=> \E t \in tables : y = of(t)
      OBVIOUS
    <2> HIDE DEF each
    <2>3. \A x : x \in pages <=> x # NULL /\ \E y \in each : x \in y
      OBVIOUS
    <2> HIDE DEF pages
    <2>4. \A x : x \in pages <=> x # NULL /\ \E t \in tables : x \in of(t)
      BY <2>2, <2>3
    <2> QED BY <2>1, <2>4, FramesAreNot0 DEF FramesAre, S
  <1>6. GivenBack(ram, S, ram')
    BY <1>1, <1>2, PageAssumption DEF MemoryType, Given, Owners, GivenBack
  <1>7. Sound(ds \ {pd}, {}, ram', swap') /\ Kept(ds \ {pd}, ram, swap, ram', swap')
    BY <1>2, <1>3, <1>4, <1>5, <1>6, ProcessGone
  <1> QED BY <1>1, <1>2, <1>7 DEF pd, ds

-----------------------------------------------------------------------------
(* The invariant. *)

\* mmu_create establishes the invariant.
LEMMA InitIInv == Init => IInv
  <1> SUFFICES ASSUME Init PROVE IInv
    OBVIOUS
  <1>1. Directories = {}
    BY DEF Init, Directories
  <1>2. MemoryType(ram) /\ SwapType(swap)
    <2>1. Zero \in Values /\ Free \in Owners
      BY PageAssumption DEF Owners
    <2>2. DOMAIN swap = {} /\ swap \in [DOMAIN swap -> Values]
      BY DEF Init
    <2> QED BY <2>1, <2>2 DEF Init, MemoryType, SwapType
  <1>3. TablesIn({}, ram) = {}
    BY DEF TablesIn
  <1>4. \A f \in Frames : ram.owner[f] = Free
    BY DEF Init
  <1>5. Free # Pinned /\ \A t \in Frames : \A g \in Pages : <<t, g>> # Free
    BY PagesOwn DEF Free, Pinned
  <1>6. Sound({}, {}, ram, swap)
    <2>1. PinnedUse({}, {}, ram) /\ PageUse({}, ram)
      BY <1>3, <1>4, <1>5 DEF PinnedUse, PageUse
    <2>2. \A x : x \notin DOMAIN swap
      BY DEF Init
    <2>3. TablesApart({}, ram) /\ SwapUse({}, ram, swap)
      BY <2>2 DEF TablesApart, SwapUse
    <2> QED BY <1>2, <2>1, <2>3 DEF Sound, SoundTypes
  <1>7. DirectoriesApart
    BY DEF Init, DirectoriesApart
  <1>8. TlbInv
    BY DEF Init, TlbInv
  <1> QED BY <1>1, <1>6, <1>7, <1>8 DEF IInv

\* The TLB survives whatever keeps the entries of the directory it is about.
LEMMA TlbKept ==
    ASSUME NEW c, NEW m, NEW r, NEW pd, TlbIn(c, m, pd),
           \A d \in Dirs : r.pdes[pd][d] = m.pdes[pd][d]
    PROVE  TlbIn(c, r, pd)
  <1>1. \A g \in DOMAIN c : Dir[g] \in Dirs
    BY DEF TlbIn, Dirs
  <1> QED BY <1>1 DEF TlbIn

\* The actions keep it.
LEMMA AddKeeps ==
    ASSUME IInv, NEW pid \in Pids, mmu_add_process(pid)
    PROVE  IInv'
  <1>1. PICK pd \in Frames :
          /\ pd \notin Directories
          /\ page_directories' = [page_directories EXCEPT ![pid] = pd]
          /\ Sound(Directories \cup {pd}, {}, ram', swap')
          /\ Kept(Directories, ram, swap, ram', swap')
    BY ProcessAdded
  <1>2. page_directories[pid] = NULL /\ UNCHANGED <<curr_pid, tlb>> /\ pd # NULL
    BY FramesAreNot0 DEF mmu_add_process
  <1>3. Directories' = Directories \cup {pd}
    BY <1>1, <1>2 DEF Directories, IInv, DirectoriesApart
  <1>4. DirectoriesApart'
    BY <1>1, <1>2 DEF Directories, IInv, DirectoriesApart
  <1>5. TlbInv'
    <2> SUFFICES ASSUME DOMAIN tlb # {}
                 PROVE  /\ curr_pid \in Pids /\ page_directories'[curr_pid] # NULL
                        /\ TlbIn(tlb, ram', page_directories'[curr_pid])
      BY <1>2 DEF TlbInv, TlbIn
    <2>1. /\ curr_pid \in Pids /\ page_directories[curr_pid] # NULL
          /\ TlbIn(tlb, ram, page_directories[curr_pid])
      BY DEF IInv, TlbInv
    <2>2. page_directories'[curr_pid] = page_directories[curr_pid]
      BY <1>1, <1>2, <2>1 DEF IInv, DirectoriesApart
    <2>3. page_directories[curr_pid] \in Directories
      BY <2>1, DirectoriesAre DEF IInv
    <2>4. TlbIn(tlb, ram', page_directories[curr_pid])
      BY <1>1, <2>1, <2>3, TlbKept DEF Kept
    <2> QED BY <2>1, <2>2, <2>4
  <1> QED BY <1>1, <1>3, <1>4, <1>5 DEF IInv

LEMMA RemoveKeeps ==
    ASSUME IInv, NEW pid \in Pids, mmu_remove_process(pid)
    PROVE  IInv'
  <1> DEFINE pd == page_directories[pid]
  <1>1. /\ pd \in Directories
        /\ page_directories' = [page_directories EXCEPT ![pid] = NULL]
        /\ Sound(Directories \ {pd}, {}, ram', swap')
        /\ Kept(Directories \ {pd}, ram, swap, ram', swap')
        /\ tlb' = Flushed(pid) /\ curr_pid' = curr_pid
    BY ProcessRemoved
  <1>2. pd # NULL
    BY <1>1 DEF Directories
  <1>3. Directories' = Directories \ {pd}
    BY <1>1, <1>2 DEF Directories, IInv, DirectoriesApart
  <1>4. DirectoriesApart'
    BY <1>1 DEF IInv, DirectoriesApart
  <1>5. TlbInv'
    <2> SUFFICES ASSUME DOMAIN tlb' # {}
                 PROVE  /\ curr_pid \in Pids /\ page_directories'[curr_pid] # NULL
                        /\ TlbIn(tlb', ram', page_directories'[curr_pid])
      BY <1>1 DEF TlbInv, TlbIn
    <2>1. curr_pid # pid /\ tlb' = tlb
      BY <1>1 DEF Flushed
    <2>2. /\ curr_pid \in Pids /\ page_directories[curr_pid] # NULL
          /\ TlbIn(tlb, ram, page_directories[curr_pid])
      BY <2>1 DEF IInv, TlbInv
    <2>3. page_directories'[curr_pid] = page_directories[curr_pid]
      BY <1>1, <2>1, <2>2 DEF IInv, DirectoriesApart
    <2>4. page_directories[curr_pid] \in Directories \ {pd}
      BY <2>1, <2>2, DirectoriesAre DEF IInv, DirectoriesApart
    <2>5. TlbIn(tlb, ram', page_directories[curr_pid])
      BY <1>1, <2>2, <2>4, TlbKept DEF Kept
    <2> QED BY <2>1, <2>2, <2>3, <2>5
  <1> QED BY <1>1, <1>3, <1>4, <1>5 DEF IInv

\* What both accesses need: the directories and pid's TLB after an access.
LEMMA AfterAccess ==
    ASSUME IInv, NEW pid \in Pids, page_directories[pid] # NULL, curr_pid' = pid,
           page_directories' = page_directories,
           Sound(Directories, {}, ram', swap'), TlbIn(tlb', ram', page_directories[pid])
    PROVE  IInv'
  <1>1. Directories' = Directories
    BY DEF Directories
  <1>2. DirectoriesApart'
    BY DEF IInv, DirectoriesApart
  <1>3. TlbInv'
    BY DEF TlbInv, TlbIn
  <1> QED BY <1>1, <1>2, <1>3 DEF IInv

LEMMA FaultKeeps ==
    ASSUME IInv, NEW pid \in Pids, page_directories[pid] # NULL, curr_pid' = pid,
           page_directories' = page_directories, SegmentationFault(pid)
    PROVE  IInv'
  <1>1. tlb' = Switched(pid) /\ ram' = ram /\ swap' = swap
    BY DEF SegmentationFault
  <1>2. Sound(Directories, {}, ram', swap')
    BY <1>1 DEF IInv
  <1>3. TlbIn(tlb', ram', page_directories[pid])
    BY <1>1, SwitchedTlb
  <1> QED BY <1>2, <1>3, AfterAccess

LEMMA ReadKeeps ==
    ASSUME IInv, NEW pid \in Pids, NEW g \in Pages, mmu_read_from_virtual_address(pid, g)
    PROVE  IInv'
  <1>1. /\ page_directories[pid] # NULL /\ curr_pid' = pid
        /\ page_directories' = page_directories
    BY DEF mmu_read_from_virtual_address
  <1>2. CASE SegmentationFault(pid)
    BY <1>1, <1>2, FaultKeeps
  <1>3. ASSUME NEW k \in Access(pid, g), tlb' = k.tlb, ram' = k.ram, swap' = k.swap
        PROVE  IInv'
    <2>1. Accessed(Directories, ram, swap, page_directories[pid], g, k)
      BY <1>1, AccessKeeps
    <2> QED BY <1>1, <1>3, <2>1, AfterAccess DEF Accessed
  <1> QED BY <1>2, <1>3 DEF mmu_read_from_virtual_address

LEMMA WriteKeeps ==
    ASSUME IInv, NEW pid \in Pids, NEW g \in Pages, NEW v \in Values,
           mmu_write_to_virtual_address(pid, g, v)
    PROVE  IInv'
  <1> DEFINE pd == page_directories[pid]
  <1>1. pd # NULL /\ curr_pid' = pid /\ page_directories' = page_directories
    BY DEF mmu_write_to_virtual_address
  <1>2. CASE SegmentationFault(pid)
    BY <1>1, <1>2, FaultKeeps
  <1>3. ASSUME NEW k \in Access(pid, g), tlb' = k.tlb, swap' = k.swap,
               ram' = k.ram \/ ram' = Filled(k.ram, k.frame, v)
        PROVE  IInv'
    <2>1. Accessed(Directories, ram, swap, pd, g, k)
      BY <1>1, AccessKeeps
    <2>2. pd \in Directories
      BY <1>1, DirectoriesAre DEF IInv
    <2>3. CASE ram' = k.ram
      BY <1>1, <1>3, <2>1, <2>3, AfterAccess DEF Accessed
    <2>4. CASE ram' = Filled(k.ram, k.frame, v)
      <3> HIDE DEF pd
      <3>1. ram'.pdes = k.ram.pdes /\ Sound(Directories, {}, ram', k.swap)
        BY <2>1, <2>2, <2>4, FilledMemory DEF Accessed
      <3>2. TlbIn(k.tlb, ram', pd)
        BY <2>1, <3>1, TlbKept DEF Accessed
      <3> QED BY <1>1, <1>3, <3>1, <3>2, AfterAccess DEF pd
    <2> QED BY <1>3, <2>3, <2>4
  <1> QED BY <1>2, <1>3 DEF mmu_write_to_virtual_address

LEMMA NextIInv == IInv /\ [Next]_vars => IInv'
  <1> SUFFICES ASSUME IInv, [Next]_vars PROVE IInv'
    OBVIOUS
  <1>1. ASSUME NEW pid \in Pids, mmu_add_process(pid) PROVE IInv'
    BY <1>1, AddKeeps
  <1>2. ASSUME NEW pid \in Pids, mmu_remove_process(pid) PROVE IInv'
    BY <1>2, RemoveKeeps
  <1>3. ASSUME NEW pid \in Pids, NEW g \in Pages, mmu_read_from_virtual_address(pid, g)
        PROVE  IInv'
    BY <1>3, ReadKeeps
  <1>4. ASSUME NEW pid \in Pids, NEW g \in Pages, NEW v \in Values,
               mmu_write_to_virtual_address(pid, g, v)
        PROVE  IInv'
    BY <1>4, WriteKeeps
  <1>5. CASE UNCHANGED vars
    BY <1>5 DEF vars, IInv, DirectoriesApart, Directories, TlbInv, TlbIn
  <1> QED BY <1>1, <1>2, <1>3, <1>4, <1>5 DEF Next

\* The invariant holds of every reachable state.
LEMMA Inductive == Spec => []IInv
  BY InitIInv, NextIInv, PTL DEF Spec

\* Whatever is switched, evicted, removed and added again, an entry of the TLB is
\* the one a walk of the tables of the process being served would find.
THEOREM TlbStaysFresh == Spec => []TlbFresh
  <1>1. IInv => TlbFresh
    BY DEF IInv, TlbInv, TlbIn, TlbFresh
  <1> QED BY <1>1, Inductive, PTL

\* No frame is leaked and none is used twice: directory of one process, table of
\* one directory entry, or page of the table entry it was given for.
THEOREM FramesUsedOnce == Spec => []FramesOwnedOnce
  <1>1. IInv => FramesOwnedOnce
    <2> SUFFICES ASSUME IInv PROVE FramesOwnedOnce
      OBVIOUS
    <2>1. Directories \subseteq Frames /\ Sound(Directories, {}, ram, swap)
      BY DirectoriesAre DEF IInv
    <2>2. Tables = TablesIn(Directories, ram)
      <3>1. \A pd \in Directories : \A d \in Dirs : ram.pdes[pd][d] \in Frames \cup {NULL}
        BY <2>1 DEF Sound, SoundTypes, MemoryType
      <3>2. \A x : x \in Tables <=>
              \E pd \in Directories : x # NULL /\ \E d \in Dirs : ram.pdes[pd][d] = x
        BY DEF Tables, TablesOf
      <3> QED BY <3>1, <3>2, FramesAreNot0 DEF TablesIn
    <2>3. \A f \in Frames : ram.owner[f] \notin {Free, Pinned} =>
            \E t \in Frames : \E g \in Pages : ram.owner[f] = <<t, g>>
      BY <2>1, OwnersCases DEF Sound, SoundTypes, MemoryType
    <2>4. /\ Directories \cap Tables = {}
          /\ Directories \cup Tables = {f \in Frames : ram.owner[f] = Pinned}
      <3>1. TablesIn(Directories, ram) \subseteq Frames
        BY DEF TablesIn
      <3> QED BY <2>1, <2>2, <3>1 DEF Sound, PinnedUse
    <2>5. \A f \in Frames : ram.owner[f] \notin {Free, Pinned} =>
            ram.owner[f][1] \in Tables /\ ram.ptes[ram.owner[f][1]][ram.owner[f][2]] = f
      BY <2>1, <2>2, <2>3 DEF Sound, PageUse
    <2>6. \A t \in Tables : \A g \in Pages :
            ram.ptes[t][g] # NULL => ram.owner[ram.ptes[t][g]] = <<t, g>>
      BY <2>1, <2>2 DEF Sound, PageUse
    <2>7. \A x \in DOMAIN swap : x[1] \in Tables
      BY <2>1, <2>2 DEF Sound, SoundTypes, SwapType, SwapUse
    <2>8. \A p, q \in Pids : page_directories[p] = page_directories[q] =>
                                p = q \/ page_directories[p] = NULL
      BY DEF IInv, DirectoriesApart
    <2>9. \A pd, qd \in Directories, d, e \in Dirs :
            ram.pdes[pd][d] = ram.pdes[qd][e] => <<pd, d>> = <<qd, e>> \/ ram.pdes[pd][d] = NULL
      BY <2>1 DEF Sound, TablesApart
    <2> QED BY <2>4, <2>5, <2>6, <2>7, <2>8, <2>9 DEF FramesOwnedOnce
  <1> QED BY <1>1, Inductive, PTL

-----------------------------------------------------------------------------
(* The refinement. *)

contents == [p \in Pids |-> ContentsOf(p)]

\* The refinement mapping in terms of At, before a step,
LEMMA ContentsAre ==
    ASSUME NEW p \in Pids
    PROVE  contents[p] = IF page_directories[p] = NULL THEN NoProcess
                         ELSE [g \in Pages |-> At(ram, swap, page_directories[p], g)]
  BY DEF contents, ContentsOf, At, PageOf

\* and after it.
LEMMA ContentsAreNext ==
    ASSUME NEW p \in Pids
    PROVE  contents'[p] = IF page_directories'[p] = NULL THEN NoProcess
                          ELSE [g \in Pages |-> At(ram', swap', page_directories'[p], g)]
  BY DEF contents, ContentsOf, At, PageOf

\* Contents are compared process by process.
LEMMA ContentsFunction ==
    contents = [p \in Pids |-> contents[p]] /\ contents' = [p \in Pids |-> contents'[p]]
  BY DEF contents

\* A process is never taken for none.
LEMMA AProcess ==
    ASSUME IInv, NEW p \in Pids, page_directories[p] # NULL
    PROVE  /\ contents[p] # NoProcess
           /\ \A g \in Pages : contents[p][g] = At(ram, swap, page_directories[p], g)
  <1> DEFINE pd == page_directories[p]
  <1>1. pd \in Directories /\ pd \in Frames /\ MemoryType(ram) /\ SwapType(swap)
    BY DirectoriesAre DEF IInv, Sound, SoundTypes
  <1>2. \A g \in Pages : At(ram, swap, pd, g) \in Values
    <2> TAKE g \in Pages
    <2>1. Dir[g] \in Dirs
      BY DEF Dirs
    <2>2. ram.pdes[pd][Dir[g]] \in Frames \cup {NULL}
      BY <1>1, <2>1 DEF MemoryType
    <2>3. ASSUME NEW t \in Frames PROVE PageOf(ram, swap, t, g) \in Values
      <3>1. ram.ptes[t][g] \in Frames \cup {NULL}
        BY <1>1 DEF MemoryType
      <3>2. \A f \in Frames : ram.data[f] \in Values
        BY <1>1 DEF MemoryType
      <3>3. <<t, g>> \in DOMAIN swap => swap[<<t, g>>] \in Values
        BY <1>1 DEF SwapType
      <3> QED BY <3>1, <3>2, <3>3, PageAssumption DEF PageOf
    <2> QED BY <2>2, <2>3, PageAssumption DEF At
  <1>3. contents[p] = [g \in Pages |-> At(ram, swap, pd, g)]
    BY ContentsAre
  <1> HIDE DEF pd
  <1>4. contents[p] \in [Pages -> Values]
    BY <1>2, <1>3
  <1>5. contents[p] # NoProcess
    BY <1>4, NoProcessAssumption
  <1> QED BY <1>3, <1>5 DEF pd

\* Where a process keeps its directory and its pages, it keeps its contents.
LEMMA OneSame ==
    ASSUME NEW ds, NEW p \in Pids, page_directories'[p] = page_directories[p],
           page_directories[p] # NULL => page_directories[p] \in ds,
           SameContents(ds, ram, swap, ram', swap')
    PROVE  contents'[p] = contents[p]
  <1>1. CASE page_directories[p] = NULL
    BY <1>1, ContentsAre, ContentsAreNext
  <1>2. CASE page_directories[p] # NULL
    <2> DEFINE pd == page_directories[p]
    <2>1. \A g \in Pages : At(ram', swap', pd, g) = At(ram, swap, pd, g)
      BY <1>2 DEF SameContents
    <2>2. contents[p] = [g \in Pages |-> At(ram, swap, pd, g)]
      BY <1>2, ContentsAre
    <2>3. contents'[p] = [g \in Pages |-> At(ram', swap', pd, g)]
      BY <1>2, ContentsAreNext
    <2> HIDE DEF pd
    <2> QED BY <2>1, <2>2, <2>3
  <1> QED BY <1>1, <1>2

\* The same for all processes.
LEMMA SameForAll ==
    ASSUME IInv, page_directories' = page_directories,
           SameContents(Directories, ram, swap, ram', swap')
    PROVE  contents' = contents
  <1>1. ASSUME NEW p \in Pids PROVE contents'[p] = contents[p]
    <2>1. page_directories[p] # NULL => page_directories[p] \in Directories
      BY DirectoriesAre DEF IInv
    <2> QED BY <2>1, OneSame
  <1> QED BY <1>1, ContentsFunction

\* Every step is a step of private memory.
LEMMA AddImplements ==
    ASSUME IInv, NEW pid \in Pids, mmu_add_process(pid)
    PROVE  Memory!AddProcess(pid)
  <1>1. PICK pd \in Frames :
          /\ pd \notin Directories
          /\ page_directories' = [page_directories EXCEPT ![pid] = pd]
          /\ Kept(Directories, ram, swap, ram', swap')
          /\ \A g \in Pages : At(ram', swap', pd, g) = Zero
    BY ProcessAdded
  <1>2. page_directories[pid] = NULL /\ answer' = answer /\ pd # NULL
    BY FramesAreNot0 DEF mmu_add_process
  <1>3. SameContents(Directories, ram, swap, ram', swap')
    BY <1>1, KeptContents DEF IInv
  <1>4. contents[pid] = NoProcess
    BY <1>2, ContentsAre
  <1>5. contents'[pid] = [g \in Pages |-> Zero]
    <2>1. page_directories'[pid] = pd
      BY <1>1 DEF IInv, DirectoriesApart
    <2>2. contents'[pid] = [g \in Pages |-> At(ram', swap', pd, g)]
      BY <1>2, <2>1, ContentsAreNext
    <2> QED BY <1>1, <2>2
  <1>6. ASSUME NEW p \in Pids, p # pid PROVE contents'[p] = contents[p]
    <2>1. page_directories'[p] = page_directories[p]
      BY <1>1, <1>6 DEF IInv, DirectoriesApart
    <2>2. page_directories[p] # NULL => page_directories[p] \in Directories
      BY DirectoriesAre DEF IInv
    <2> QED BY <1>3, <2>1, <2>2, OneSame
  <1>7. contents' = [contents EXCEPT ![pid] = [g \in Pages |-> Zero]]
    BY <1>5, <1>6, ContentsFunction
  <1> QED BY <1>2, <1>4, <1>7 DEF Memory!AddProcess, contents

LEMMA RemoveImplements ==
    ASSUME IInv, NEW pid \in Pids, mmu_remove_process(pid)
    PROVE  Memory!RemoveProcess(pid)
  <1> DEFINE pd == page_directories[pid]
             rest == Directories \ {pd}
  <1>1. /\ page_directories' = [page_directories EXCEPT ![pid] = NULL]
        /\ Kept(rest, ram, swap, ram', swap') /\ answer' = answer
    BY ProcessRemoved
  <1>2. SameContents(rest, ram, swap, ram', swap')
    <2>1. \A qd \in rest : \A d \in Dirs : ram.pdes[qd][d] \in Frames \cup {NULL}
      BY DEF IInv, Sound, SoundTypes, MemoryType
    <2> HIDE DEF rest
    <2> SUFFICES ASSUME NEW qd \in rest, NEW g \in Pages
                 PROVE  At(ram', swap', qd, g) = At(ram, swap, qd, g)
      BY DEF SameContents
    <2>2. Dir[g] \in Dirs
      BY DEF Dirs
    <2>3. ram'.pdes[qd][Dir[g]] = ram.pdes[qd][Dir[g]]
      BY <1>1, <2>2 DEF Kept
    <2>4. ram.pdes[qd][Dir[g]] # NULL => ram.pdes[qd][Dir[g]] \in TablesIn(rest, ram)
      BY <2>1, <2>2 DEF TablesIn
    <2> QED BY <1>1, <2>3, <2>4 DEF At, Kept, SamePages
  <1>3. contents'[pid] = NoProcess
    <2>1. page_directories'[pid] = NULL
      BY <1>1 DEF IInv, DirectoriesApart
    <2> QED BY <2>1, ContentsAreNext
  <1>4. ASSUME NEW p \in Pids, p # pid PROVE contents'[p] = contents[p]
    <2>1. page_directories'[p] = page_directories[p]
      BY <1>1, <1>4 DEF IInv, DirectoriesApart
    <2>2. page_directories[p] # NULL => page_directories[p] \in rest
      BY <1>4, DirectoriesAre DEF IInv, DirectoriesApart
    <2> QED BY <1>2, <2>1, <2>2, OneSame
  <1>5. contents' = [contents EXCEPT ![pid] = NoProcess]
    BY <1>3, <1>4, ContentsFunction
  <1> QED BY <1>1, <1>5 DEF Memory!RemoveProcess, contents

\* A segmentation fault changes no contents.
LEMMA FaultImplements ==
    ASSUME IInv, page_directories' = page_directories, NEW pid \in Pids, SegmentationFault(pid)
    PROVE  contents' = contents /\ answer' = <<"segfault">>
  <1>1. ram' = ram /\ swap' = swap /\ answer' = <<"segfault">>
    BY DEF SegmentationFault
  <1>2. SameContents(Directories, ram, swap, ram', swap')
    BY <1>1 DEF SameContents
  <1> QED BY <1>1, <1>2, SameForAll

\* An access ends at the frame whose data the page's contents are.
LEMMA FrameHoldsPage ==
    ASSUME NEW ds, NEW m, NEW s, NEW pd \in ds, NEW g \in Pages, NEW k, Accessed(ds, m, s, pd, g, k)
    PROVE  k.ram.data[k.frame] = At(m, s, pd, g)
  <1>1. At(k.ram, k.swap, pd, g) = At(m, s, pd, g)
    BY DEF Accessed, SameContents
  <1>2. k.ram.pdes[pd][Dir[g]] # NULL /\ k.frame # NULL
    BY FramesAreNot0 DEF Accessed, TablesIn
  <1>3. At(k.ram, k.swap, pd, g) = k.ram.data[k.frame]
    BY <1>2 DEF Accessed, At, PageOf
  <1> QED BY <1>1, <1>3

LEMMA ReadImplements ==
    ASSUME IInv, NEW pid \in Pids, NEW g \in Pages, mmu_read_from_virtual_address(pid, g)
    PROVE  Memory!Read(pid, g)
  <1>1. page_directories[pid] # NULL /\ page_directories' = page_directories
    BY DEF mmu_read_from_virtual_address
  <1>2. contents[pid] # NoProcess /\ contents[pid][g] = At(ram, swap, page_directories[pid], g)
    BY <1>1, AProcess
  <1>3. contents' = contents /\ answer' = IF g \in Readable THEN <<"value", contents[pid][g]>>
                                          ELSE <<"segfault">>
    <2>1. CASE g \in Unmapped /\ SegmentationFault(pid)
      BY <1>1, <2>1, FaultImplements, PageAssumption
    <2>2. ASSUME NEW k \in Access(pid, g), ram' = k.ram, swap' = k.swap,
                 answer' = IF g \in Readable THEN <<"value", k.ram.data[k.frame]>>
                           ELSE <<"segfault">>
          PROVE  /\ contents' = contents
                 /\ answer' = IF g \in Readable THEN <<"value", contents[pid][g]>>
                              ELSE <<"segfault">>
      <3>1. Accessed(Directories, ram, swap, page_directories[pid], g, k)
        BY <1>1, AccessKeeps
      <3>2. page_directories[pid] \in Directories
        BY <1>1, DirectoriesAre DEF IInv
      <3>3. k.ram.data[k.frame] = contents[pid][g]
        BY <1>2, <3>1, <3>2, FrameHoldsPage
      <3>4. contents' = contents
        BY <1>1, <2>2, <3>1, SameForAll DEF Accessed
      <3> QED BY <2>2, <3>3, <3>4
    <2> QED BY <2>1, <2>2 DEF mmu_read_from_virtual_address
  <1> QED BY <1>2, <1>3 DEF Memory!Read, contents

LEMMA WriteImplements ==
    ASSUME IInv, NEW pid \in Pids, NEW g \in Pages, NEW v \in Values,
           mmu_write_to_virtual_address(pid, g, v)
    PROVE  Memory!Write(pid, g, v)
  <1> DEFINE pd == page_directories[pid]
             New == IF g \in Writable THEN [contents EXCEPT ![pid][g] = v] ELSE contents
             Goal == /\ contents' = New
                     /\ answer' = IF g \in Writable THEN <<"done">> ELSE <<"segfault">>
  <1>1. pd # NULL /\ page_directories' = page_directories
    BY DEF mmu_write_to_virtual_address
  <1>2. /\ contents[pid] # NoProcess
        /\ contents[pid] = [h \in Pages |-> At(ram, swap, pd, h)]
    BY <1>1, AProcess, ContentsAre
  <1>3. pd \in Directories
    BY <1>1, DirectoriesAre DEF IInv
  <1>4. CASE g \in Unmapped /\ SegmentationFault(pid)
    <2>1. g \notin Writable
      BY <1>4, PageAssumption
    <2>2. contents' = contents /\ answer' = <<"segfault">>
      BY <1>1, <1>4, FaultImplements
    <2>3. Goal
      BY <2>1, <2>2
    <2> QED BY <1>2, <2>3 DEF Memory!Write, contents
  <1>5. ASSUME NEW k \in Access(pid, g), swap' = k.swap,
               \/ g \in Writable /\ ram' = Filled(k.ram, k.frame, v) /\ answer' = <<"done">>
               \/ g \notin Writable /\ ram' = k.ram /\ answer' = <<"segfault">>
        PROVE  Goal
    <2>1. Accessed(Directories, ram, swap, pd, g, k)
      BY <1>1, AccessKeeps
    <2>2. CASE g \notin Writable
      <3>1. contents' = contents
        BY <1>1, <1>5, <2>1, <2>2, SameForAll DEF Accessed
      <3> QED BY <1>5, <2>2, <3>1
    <2>3. CASE g \in Writable
      <3> HIDE DEF pd
      <3>1. \A qd \in Directories : \A h \in Pages :
              At(ram', swap', qd, h) = IF qd = pd /\ h = g THEN v ELSE At(k.ram, k.swap, qd, h)
        BY <1>3, <1>5, <2>1, <2>3, FilledMemory DEF Accessed
      <3>2. \A qd \in Directories : \A h \in Pages :
              At(ram', swap', qd, h) = IF qd = pd /\ h = g THEN v ELSE At(ram, swap, qd, h)
        BY <2>1, <3>1 DEF Accessed, SameContents
      <3>3. contents'[pid] = [contents[pid] EXCEPT ![g] = v]
        <4>1. contents'[pid] = [h \in Pages |-> At(ram', swap', pd, h)]
          BY <1>1, ContentsAreNext DEF pd
        <4> QED BY <1>2, <1>3, <3>2, <4>1
      <3>4. ASSUME NEW p \in Pids, p # pid PROVE contents'[p] = contents[p]
        <4>1. page_directories[p] # NULL =>
                page_directories[p] \in Directories /\ page_directories[p] # pd
          BY <3>4, DirectoriesAre DEF IInv, DirectoriesApart, pd
        <4>2. SameContents(Directories \ {pd}, ram, swap, ram', swap')
          BY <3>2 DEF SameContents
        <4> QED BY <1>1, <4>1, <4>2, OneSame
      <3>5. contents' = [contents EXCEPT ![pid] = [contents[pid] EXCEPT ![g] = v]]
        BY <3>3, <3>4, ContentsFunction
      <3> QED BY <1>5, <2>3, <3>5
    <2> QED BY <2>2, <2>3
  <1>6. CASE ~ (g \in Unmapped /\ SegmentationFault(pid))
    <2>1. Goal
      BY <1>5, <1>6 DEF mmu_write_to_virtual_address, MayWrite
    <2> QED BY <1>2, <2>1 DEF Memory!Write, contents
  <1> QED BY <1>4, <1>6

\* The mmu implements private memory, for all processes, pages, frames and sizes
\* of the TLB: a process reads what it last wrote, zero if nothing, and is refused
\* where its segments say so.
THEOREM MemoryIsPrivate == Spec => ImplementsPrivateMemory
  <1>1. Init => Memory!MemoryInit
    BY DEF Init, Memory!MemoryInit, ContentsOf
  <1>2. IInv /\ [Next]_vars => [Memory!MemoryNext]_(Memory!mvars)
    <2> SUFFICES ASSUME IInv, [Next]_vars PROVE [Memory!MemoryNext]_(Memory!mvars)
      OBVIOUS
    <2>1. ASSUME NEW pid \in Pids, mmu_add_process(pid) PROVE Memory!MemoryNext
      BY <2>1, AddImplements DEF Memory!MemoryNext
    <2>2. ASSUME NEW pid \in Pids, mmu_remove_process(pid) PROVE Memory!MemoryNext
      BY <2>2, RemoveImplements DEF Memory!MemoryNext
    <2>3. ASSUME NEW pid \in Pids, NEW g \in Pages, mmu_read_from_virtual_address(pid, g)
          PROVE  Memory!MemoryNext
      BY <2>3, ReadImplements DEF Memory!MemoryNext
    <2>4. ASSUME NEW pid \in Pids, NEW g \in Pages, NEW v \in Values,
                 mmu_write_to_virtual_address(pid, g, v)
          PROVE  Memory!MemoryNext
      BY <2>4, WriteImplements DEF Memory!MemoryNext
    <2>5. CASE UNCHANGED vars
      BY <2>5 DEF vars, Memory!mvars, ContentsOf
    <2> QED BY <2>1, <2>2, <2>3, <2>4, <2>5 DEF Next
  <1> QED BY <1>1, <1>2, Inductive, PTL DEF Spec, ImplementsPrivateMemory, Memory!MemorySpec

-----------------------------------------------------------------------------
(* alloc.c.  A is the allocator as MCMemory has it.  The first two parts   *)
(* are about numbers only: the tiling of an interval by blocks of which sz *)
(* gives the payload sizes, and a list of addresses in ascending order.    *)
(* The third reads them off a heap.                                        *)

LEMMA Layout == /\ ENTRY \in Nat \ {0} /\ END \in Nat \ {0} /\ ALIGN \in Nat \ {0}
                /\ TRESHOLD \in Nat \ {0} /\ Base \in Nat \ {0} /\ Limit \in Nat \ {0}
                /\ Sizes \subseteq Nat
  BY LayoutAssumption DEF A!LayoutOK

-----------------------------------------------------------------------------
(* The blocks tile the heap.                                               *)

EndOf(e, sz) == e + ENTRY + sz[e] + END

TilingType(B, sz, brk) == /\ B \subseteq Nat /\ sz \in [B -> Nat] /\ brk \in Nat
                          /\ \A e \in B : Base <= e
\* The first block, and the last, after which the break is.
Bounded(B, sz, brk, final) ==
  /\ B = {} => brk = Base
  /\ B # {} => Base \in B /\ final \in B /\ EndOf(final, sz) = brk
\* Behind a block there is another or the break; before it another, or nothing.
Gapless(B, sz, brk) ==
  /\ \A e \in B : EndOf(e, sz) = brk \/ EndOf(e, sz) \in B
  /\ \A e \in B : e = Base \/ \E p \in B : EndOf(p, sz) = e
Disjoint(B, sz, brk) ==
  /\ \A e \in B : EndOf(e, sz) <= brk
  /\ \A e, f \in B : e < f => EndOf(e, sz) <= f

Tiling(B, sz, brk, final) ==
  TilingType(B, sz, brk) /\ Bounded(B, sz, brk, final) /\ Gapless(B, sz, brk) /\ Disjoint(B, sz, brk)

LEMMA EndBehind ==
    ASSUME NEW B, NEW sz, NEW brk, TilingType(B, sz, brk), NEW e \in B
    PROVE  /\ EndOf(e, sz) \in Nat /\ e < EndOf(e, sz) /\ e + ENTRY + sz[e] = EndOf(e, sz) - END
           /\ e \in Nat /\ sz[e] \in Nat /\ Base <= e
  BY Layout DEF EndOf, TilingType

\* Two blocks do not end at the same place.
LEMMA EndsApart ==
    ASSUME NEW B, NEW sz, NEW brk, NEW final, Tiling(B, sz, brk, final),
           NEW e \in B, NEW f \in B, EndOf(e, sz) = EndOf(f, sz)
    PROVE  e = f
  <1>1. TilingType(B, sz, brk) /\ Disjoint(B, sz, brk)
    BY DEF Tiling
  <1>2. e \in Nat /\ f \in Nat /\ e < EndOf(e, sz) /\ f < EndOf(f, sz)
        /\ EndOf(e, sz) \in Nat /\ EndOf(f, sz) \in Nat
    BY <1>1, EndBehind
  <1>3. (e < f => EndOf(e, sz) <= f) /\ (f < e => EndOf(f, sz) <= e)
    BY <1>1 DEF Disjoint
  <1> QED BY <1>2, <1>3

\* sbrk: a block at the break.
LEMMA TileExtend ==
    ASSUME NEW B, NEW sz, NEW brk, NEW final, Tiling(B, sz, brk, final), NEW s \in Nat,
           NEW sz2, sz2 \in [B \cup {brk} -> Nat], sz2[brk] = s, \A x \in B : sz2[x] = sz[x]
    PROVE  Tiling(B \cup {brk}, sz2, brk + ENTRY + s + END, brk)
  <1> DEFINE B2 == B \cup {brk}
             brk2 == brk + ENTRY + s + END
  <1>0. TilingType(B, sz, brk) /\ Bounded(B, sz, brk, final) /\ Gapless(B, sz, brk) /\ Disjoint(B, sz, brk)
    BY DEF Tiling
  <1>1. \A x \in B : EndOf(x, sz2) = EndOf(x, sz)
    BY DEF EndOf
  <1>2. EndOf(brk, sz2) = brk2 /\ brk2 \in Nat /\ brk < brk2 /\ brk \in Nat
    BY <1>0, Layout DEF EndOf, TilingType
  <1>3. \A x \in B : x \in Nat /\ x < EndOf(x, sz) /\ EndOf(x, sz) \in Nat /\ EndOf(x, sz) <= brk
                     /\ Base <= x
    BY <1>0, EndBehind DEF Disjoint
  <1>4. Base <= brk
    BY <1>0, <1>2, <1>3, Layout DEF Bounded
  <1>5. TilingType(B2, sz2, brk2)
    BY <1>0, <1>2, <1>4 DEF TilingType
  <1>6. Bounded(B2, sz2, brk2, brk)
    BY <1>0, <1>2 DEF Bounded
  <1>7. Gapless(B2, sz2, brk2)
    <2>1. \A x \in B2 : EndOf(x, sz2) = brk2 \/ EndOf(x, sz2) \in B2
      BY <1>0, <1>1, <1>2 DEF Gapless
    <2>2. \A x \in B2 : x = Base \/ \E p \in B2 : EndOf(p, sz2) = x
      <3>1. brk = Base \/ \E p \in B : EndOf(p, sz) = brk
        BY <1>0 DEF Bounded
      <3> QED BY <1>0, <1>1, <3>1 DEF Gapless
    <2> QED BY <2>1, <2>2 DEF Gapless
  <1>8. Disjoint(B2, sz2, brk2)
    <2>1. \A x \in B2 : EndOf(x, sz2) <= brk2
      BY <1>1, <1>2, <1>3
    <2>2. \A x, y \in B2 : x < y => EndOf(x, sz2) <= y
      BY <1>0, <1>1, <1>2, <1>3 DEF Disjoint
    <2> QED BY <2>1, <2>2 DEF Disjoint
  <1> QED BY <1>5, <1>6, <1>7, <1>8 DEF Tiling

\* A block is cut in two.
SplitSizes(B, sz, e, s, new, sz2) ==
  /\ e \in B /\ s \in Nat /\ s + ENTRY + END <= sz[e] /\ new = e + ENTRY + s + END
  /\ sz2 \in [B \cup {new} -> Nat] /\ sz2[e] = s /\ sz2[new] = sz[e] - s - (ENTRY + END)
  /\ \A x \in B : x # e => sz2[x] = sz[x]
Replaced(final2, final, x, y) == final2 = IF final = x THEN y ELSE final

LEMMA TileSplit ==
    ASSUME NEW B, NEW sz, NEW brk, NEW final, Tiling(B, sz, brk, final), NEW e, NEW s,
           NEW new, NEW sz2, SplitSizes(B, sz, e, s, new, sz2),
           NEW final2, Replaced(final2, final, e, new)
    PROVE  Tiling(B \cup {new}, sz2, brk, final2) /\ new \notin B
           /\ EndOf(e, sz2) = new /\ EndOf(new, sz2) = EndOf(e, sz)
           /\ \A x \in B : x # e => EndOf(x, sz2) = EndOf(x, sz)
  <1> DEFINE B2 == B \cup {new}
  <1> USE DEF Replaced
  <1>s. /\ e \in B /\ s \in Nat /\ s + ENTRY + END <= sz[e] /\ new = e + ENTRY + s + END
        /\ sz2 \in [B \cup {new} -> Nat] /\ sz2[e] = s /\ sz2[new] = sz[e] - s - (ENTRY + END)
        /\ \A x \in B : x # e => sz2[x] = sz[x]
    BY DEF SplitSizes
  <1> USE <1>s
  <1>0. TilingType(B, sz, brk) /\ Bounded(B, sz, brk, final) /\ Gapless(B, sz, brk) /\ Disjoint(B, sz, brk)
    BY DEF Tiling
  <1>1. \A x \in B : x # e => EndOf(x, sz2) = EndOf(x, sz)
    BY DEF EndOf
  <1>2. EndOf(e, sz2) = new /\ EndOf(new, sz2) = EndOf(e, sz)
    BY <1>0, Layout DEF EndOf, TilingType
  <1>3. \A x \in B : x \in Nat /\ x < EndOf(x, sz) /\ EndOf(x, sz) \in Nat /\ EndOf(x, sz) <= brk
                     /\ Base <= x
    BY <1>0, EndBehind DEF Disjoint
  <1>4. new \in Nat /\ e < new /\ new < EndOf(e, sz)
    BY <1>0, Layout DEF EndOf, TilingType
  <1>5. new \notin B
    BY <1>0, <1>3, <1>4 DEF Disjoint
  <1>6. TilingType(B2, sz2, brk)
    BY <1>0, <1>3, <1>4, Layout DEF TilingType
  <1>7. Bounded(B2, sz2, brk, final2)
    <2>1. Base \in B /\ final \in B /\ EndOf(final, sz) = brk
      BY <1>0 DEF Bounded
    <2>2. final2 \in B2 /\ EndOf(final2, sz2) = brk
      BY <1>1, <1>2, <2>1
    <2> QED BY <2>1, <2>2 DEF Bounded
  <1>8. Gapless(B2, sz2, brk)
    <2>1. \A x \in B2 : EndOf(x, sz2) = brk \/ EndOf(x, sz2) \in B2
      BY <1>0, <1>1, <1>2 DEF Gapless
    <2>2. ASSUME NEW x \in B2 PROVE x = Base \/ \E p \in B2 : EndOf(p, sz2) = x
      <3>1. CASE x = new
        BY <1>2, <3>1
      <3>2. CASE x # new /\ x # Base
        <4>1. PICK p \in B : EndOf(p, sz) = x
          BY <1>0, <3>2 DEF Gapless
        <4> QED BY <1>1, <1>2, <4>1
      <3> QED BY <3>1, <3>2
    <2> QED BY <2>1, <2>2 DEF Gapless
  <1>9. Disjoint(B2, sz2, brk)
    <2>1. \A x \in B2 : EndOf(x, sz2) <= brk
      BY <1>1, <1>2, <1>3, <1>4, <1>0 DEF TilingType
    <2>2. ASSUME NEW x \in B2, NEW y \in B2, x < y PROVE EndOf(x, sz2) <= y
      <3>1. CASE x = e
        <4>1. y # new => y \in B /\ EndOf(e, sz) <= y
          BY <1>0, <2>2, <3>1 DEF Disjoint
        <4> QED BY <1>2, <1>3, <1>4, <2>2, <3>1, <4>1
      <3>2. CASE x = new
        <4>1. y \in B /\ e < y
          BY <1>3, <1>4, <2>2, <3>2
        <4>2. EndOf(e, sz) <= y
          BY <1>0, <4>1 DEF Disjoint
        <4> QED BY <1>2, <3>2, <4>2
      <3>3. CASE x # e /\ x # new
        <4>1. CASE y = new
          <5>1. x \in B /\ (x < e \/ e < x)
            BY <1>3, <3>3
          <5>2. ~(e < x)
            BY <1>0, <1>3, <1>4, <2>2, <4>1, <5>1 DEF Disjoint
          <5>3. EndOf(x, sz) <= e
            BY <1>0, <5>1, <5>2 DEF Disjoint
          <5> QED BY <1>1, <1>3, <1>4, <3>3, <4>1, <5>1, <5>3
        <4>2. CASE y # new
          BY <1>0, <1>1, <2>2, <3>3, <4>2 DEF Disjoint
        <4> QED BY <4>1, <4>2
      <3> QED BY <3>1, <3>2, <3>3
    <2> QED BY <2>1, <2>2 DEF Disjoint
  <1> QED BY <1>1, <1>2, <1>5, <1>6, <1>7, <1>8, <1>9 DEF Tiling

\* A block grows over the one behind it.
MergeSizes(B, sz, b, g, sz2) ==
  /\ b \in B /\ g \in B /\ EndOf(b, sz) = g
  /\ sz2 \in [B \ {g} -> Nat] /\ sz2[b] = sz[b] + (ENTRY + END) + sz[g]
  /\ \A x \in B \ {g} : x # b => sz2[x] = sz[x]

LEMMA TileMerge ==
    ASSUME NEW B, NEW sz, NEW brk, NEW final, Tiling(B, sz, brk, final), NEW b, NEW g,
           NEW sz2, MergeSizes(B, sz, b, g, sz2), NEW final2, Replaced(final2, final, g, b)
    PROVE  Tiling(B \ {g}, sz2, brk, final2) /\ b # g
           /\ EndOf(b, sz2) = EndOf(g, sz)
           /\ \A x \in B \ {g} : x # b => EndOf(x, sz2) = EndOf(x, sz)
  <1> DEFINE B2 == B \ {g}
  <1> USE DEF Replaced
  <1>s. /\ b \in B /\ g \in B /\ EndOf(b, sz) = g
        /\ sz2 \in [B \ {g} -> Nat] /\ sz2[b] = sz[b] + (ENTRY + END) + sz[g]
        /\ \A x \in B \ {g} : x # b => sz2[x] = sz[x]
    BY DEF MergeSizes
  <1> USE <1>s
  <1>0. TilingType(B, sz, brk) /\ Bounded(B, sz, brk, final) /\ Gapless(B, sz, brk) /\ Disjoint(B, sz, brk)
    BY DEF Tiling
  <1>1. \A x \in B2 : x # b => EndOf(x, sz2) = EndOf(x, sz)
    BY DEF EndOf
  <1>3. \A x \in B : x \in Nat /\ x < EndOf(x, sz) /\ EndOf(x, sz) \in Nat /\ EndOf(x, sz) <= brk
                     /\ Base <= x
    BY <1>0, EndBehind DEF Disjoint
  <1>4. b \in Nat /\ g \in Nat /\ b < g /\ b # g /\ Base < g
    BY <1>3, Layout
  <1>2. EndOf(b, sz2) = EndOf(g, sz)
    BY <1>0, <1>4, Layout DEF EndOf, TilingType
  <1>6. TilingType(B2, sz2, brk)
    BY <1>0 DEF TilingType
  <1>7. Bounded(B2, sz2, brk, final2)
    <2>1. Base \in B /\ final \in B /\ EndOf(final, sz) = brk
      BY <1>0 DEF Bounded
    <2>2. final # b
      BY <1>3, <1>4, <2>1
    <2>3. final2 \in B2 /\ EndOf(final2, sz2) = brk
      BY <1>1, <1>2, <1>4, <2>1, <2>2
    <2> QED BY <1>4, <2>1, <2>3 DEF Bounded
  <1>8. Gapless(B2, sz2, brk)
    <2>1. ASSUME NEW x \in B2 PROVE EndOf(x, sz2) = brk \/ EndOf(x, sz2) \in B2
      <3>1. CASE x = b
        <4>1. EndOf(g, sz) # g /\ (EndOf(g, sz) = brk \/ EndOf(g, sz) \in B)
          BY <1>0, <1>3 DEF Gapless
        <4> QED BY <1>2, <3>1, <4>1
      <3>2. CASE x # b
        <4>1. EndOf(x, sz) # g
          BY <3>2, EndsApart
        <4> QED BY <1>0, <1>1, <3>2, <4>1 DEF Gapless
      <3> QED BY <3>1, <3>2
    <2>2. ASSUME NEW x \in B2, x # Base PROVE \E p \in B2 : EndOf(p, sz2) = x
      <3>1. PICK p \in B : EndOf(p, sz) = x
        BY <1>0, <2>2 DEF Gapless
      <3>2. p # b
        BY <2>2, <3>1
      <3>3. CASE p = g
        BY <1>2, <1>4, <3>1, <3>3
      <3>4. CASE p # g
        BY <1>1, <3>1, <3>2, <3>4
      <3> QED BY <3>3, <3>4
    <2> QED BY <2>1, <2>2 DEF Gapless
  <1>9. Disjoint(B2, sz2, brk)
    <2>1. \A x \in B2 : EndOf(x, sz2) <= brk
      BY <1>1, <1>2, <1>3
    <2>2. ASSUME NEW x \in B2, NEW y \in B2, x < y PROVE EndOf(x, sz2) <= y
      <3>1. CASE x = b
        <4>1. g <= y /\ y # g
          BY <1>0, <2>2, <3>1 DEF Disjoint
        <4>2. g < y
          BY <1>3, <4>1
        <4>3. EndOf(g, sz) <= y
          BY <1>0, <4>2 DEF Disjoint
        <4> QED BY <1>2, <3>1, <4>3
      <3>2. CASE x # b
        BY <1>0, <1>1, <2>2, <3>2 DEF Disjoint
      <3> QED BY <3>1, <3>2
    <2> QED BY <2>1, <2>2 DEF Disjoint
  <1> QED BY <1>1, <1>2, <1>4, <1>6, <1>7, <1>8, <1>9 DEF Tiling
-----------------------------------------------------------------------------
(* The free list: the addresses F in ascending order, linked both ways.    *)


\* x is the first of F behind e, or the last before it, or NULL where there is none.
USE DEF NULL

IsNext(x, e, F) == IF x = NULL THEN \A y \in F : y <= e
                   ELSE x \in F /\ e < x /\ \A y \in F : y <= e \/ x <= y
IsPrev(x, e, F) == IF x = NULL THEN \A y \in F : e <= y
                   ELSE x \in F /\ x < e /\ \A y \in F : e <= y \/ y <= x
Addresses(F) == \A x \in F : x \in Nat /\ x # NULL
IsHead(x, F) == IF x = NULL THEN F = {} ELSE x \in F /\ \A y \in F : x <= y

Nexts(F, nx) == \A e \in F : IsNext(nx[e], e, F)
Prevs(F, pv) == \A e \in F : IsPrev(pv[e], e, F)
List(F, nx, pv, hd) ==
  Addresses(F) /\ IsHead(hd, F) /\ Nexts(F, nx) /\ Prevs(F, pv)

\* The two links agree.
LEMMA LinksAgree ==
    ASSUME NEW F, NEW nx, NEW pv, NEW hd, List(F, nx, pv, hd), NEW e \in F
    PROVE  /\ nx[e] = NULL \/ (nx[e] \in F /\ e < nx[e] /\ pv[nx[e]] = e)
           /\ pv[e] = NULL \/ (pv[e] \in F /\ pv[e] < e /\ nx[pv[e]] = e)
           /\ hd = e <=> pv[e] = NULL
  <1>0. Addresses(F) /\ IsHead(hd, F) /\ Nexts(F, nx) /\ Prevs(F, pv)
    BY DEF List
  <1>b. \A x \in F : x \in Nat /\ x # NULL
    BY <1>0 DEF Addresses
  <1>1. ASSUME nx[e] # NULL PROVE nx[e] \in F /\ e < nx[e] /\ pv[nx[e]] = e
    <2>1. nx[e] \in F /\ e < nx[e] /\ \A y \in F : y <= e \/ nx[e] <= y
      BY <1>b, <1>0, <1>1 DEF Nexts, IsNext
    <2>2. IsPrev(pv[nx[e]], nx[e], F)
      BY <1>b, <1>0, <2>1 DEF Prevs
    <2>3. pv[nx[e]] # NULL
      BY <1>b, <1>0, <2>1, <2>2 DEF IsPrev
    <2>4. pv[nx[e]] \in F /\ pv[nx[e]] < nx[e] /\ e <= pv[nx[e]]
      BY <1>b, <1>0, <2>1, <2>2, <2>3 DEF IsPrev
    <2> QED BY <1>b, <1>0, <2>1, <2>4
  <1>2. ASSUME pv[e] # NULL PROVE pv[e] \in F /\ pv[e] < e /\ nx[pv[e]] = e
    <2>1. pv[e] \in F /\ pv[e] < e /\ \A y \in F : e <= y \/ y <= pv[e]
      BY <1>b, <1>0, <1>2 DEF Prevs, IsPrev
    <2>2. IsNext(nx[pv[e]], pv[e], F)
      BY <1>b, <1>0, <2>1 DEF Nexts
    <2>3. nx[pv[e]] # NULL
      BY <1>b, <1>0, <2>1, <2>2 DEF IsNext
    <2>4. nx[pv[e]] \in F /\ pv[e] < nx[pv[e]] /\ nx[pv[e]] <= e
      BY <1>b, <1>0, <2>1, <2>2, <2>3 DEF IsNext
    <2> QED BY <1>b, <1>0, <2>1, <2>4
  <1>3. hd = e <=> pv[e] = NULL
    <2>1. hd # NULL /\ hd \in F /\ \A y \in F : hd <= y
      BY <1>b, <1>0 DEF IsHead
    <2>2. IsPrev(pv[e], e, F)
      BY <1>b, <1>0 DEF Prevs
    <2>3. ASSUME hd = e PROVE pv[e] = NULL
      BY <1>b, <1>0, <1>2, <2>1, <2>3
    <2>4. ASSUME pv[e] = NULL PROVE hd = e
      BY <1>b, <1>0, <2>1, <2>2, <2>4 DEF IsPrev
    <2> QED BY <2>3, <2>4
  <1> QED BY <1>1, <1>2, <1>3

\* new takes the place of e.
ReplaceLinks(F, nx, pv, hd, e, new, nx2, pv2, hd2) ==
  /\ nx2[new] = nx[e] /\ \A x \in F \ {e} : nx2[x] = IF x = pv[e] THEN new ELSE nx[x]
  /\ pv2[new] = pv[e] /\ \A x \in F \ {e} : pv2[x] = IF x = nx[e] THEN new ELSE pv[x]
  /\ hd2 = IF hd = e THEN new ELSE hd

LEMMA ListReplace ==
    ASSUME NEW F, NEW nx, NEW pv, NEW hd, List(F, nx, pv, hd), NEW e \in F,
           NEW new \in Nat \ {NULL}, new \notin F,
           \A x \in F \ {e} : (x < e /\ x < new) \/ (e < x /\ new < x),
           NEW nx2, NEW pv2, NEW hd2, ReplaceLinks(F, nx, pv, hd, e, new, nx2, pv2, hd2)
    PROVE  List((F \ {e}) \cup {new}, nx2, pv2, hd2)
  <1> DEFINE F2 == (F \ {e}) \cup {new}
  <1> USE DEF ReplaceLinks
  <1>0. Addresses(F) /\ IsHead(hd, F) /\ Nexts(F, nx) /\ Prevs(F, pv)
    BY DEF List
  <1>b. \A x \in F : x \in Nat /\ x # NULL
    BY <1>0 DEF Addresses
  <1>1. Addresses(F2)
    BY <1>b DEF Addresses
  <1>2. IsHead(hd2, F2)
    BY <1>b, <1>0 DEF IsHead
  <1>3. ASSUME NEW x \in F2 PROVE IsNext(nx2[x], x, F2)
    <2>1. CASE x = new
      <3>1. IsNext(nx[e], e, F)
        BY <1>b, <1>0 DEF Nexts
      <3>2. CASE nx[e] = NULL
        BY <1>b, <2>1, <3>1, <3>2 DEF IsNext
      <3>3. CASE nx[e] # NULL
        <4>1. nx[e] \in F \ {e}
          BY <1>b, <3>1, <3>3 DEF IsNext
        <4>2. e < nx[e] /\ new < nx[e]
          BY <1>b, <3>1, <3>3, <4>1 DEF IsNext
        <4>3. \A y \in F \ {e} : y <= new \/ nx[e] <= y
          BY <1>b, <3>1, <3>3 DEF IsNext
        <4> QED BY <1>b, <2>1, <3>3, <4>1, <4>2, <4>3 DEF IsNext
      <3> QED BY <3>2, <3>3
    <2>2. CASE x # new /\ x = pv[e]
      <3>1. x \in F \ {e} /\ IsPrev(x, e, F) /\ nx2[x] = new
        BY <1>b, <1>0, <2>2 DEF Prevs
      <3> QED BY <1>b, <1>0, <3>1 DEF IsPrev, IsNext
    <2>3. CASE x # new /\ x # pv[e]
      <3>1. x \in F \ {e} /\ IsNext(nx[x], x, F) /\ nx2[x] = nx[x]
        BY <1>b, <1>0, <2>3 DEF Nexts
      <3>2. nx[x] # e
        <4>1. x \in F
          BY <2>3
        <4>2. nx[x] = NULL \/ pv[nx[x]] = x
          BY <4>1, LinksAgree
        <4> QED BY <1>b, <2>3, <4>2
      <3> QED BY <1>b, <1>0, <3>1, <3>2 DEF IsNext
    <2> QED BY <2>1, <2>2, <2>3
  <1>4. ASSUME NEW x \in F2 PROVE IsPrev(pv2[x], x, F2)
    <2>1. CASE x = new
      <3>1. IsPrev(pv[e], e, F)
        BY <1>b, <1>0 DEF Prevs
      <3>2. CASE pv[e] = NULL
        BY <1>b, <2>1, <3>1, <3>2 DEF IsPrev
      <3>3. CASE pv[e] # NULL
        <4>1. pv[e] \in F \ {e}
          BY <1>b, <3>1, <3>3 DEF IsPrev
        <4>2. pv[e] < e /\ pv[e] < new
          BY <1>b, <3>1, <3>3, <4>1 DEF IsPrev
        <4>3. \A y \in F \ {e} : new <= y \/ y <= pv[e]
          BY <1>b, <3>1, <3>3 DEF IsPrev
        <4> QED BY <1>b, <2>1, <3>3, <4>1, <4>2, <4>3 DEF IsPrev
      <3> QED BY <3>2, <3>3
    <2>2. CASE x # new /\ x = nx[e]
      <3>1. x \in F \ {e} /\ IsNext(x, e, F) /\ pv2[x] = new
        BY <1>b, <1>0, <2>2 DEF Nexts
      <3> QED BY <1>b, <1>0, <3>1 DEF IsPrev, IsNext
    <2>3. CASE x # new /\ x # nx[e]
      <3>1. x \in F \ {e} /\ IsPrev(pv[x], x, F) /\ pv2[x] = pv[x]
        BY <1>b, <1>0, <2>3 DEF Prevs
      <3>2. pv[x] # e
        <4>1. x \in F
          BY <2>3
        <4>2. pv[x] = NULL \/ nx[pv[x]] = x
          BY <4>1, LinksAgree
        <4> QED BY <1>b, <2>3, <4>2
      <3> QED BY <1>b, <1>0, <3>1, <3>2 DEF IsPrev
    <2> QED BY <2>1, <2>2, <2>3
  <1> QED BY <1>1, <1>2, <1>3, <1>4 DEF List, Nexts, Prevs

\* e leaves the list.
RemoveLinks(F, nx, pv, hd, e, nx2, pv2, hd2) ==
  /\ \A x \in F \ {e} : nx2[x] = IF x = pv[e] THEN nx[e] ELSE nx[x]
  /\ \A x \in F \ {e} : pv2[x] = IF x = nx[e] THEN pv[e] ELSE pv[x]
  /\ hd2 = IF hd = e THEN nx[e] ELSE hd

LEMMA ListRemove ==
    ASSUME NEW F, NEW nx, NEW pv, NEW hd, List(F, nx, pv, hd), NEW e \in F,
           NEW nx2, NEW pv2, NEW hd2, RemoveLinks(F, nx, pv, hd, e, nx2, pv2, hd2)
    PROVE  List(F \ {e}, nx2, pv2, hd2)
  <1> DEFINE F2 == F \ {e}
  <1> USE DEF RemoveLinks
  <1>0. Addresses(F) /\ IsHead(hd, F) /\ Nexts(F, nx) /\ Prevs(F, pv)
    BY DEF List
  <1>b. \A x \in F : x \in Nat /\ x # NULL
    BY <1>0 DEF Addresses
  <1>a. IsNext(nx[e], e, F) /\ IsPrev(pv[e], e, F)
    BY <1>b, <1>0 DEF Nexts, Prevs
  <1>2. IsHead(hd2, F2)
    BY <1>b, <1>0, <1>a DEF IsHead, IsNext
  <1>3. ASSUME NEW x \in F2 PROVE IsNext(nx2[x], x, F2)
    <2>2. CASE x = pv[e]
      BY <1>b, <1>0, <1>a, <2>2 DEF IsPrev, IsNext
    <2>3. CASE x # pv[e]
      <3>1. IsNext(nx[x], x, F) /\ nx2[x] = nx[x]
        BY <1>b, <1>0, <2>3 DEF Nexts
      <3>2. nx[x] # e
        <4>1. x \in F
          BY <2>3
        <4>2. nx[x] = NULL \/ pv[nx[x]] = x
          BY <4>1, LinksAgree
        <4> QED BY <1>b, <2>3, <4>2
      <3> QED BY <1>b, <1>0, <3>1, <3>2 DEF IsNext
    <2> QED BY <2>2, <2>3
  <1>4. ASSUME NEW x \in F2 PROVE IsPrev(pv2[x], x, F2)
    <2>2. CASE x = nx[e]
      BY <1>b, <1>0, <1>a, <2>2 DEF IsPrev, IsNext
    <2>3. CASE x # nx[e]
      <3>1. IsPrev(pv[x], x, F) /\ pv2[x] = pv[x]
        BY <1>b, <1>0, <2>3 DEF Prevs
      <3>2. pv[x] # e
        <4>1. x \in F
          BY <2>3
        <4>2. pv[x] = NULL \/ nx[pv[x]] = x
          BY <4>1, LinksAgree
        <4> QED BY <1>b, <2>3, <4>2
      <3> QED BY <1>b, <1>0, <3>1, <3>2 DEF IsPrev
    <2> QED BY <2>2, <2>3
  <1> QED BY <1>b, <1>0, <1>2, <1>3, <1>4 DEF List, Addresses, Nexts, Prevs

\* e enters the list between p and n.
InsertLinks(F, nx, pv, hd, e, p, n, nx2, pv2, hd2) ==
  /\ nx2[e] = n /\ \A x \in F : nx2[x] = IF x = p THEN e ELSE nx[x]
  /\ pv2[e] = p /\ \A x \in F : pv2[x] = IF x = n THEN e ELSE pv[x]
  /\ hd2 = IF p = NULL THEN e ELSE hd

LEMMA ListInsert ==
    ASSUME NEW F, NEW nx, NEW pv, NEW hd, List(F, nx, pv, hd),
           NEW e \in Nat \ {NULL}, e \notin F, NEW p, NEW n, IsPrev(p, e, F), IsNext(n, e, F),
           NEW nx2, NEW pv2, NEW hd2, InsertLinks(F, nx, pv, hd, e, p, n, nx2, pv2, hd2)
    PROVE  List(F \cup {e}, nx2, pv2, hd2)
  <1> DEFINE F2 == F \cup {e}
  <1> USE DEF InsertLinks
  <1>0. Addresses(F) /\ IsHead(hd, F) /\ Nexts(F, nx) /\ Prevs(F, pv)
    BY DEF List
  <1>b. \A x \in F : x \in Nat /\ x # NULL
    BY <1>0 DEF Addresses
  <1>2. IsHead(hd2, F2)
    BY <1>b, <1>0 DEF IsHead, IsPrev
  <1>3. ASSUME NEW x \in F2 PROVE IsNext(nx2[x], x, F2)
    <2>1. CASE x = e
      BY <1>b, <1>0, <2>1 DEF IsNext
    <2>2. CASE x # e /\ x = p
      BY <1>b, <1>0, <2>2 DEF IsPrev, IsNext
    <2>3. CASE x # e /\ x # p
      <3>1. IsNext(nx[x], x, F) /\ nx2[x] = nx[x] /\ x \in F
        BY <1>b, <1>0, <2>3 DEF Nexts
      <3>2. CASE e < x
        BY <1>b, <1>0, <3>1, <3>2 DEF IsNext
      <3>3. CASE x < e
        <4>1. p \in F /\ x < p /\ p < e
          BY <1>b, <1>0, <2>3, <3>1, <3>3 DEF IsPrev
        <4>2. nx[x] \in F /\ x < nx[x] /\ nx[x] <= p
          BY <1>b, <1>0, <3>1, <4>1 DEF IsNext
        <4> QED BY <1>b, <1>0, <3>1, <4>1, <4>2 DEF IsNext
      <3> QED BY <1>b, <1>0, <2>3, <3>1, <3>2, <3>3
    <2> QED BY <2>1, <2>2, <2>3
  <1>4. ASSUME NEW x \in F2 PROVE IsPrev(pv2[x], x, F2)
    <2>1. CASE x = e
      BY <1>b, <1>0, <2>1 DEF IsPrev
    <2>2. CASE x # e /\ x = n
      BY <1>b, <1>0, <2>2 DEF IsPrev, IsNext
    <2>3. CASE x # e /\ x # n
      <3>1. IsPrev(pv[x], x, F) /\ pv2[x] = pv[x] /\ x \in F
        BY <1>b, <1>0, <2>3 DEF Prevs
      <3>2. CASE x < e
        BY <1>b, <1>0, <3>1, <3>2 DEF IsPrev
      <3>3. CASE e < x
        <4>1. n \in F /\ n < x /\ e < n
          BY <1>b, <1>0, <2>3, <3>1, <3>3 DEF IsNext
        <4>2. pv[x] \in F /\ pv[x] < x /\ n <= pv[x]
          BY <1>b, <1>0, <3>1, <4>1 DEF IsPrev
        <4> QED BY <1>b, <1>0, <3>1, <4>1, <4>2 DEF IsPrev
      <3> QED BY <1>b, <1>0, <2>3, <3>1, <3>2, <3>3
    <2> QED BY <2>1, <2>2, <2>3
  <1> QED BY <1>b, <1>0, <1>2, <1>3, <1>4 DEF List, Addresses, Nexts, Prevs

\* The list depends on the links of its members only.
LEMMA ListFrame ==
    ASSUME NEW F, NEW nx, NEW pv, NEW hd, List(F, nx, pv, hd), NEW nx2, NEW pv2,
           \A x \in F : nx2[x] = nx[x] /\ pv2[x] = pv[x]
    PROVE  List(F, nx2, pv2, hd)
  BY DEF List, Nexts, Prevs
-----------------------------------------------------------------------------
(* The footers: one per block, which repeats its size.                     *)

FootAt(e, sz) == e + ENTRY + sz[e]

Footers(B, sz, foot) == /\ DOMAIN foot = {FootAt(e, sz) : e \in B}
                        /\ \A e \in B : foot[FootAt(e, sz)] = sz[e]

LEMMA FootBeforeEnd ==
    ASSUME NEW B, NEW sz, NEW brk, TilingType(B, sz, brk), NEW e \in B
    PROVE  FootAt(e, sz) \in Nat /\ FootAt(e, sz) = EndOf(e, sz) - END /\ FootAt(e, sz) + END = EndOf(e, sz)
  BY Layout DEF EndOf, FootAt, TilingType

LEMMA FeetApart ==
    ASSUME NEW B, NEW sz, NEW brk, NEW final, Tiling(B, sz, brk, final),
           NEW e \in B, NEW f \in B, FootAt(e, sz) = FootAt(f, sz)
    PROVE  e = f
  <1>1. TilingType(B, sz, brk)
    BY DEF Tiling
  <1>2. EndOf(e, sz) = EndOf(f, sz)
    BY <1>1, FootBeforeEnd
  <1> QED BY <1>2, EndsApart

\* The footer of a block that is new or has a new size, at a place that is no other's.
SameFeet(B, sz, e, sz2) ==
  /\ \A x \in B : x # e => FootAt(x, sz2) = FootAt(x, sz) /\ sz2[x] = sz[x]
                           /\ FootAt(x, sz2) # FootAt(e, sz2)
  /\ e \in B => FootAt(e, sz) = FootAt(e, sz2)

LEMMA FootPut ==
    ASSUME NEW B, NEW sz, NEW foot, Footers(B, sz, foot), NEW e, NEW sz2,
           SameFeet(B, sz, e, sz2), NEW foot2, foot2 = A!With(foot, FootAt(e, sz2), sz2[e])
    PROVE  Footers(B \cup {e}, sz2, foot2)
  <1> USE DEF SameFeet
  <1>1. /\ DOMAIN foot = {FootAt(x, sz) : x \in B}
        /\ \A x \in B : foot[FootAt(x, sz)] = sz[x]
    BY DEF Footers
  <1>2. /\ DOMAIN foot2 = DOMAIN foot \cup {FootAt(e, sz2)} /\ foot2[FootAt(e, sz2)] = sz2[e]
        /\ \A x \in DOMAIN foot : x # FootAt(e, sz2) => foot2[x] = foot[x]
    BY DEF A!With
  <1>3. DOMAIN foot2 = {FootAt(x, sz2) : x \in B \cup {e}}
    BY <1>1, <1>2
  <1>4. \A x \in B \cup {e} : foot2[FootAt(x, sz2)] = sz2[x]
    BY <1>1, <1>2
  <1> QED BY <1>3, <1>4 DEF Footers

LEMMA FootExtend ==
    ASSUME NEW B, NEW sz, NEW brk, NEW final, Tiling(B, sz, brk, final), NEW s \in Nat,
           NEW sz2, sz2 \in [B \cup {brk} -> Nat], sz2[brk] = s, \A x \in B : sz2[x] = sz[x],
           NEW foot, Footers(B, sz, foot), NEW foot2, foot2 = A!With(foot, brk + ENTRY + s, s)
    PROVE  Footers(B \cup {brk}, sz2, foot2)
  <1>1. Tiling(B \cup {brk}, sz2, brk + ENTRY + s + END, brk)
    BY TileExtend
  <1>2. \A x \in B : FootAt(x, sz2) = FootAt(x, sz)
    BY DEF FootAt
  <1>3. FootAt(brk, sz2) = brk + ENTRY + s
    BY DEF FootAt
  <1>4. brk \notin B
    <2>1. TilingType(B, sz, brk) /\ Disjoint(B, sz, brk)
      BY DEF Tiling
    <2>2. ASSUME brk \in B PROVE FALSE
      <3>1. brk \in Nat /\ brk < EndOf(brk, sz) /\ EndOf(brk, sz) <= brk /\ EndOf(brk, sz) \in Nat
        BY <2>1, <2>2, EndBehind DEF Disjoint
      <3> QED BY <3>1
    <2> QED BY <2>2
  <1>5. \A x \in B : x # brk => FootAt(x, sz2) # FootAt(brk, sz2)
    BY <1>1, FeetApart
  <1>6. SameFeet(B, sz, brk, sz2)
    BY <1>2, <1>4, <1>5 DEF SameFeet
  <1> QED BY <1>3, <1>6, FootPut

SplitFeet(foot2, foot, e, s, new, sz2) ==
  foot2 = A!With(A!With(foot, new + ENTRY + sz2[new], sz2[new]), e + ENTRY + s, s)
MergeFeet(foot2, foot, b, g, sz2) == foot2 = A!Without(A!With(foot, b + ENTRY + sz2[b], sz2[b]), g - END)

LEMMA FootSplit ==
    ASSUME NEW B, NEW sz, NEW brk, NEW final, Tiling(B, sz, brk, final), NEW e, NEW s,
           NEW new, NEW sz2, SplitSizes(B, sz, e, s, new, sz2),
           NEW foot, Footers(B, sz, foot), NEW foot2, SplitFeet(foot2, foot, e, s, new, sz2)
    PROVE  Footers(B \cup {new}, sz2, foot2)
  <1> DEFINE final2 == IF final = e THEN new ELSE final
             B2 == B \cup {new}
             foot1 == A!With(foot, new + ENTRY + sz2[new], sz2[new])
  <1>s. e \in B /\ sz2[e] = s /\ \A x \in B : x # e => sz2[x] = sz[x]
    BY DEF SplitSizes
  <1>f. foot2 = A!With(foot1, e + ENTRY + s, s)
    BY DEF SplitFeet
  <1> USE <1>s, <1>f
  <1>1. Tiling(B2, sz2, brk, final2) /\ new \notin B
        /\ EndOf(e, sz2) = new /\ EndOf(new, sz2) = EndOf(e, sz)
    <2>1. Replaced(final2, final, e, new)
      BY DEF Replaced
    <2> HIDE DEF final2
    <2> QED BY ONLY Tiling(B, sz, brk, final), SplitSizes(B, sz, e, s, new, sz2), <2>1, TileSplit
  <1>2. TilingType(B, sz, brk) /\ TilingType(B2, sz2, brk)
    BY <1>1 DEF Tiling
  <1>3. FootAt(new, sz2) = FootAt(e, sz)
    <2>1. FootAt(new, sz2) = EndOf(new, sz2) - END
      BY <1>2, FootBeforeEnd
    <2>2. FootAt(e, sz) = EndOf(e, sz) - END
      BY <1>2, FootBeforeEnd
    <2> QED BY <1>1, <2>1, <2>2
  <1>4. FootAt(new, sz2) = new + ENTRY + sz2[new] /\ FootAt(e, sz2) = e + ENTRY + s
        /\ \A x \in B : x # e => FootAt(x, sz2) = FootAt(x, sz)
    BY DEF FootAt
  <1>5. \A x, y \in B2 : x # y => FootAt(x, sz2) # FootAt(y, sz2)
    BY <1>1, FeetApart
  <1>6. /\ DOMAIN foot = {FootAt(x, sz) : x \in B}
        /\ \A x \in B : foot[FootAt(x, sz)] = sz[x]
    BY DEF Footers
  <1>7. /\ DOMAIN foot1 = DOMAIN foot \cup {FootAt(new, sz2)} /\ foot1[FootAt(new, sz2)] = sz2[new]
        /\ \A x \in DOMAIN foot : x # FootAt(new, sz2) => foot1[x] = foot[x]
    BY <1>4 DEF A!With
  <1>8. /\ DOMAIN foot2 = DOMAIN foot1 \cup {FootAt(e, sz2)} /\ foot2[FootAt(e, sz2)] = sz2[e]
        /\ \A x \in DOMAIN foot1 : x # FootAt(e, sz2) => foot2[x] = foot1[x]
    BY <1>4 DEF A!With
  <1> HIDE DEF foot1
  <1>9. DOMAIN foot2 = {FootAt(x, sz2) : x \in B2}
    <2>1. DOMAIN foot1 = DOMAIN foot
      BY <1>3, <1>6, <1>7
    <2>2. ASSUME NEW y \in DOMAIN foot2 PROVE \E x \in B2 : y = FootAt(x, sz2)
      <3>1. CASE y = FootAt(e, sz2)
        BY <3>1
      <3>2. CASE y # FootAt(e, sz2)
        <4>1. PICK x \in B : y = FootAt(x, sz)
          BY <1>6, <1>8, <2>1, <3>2
        <4>2. y = FootAt(IF x = e THEN new ELSE x, sz2)
          BY <1>3, <1>4, <4>1
        <4> QED BY <4>2
      <3> QED BY <3>1, <3>2
    <2>3. ASSUME NEW x \in B2 PROVE FootAt(x, sz2) \in DOMAIN foot2
      BY <1>3, <1>4, <1>6, <1>7, <1>8
    <2> QED BY <2>2, <2>3
  <1>10. ASSUME NEW x \in B2 PROVE foot2[FootAt(x, sz2)] = sz2[x]
    <2>1. CASE x = e
      BY <1>8, <2>1
    <2>2. CASE x = new
      BY <1>1, <1>5, <1>7, <1>8, <2>2
    <2>3. CASE x # e /\ x # new
      <3>1. x \in B /\ FootAt(x, sz2) = FootAt(x, sz) /\ FootAt(x, sz) \in DOMAIN foot
        BY <1>4, <1>6, <2>3
      <3>2. FootAt(x, sz2) # FootAt(e, sz2) /\ FootAt(x, sz2) # FootAt(new, sz2)
        BY <1>5, <2>3
      <3> QED BY <1>6, <1>7, <1>8, <2>3, <3>1, <3>2
    <2> QED BY <2>1, <2>2, <2>3
  <1> QED BY <1>9, <1>10 DEF Footers

LEMMA FootMerge ==
    ASSUME NEW B, NEW sz, NEW brk, NEW final, Tiling(B, sz, brk, final), NEW b, NEW g,
           NEW sz2, MergeSizes(B, sz, b, g, sz2),
           NEW foot, Footers(B, sz, foot), NEW foot2, MergeFeet(foot2, foot, b, g, sz2)
    PROVE  Footers(B \ {g}, sz2, foot2)
  <1> DEFINE final2 == IF final = g THEN b ELSE final
             B2 == B \ {g}
             foot1 == A!With(foot, b + ENTRY + sz2[b], sz2[b])
  <1>s. b \in B /\ g \in B /\ EndOf(b, sz) = g /\ \A x \in B \ {g} : x # b => sz2[x] = sz[x]
    BY DEF MergeSizes
  <1>f. foot2 = A!Without(foot1, g - END)
    BY DEF MergeFeet
  <1> USE <1>s, <1>f
  <1>1. Tiling(B2, sz2, brk, final2) /\ b # g /\ EndOf(b, sz2) = EndOf(g, sz)
    <2>1. Replaced(final2, final, g, b)
      BY DEF Replaced
    <2> HIDE DEF final2
    <2> QED BY <2>1, TileMerge
  <1>2. TilingType(B, sz, brk) /\ TilingType(B2, sz2, brk)
    BY <1>1 DEF Tiling
  <1>3. FootAt(b, sz2) = FootAt(g, sz)
    <2>1. FootAt(b, sz2) = EndOf(b, sz2) - END
      BY <1>1, <1>2, FootBeforeEnd
    <2>2. FootAt(g, sz) = EndOf(g, sz) - END
      BY <1>2, FootBeforeEnd
    <2> QED BY <1>1, <2>1, <2>2
  <1>4. FootAt(b, sz2) = b + ENTRY + sz2[b]
        /\ \A x \in B2 : x # b => FootAt(x, sz2) = FootAt(x, sz)
    BY DEF FootAt
  <1>5. \A x, y \in B : x # y => FootAt(x, sz) # FootAt(y, sz)
    BY FeetApart
  <1>6. /\ DOMAIN foot = {FootAt(x, sz) : x \in B}
        /\ \A x \in B : foot[FootAt(x, sz)] = sz[x]
    BY DEF Footers
  <1>7. /\ DOMAIN foot1 = DOMAIN foot \cup {FootAt(b, sz2)} /\ foot1[FootAt(b, sz2)] = sz2[b]
        /\ \A x \in DOMAIN foot : x # FootAt(b, sz2) => foot1[x] = foot[x]
    BY <1>4 DEF A!With
  <1>8. g - END = FootAt(b, sz)
    BY <1>2, FootBeforeEnd
  <1>9. /\ DOMAIN foot2 = DOMAIN foot1 \ {FootAt(b, sz)}
        /\ \A x \in DOMAIN foot1 : x # FootAt(b, sz) => foot2[x] = foot1[x]
    BY <1>8 DEF A!Without
  <1> HIDE DEF foot1
  <1>10. DOMAIN foot2 = DOMAIN foot \ {FootAt(b, sz)}
    BY <1>3, <1>6, <1>7, <1>9
  <1>11. DOMAIN foot2 = {FootAt(x, sz2) : x \in B2}
    <2>2. ASSUME NEW y \in DOMAIN foot2 PROVE \E x \in B2 : y = FootAt(x, sz2)
      <3>1. PICK x \in B : y = FootAt(x, sz)
        BY <1>6, <1>10
      <3>2. x # b
        BY <1>10, <3>1
      <3>3. y = FootAt(IF x = g THEN b ELSE x, sz2)
        BY <1>3, <1>4, <3>1, <3>2
      <3> QED BY <1>1, <3>3
    <2>3. ASSUME NEW x \in B2 PROVE FootAt(x, sz2) \in DOMAIN foot2
      <3>1. CASE x = b
        BY <1>1, <1>3, <1>5, <1>6, <1>10, <3>1
      <3>2. CASE x # b
        BY <1>4, <1>5, <1>6, <1>10, <3>2
      <3> QED BY <3>1, <3>2
    <2> QED BY <2>2, <2>3
  <1>12. ASSUME NEW x \in B2 PROVE foot2[FootAt(x, sz2)] = sz2[x]
    <2>1. CASE x = b
      BY <1>1, <1>3, <1>5, <1>7, <1>9, <2>1
    <2>2. CASE x # b
      <3>1. FootAt(x, sz2) = FootAt(x, sz) /\ FootAt(x, sz) \in DOMAIN foot
        BY <1>4, <1>6, <2>2
      <3>2. FootAt(x, sz) # FootAt(b, sz) /\ FootAt(x, sz) # FootAt(b, sz2)
        BY <1>3, <1>5, <2>2
      <3> QED BY <1>6, <1>7, <1>9, <2>2, <3>1, <3>2
    <2> QED BY <2>1, <2>2
  <1> QED BY <1>11, <1>12 DEF Footers
-----------------------------------------------------------------------------
(* Alignment.                                                              *)

Aligned(x) == \E k \in Nat : x = k * ALIGN

LEMMA AlignedPlus ==
    ASSUME NEW x, NEW y, Aligned(x), Aligned(y)
    PROVE  Aligned(x + y)
  <1>1. PICK k \in Nat : x = k * ALIGN
    BY DEF Aligned
  <1>2. PICK j \in Nat : y = j * ALIGN
    BY DEF Aligned
  <1>3. k * ALIGN + j * ALIGN = (k + j) * ALIGN
    BY Layout
  <1> QED BY <1>1, <1>2, <1>3 DEF Aligned

LEMMA AlignedMinus ==
    ASSUME NEW x, NEW y, Aligned(x), Aligned(y), x - y \in Nat
    PROVE  Aligned(x - y)
  <1>1. PICK k \in Nat : x = k * ALIGN
    BY DEF Aligned
  <1>2. PICK j \in Nat : y = j * ALIGN
    BY DEF Aligned
  <1>3. k * ALIGN - j * ALIGN = (k - j) * ALIGN
    BY Layout
  <1>4. k >= j
    <2>1. ASSUME k < j PROVE FALSE
      <3>1. (k - j) * ALIGN < 0
        BY <2>1, Layout
      <3> QED BY <1>1, <1>2, <1>3, <3>1
    <2> QED BY <2>1
  <1>5. k - j \in Nat
    BY <1>4
  <1> QED BY <1>1, <1>2, <1>3, <1>5 DEF Aligned

LEMMA AlignedRest ==
    ASSUME NEW x, Aligned(x)
    PROVE  x \in Nat /\ x % ALIGN = 0
  <1>1. PICK k \in Nat : x = k * ALIGN
    BY DEF Aligned
  <1>2. k * ALIGN \in Nat
    BY Layout
  <1>3. (k * ALIGN) % ALIGN = 0
    BY Layout
  <1> QED BY <1>1, <1>2, <1>3

LEMMA Division ==
    ASSUME NEW x \in Nat
    PROVE  /\ x \div ALIGN \in Nat /\ (x \div ALIGN) * ALIGN \in Nat
           /\ (x \div ALIGN) * ALIGN <= x /\ x < (x \div ALIGN) * ALIGN + ALIGN
  BY Layout

LEMMA DivisionUnique ==
    ASSUME NEW k \in Nat, NEW r \in Nat, r < ALIGN
    PROVE  (k * ALIGN + r) \div ALIGN = k
  BY Layout

LEMMA RoundUpOf ==
    ASSUME NEW s \in Nat
    PROVE  /\ A!RoundUp(s) \in Nat /\ s <= A!RoundUp(s)
           /\ Aligned(A!RoundUp(s) + (ENTRY + END))
           /\ A!RoundUp(A!RoundUp(s)) = A!RoundUp(s)
  <1> DEFINE x == s + (ENTRY + END) + (ALIGN - 1)
             k == x \div ALIGN
             r == k * ALIGN - (ENTRY + END)
  <1>1. x \in Nat
    BY Layout
  <1>2. k \in Nat /\ k * ALIGN \in Nat /\ k * ALIGN <= x /\ x < k * ALIGN + ALIGN
    BY <1>1, Division
  <1>3. A!RoundUp(s) = r
    BY DEF A!RoundUp, A!Overhead
  <1> HIDE DEF k
  <1>4. r \in Nat /\ s <= r /\ r + (ENTRY + END) = k * ALIGN
    BY <1>2, Layout
  <1>5. Aligned(r + (ENTRY + END))
    BY <1>2, <1>4 DEF Aligned
  <1>6. (k * ALIGN + (ALIGN - 1)) \div ALIGN = k
    BY <1>2, DivisionUnique, Layout
  <1>7. A!RoundUp(r) = r
    <2>1. A!RoundUp(r) = ((r + (ENTRY + END) + (ALIGN - 1)) \div ALIGN) * ALIGN - (ENTRY + END)
      BY DEF A!RoundUp, A!Overhead
    <2> QED BY <1>4, <1>6, <2>1
  <1> QED BY <1>3, <1>4, <1>5, <1>7
-----------------------------------------------------------------------------
(* Walks along the list: each is a recursive function of the block it has  *)
(* reached.  There is such a function, and what it returns follows from    *)
(* the greatest block for which it would not.                              *)

LEMMA Lowest ==
    ASSUME NEW T, T \subseteq Nat, T # {}
    PROVE  \E i \in T : \A j \in T : i <= j
  <1>1. PICK less : /\ IsWellFoundedOn(less, Nat)
                    /\ \A x \in Nat : \A y \in Nat : x < y => <<x, y>> \in less
    BY LessThan
  <1>2. T \in SUBSET Nat
    OBVIOUS
  <1>3. PICK i \in T : \A j \in T : ~(<<j, i>> \in less)
    BY <1>1, <1>2, MinimalElement
  <1>4. \A j \in T : ~(j < i)
    BY <1>1, <1>2, <1>3
  <1> QED BY <1>2, <1>4

LEMMA Highest ==
    ASSUME NEW n \in Nat, NEW T, \A x \in T : x \in Nat /\ x <= n, T # {}
    PROVE  \E i \in T : \A j \in T : j <= i
  <1> DEFINE M == {m \in Nat : n - m \in T}
  <1>1. M \subseteq Nat /\ M # {}
    <2>1. PICK t \in T : TRUE
      OBVIOUS
    <2>2. n - t \in Nat /\ n - (n - t) = t
      BY <2>1
    <2> QED BY <2>1, <2>2
  <1>2. PICK m \in M : \A k \in M : m <= k
    BY <1>1, Lowest
  <1>3. ASSUME NEW j \in T PROVE j <= n - m
    <2>1. n - j \in Nat /\ n - (n - j) = j /\ j \in Nat
      OBVIOUS
    <2>2. m <= n - j
      BY <1>2, <2>1
    <2> QED BY <1>2, <2>1, <2>2
  <1> QED BY <1>2, <1>3

\* From p along the list to the first block of Stop.
Searches(f, B, nx, Stop) ==
  f = [p \in B \cup {NULL} |-> IF p = NULL THEN NULL ELSE IF p \in Stop THEN p ELSE f[nx[p]]]
Walks(f, B, nx, Stop) == f = [p \in B |-> IF p \in Stop THEN p ELSE f[nx[p]]]

LEMMA SearchExists ==
    ASSUME NEW F, NEW nx, NEW pv, NEW hd, List(F, nx, pv, hd), NEW B, F \subseteq B, NULL \notin B,
           \A x \in B \ F : nx[x] = NULL, NEW Stop
    PROVE  \E f : Searches(f, B, nx, Stop)
  <1> DEFINE Hits(p) == {q \in F : p < q /\ q \in Stop}
             Least(S) == CHOOSE q \in S : \A y \in S : q <= y
             Reach(p) == IF p \notin F \/ Hits(p) = {} THEN NULL ELSE Least(Hits(p))
             g == [p \in B \cup {NULL} |-> IF p = NULL THEN NULL ELSE IF p \in Stop THEN p ELSE Reach(p)]
  <1>0. \A x \in F : x \in Nat /\ x # NULL
    BY DEF List, Addresses
  <1>1. ASSUME NEW p \in B \ Stop PROVE nx[p] \in B \cup {NULL} /\ Reach(p) = g[nx[p]]
    <2>1. CASE p \notin F
      BY <2>1
    <2>2. CASE p \in F /\ nx[p] = NULL
      <3>1. IsNext(NULL, p, F)
        BY <2>2 DEF List, Nexts
      <3>2. Hits(p) = {}
        BY <1>0, <2>2, <3>1 DEF IsNext
      <3> QED BY <2>2, <3>2
    <2>3. CASE p \in F /\ nx[p] # NULL
      <3> DEFINE n == nx[p]
      <3>1. n \in F /\ p < n /\ \A y \in F : y <= p \/ n <= y
        BY <2>3 DEF List, Nexts, IsNext
      <3> HIDE DEF n
      <3>2. CASE n \in Stop
        <4>1. n \in Hits(p) /\ \A y \in Hits(p) : n <= y
          BY <1>0, <2>3, <3>1, <3>2
        <4>2. \A q \in Hits(p) : (\A y \in Hits(p) : q <= y) => q = n
          BY <1>0, <4>1
        <4>3. Least(Hits(p)) = n
          BY <4>1, <4>2
        <4>4. g[n] = n
          BY <1>0, <3>1, <3>2
        <4> QED BY <2>3, <3>1, <4>1, <4>3, <4>4 DEF n
      <3>3. CASE n \notin Stop
        <4>1. Hits(p) = Hits(n)
          BY <1>0, <2>3, <3>1, <3>3
        <4>2. g[n] = Reach(n)
          BY <1>0, <3>1, <3>3
        <4>3. Reach(p) = Reach(n)
          <5> HIDE DEF Hits, Least
          <5> QED BY <2>3, <3>1, <4>1
        <4> QED BY <3>1, <4>2, <4>3 DEF n
      <3> QED BY <3>2, <3>3
    <2> QED BY <2>1, <2>2, <2>3
  <1> HIDE DEF Reach
  <1>2. g = [p \in B \cup {NULL} |-> IF p = NULL THEN NULL ELSE IF p \in Stop THEN p ELSE g[nx[p]]]
    BY <1>1
  <1> HIDE DEF g
  <1> QED BY <1>2 DEF Searches

LEMMA WalkExists ==
    ASSUME NEW F, NEW nx, NEW pv, NEW hd, List(F, nx, pv, hd), NEW B, F \subseteq B, NULL \notin B,
           \A x \in B \ F : nx[x] = NULL, NEW Stop, \A x \in B : nx[x] = NULL => x \in Stop
    PROVE  \E f : Walks(f, B, nx, Stop)
  <1>1. PICK g : Searches(g, B, nx, Stop)
    BY SearchExists
  <1> DEFINE f == [p \in B |-> g[p]]
  <1>2. ASSUME NEW p \in B \ Stop PROVE nx[p] \in B
    <2>1. nx[p] # NULL /\ p \in F
      OBVIOUS
    <2>2. nx[p] \in F
      BY <2>1, LinksAgree
    <2> QED BY <2>2
  <1>3. \A p \in B : g[p] = IF p \in Stop THEN p ELSE g[nx[p]]
    BY <1>1 DEF Searches
  <1>4. f = [p \in B |-> IF p \in Stop THEN p ELSE f[nx[p]]]
    BY <1>2, <1>3
  <1> QED BY <1>4 DEF Walks

LEMMA SearchFinds ==
    ASSUME NEW F, NEW nx, NEW pv, NEW hd, List(F, nx, pv, hd), NEW B, F \subseteq B,
           NEW top \in Nat, \A x \in F : x <= top, NEW Stop, NEW f, Searches(f, B, nx, Stop)
    PROVE  f[hd] = NULL \/ f[hd] \in F \cap Stop
  <1> DEFINE Bad == {p \in F : ~(f[p] = NULL \/ f[p] \in F \cap Stop)}
  <1>0. \A x \in F : x \in Nat /\ x # NULL
    BY DEF List, Addresses
  <1>1. /\ f[NULL] = NULL
        /\ \A p \in F : f[p] = IF p \in Stop THEN p ELSE f[nx[p]]
    BY <1>0 DEF Searches
  <1>2. ASSUME Bad # {} PROVE FALSE
    <2>1. PICK p \in Bad : \A q \in Bad : q <= p
      BY <1>0, <1>2, Highest
    <2>2. p \notin Stop /\ f[p] = f[nx[p]]
      BY <1>1
    <2>3. nx[p] # NULL
      BY <1>1, <2>2
    <2>4. nx[p] \in F /\ p < nx[p]
      BY <2>3 DEF List, Nexts, IsNext
    <2>5. nx[p] \notin Bad
      BY <1>0, <2>1, <2>4
    <2> QED BY <2>2, <2>4, <2>5
  <1>3. hd = NULL \/ hd \in F
    BY DEF List, IsHead
  <1> QED BY <1>1, <1>2, <1>3

\* The walk of an insertion ends at the first block behind e, or at the last one.
WalkStops(F, nx, Stop, e) == \A x \in F \ Stop : x < e /\ nx[x] # NULL
WalkBound(F, top) == top \in Nat /\ \A x \in F : x <= top
WalkedTo(w, F, pv, Stop, e) == w \in F \cap Stop /\ (pv[w] = NULL \/ pv[w] < e)

LEMMA WalkFinds ==
    ASSUME NEW F, NEW nx, NEW pv, NEW hd, List(F, nx, pv, hd), NEW B, F \subseteq B,
           NEW top, WalkBound(F, top), NEW Stop, NEW f, Walks(f, B, nx, Stop),
           NEW e \in Nat, WalkStops(F, nx, Stop, e), hd # NULL
    PROVE  WalkedTo(f[hd], F, pv, Stop, e)
  <1> DEFINE Before(p) == pv[p] = NULL \/ pv[p] < e
             Bad == {p \in F : Before(p) /\ ~(f[p] \in F \cap Stop /\ Before(f[p]))}
  <1>a. top \in Nat /\ \A x \in F : x <= top
    BY DEF WalkBound
  <1>b. \A x \in F \ Stop : x < e /\ nx[x] # NULL
    BY DEF WalkStops
  <1>0. \A x \in F : x \in Nat /\ x # NULL
    BY DEF List, Addresses
  <1>1. \A p \in F : f[p] = IF p \in Stop THEN p ELSE f[nx[p]]
    BY DEF Walks
  <1>2. ASSUME Bad # {} PROVE FALSE
    <2>1. PICK p \in Bad : \A q \in Bad : q <= p
      BY <1>0, <1>2, <1>a, Highest
    <2>2. p \notin Stop /\ f[p] = f[nx[p]]
      BY <1>1
    <2>3. p < e /\ nx[p] # NULL
      BY <1>b, <2>2
    <2>4. nx[p] \in F /\ p < nx[p] /\ pv[nx[p]] = p
      BY <2>3, LinksAgree
    <2>5. Before(nx[p])
      BY <2>3, <2>4
    <2>6. nx[p] \notin Bad
      BY <1>0, <2>1, <2>4
    <2> QED BY <2>2, <2>4, <2>5, <2>6
  <1>3. hd \in F
    BY DEF List, IsHead
  <1>4. Before(hd)
    BY <1>3, LinksAgree
  <1>5. f[hd] \in F \cap Stop /\ Before(f[hd])
    BY <1>2, <1>3, <1>4
  <1> QED BY <1>5 DEF WalkedTo
-----------------------------------------------------------------------------
(* What a heap has: its blocks, their sizes and links, and the free ones.  *)

Bl(h) == DOMAIN h.hdr
Sz(h) == [e \in Bl(h) |-> h.hdr[e].size]
Nx(h) == [e \in Bl(h) |-> h.hdr[e].next]
Pv(h) == [e \in Bl(h) |-> h.hdr[e].prev]
Fr(h) == {e \in Bl(h) : h.hdr[e].free}
Used(h) == Bl(h) \ Fr(h)

Header == [size : Nat, free : BOOLEAN, prev : Nat, next : Nat]
HeapType(h) ==
  /\ h = [hdr |-> h.hdr, foot |-> h.foot, head |-> h.head, start |-> h.start,
          final |-> h.final, brk |-> h.brk]
  /\ h.hdr \in [Bl(h) -> Header]
  /\ Bl(h) \subseteq Nat \ {NULL}

\* Nothing but headers differs.
SameRest(h2, h) == /\ h2.head = h.head /\ h2.start = h.start
                   /\ h2.final = h.final /\ h2.brk = h.brk

LEMMA Fields ==
    ASSUME NEW h, HeapType(h)
    PROVE  /\ Sz(h) \in [Bl(h) -> Nat] /\ Nx(h) \in [Bl(h) -> Nat] /\ Pv(h) \in [Bl(h) -> Nat]
           /\ Fr(h) \subseteq Bl(h) /\ Bl(h) \subseteq Nat \ {NULL}
           /\ \A e \in Bl(h) : /\ h.hdr[e].size = Sz(h)[e] /\ h.hdr[e].next = Nx(h)[e]
                               /\ h.hdr[e].prev = Pv(h)[e] /\ (h.hdr[e].free <=> e \in Fr(h))
  BY DEF HeapType, Sz, Nx, Pv, Fr, Header

\* A heap with other headers and footers.
HeapWith(h, hdr2, foot2) == [h EXCEPT !.hdr = hdr2, !.foot = foot2]
HeadersAre(h2, h, D, hdr2, foot2) ==
  HeapType(h2) /\ Bl(h2) = D /\ h2.hdr = hdr2 /\ h2.foot = foot2 /\ SameRest(h2, h)

LEMMA HeadersPut ==
    ASSUME NEW h, HeapType(h), NEW hdr2, NEW D, D \subseteq Nat \ {NULL}, hdr2 \in [D -> Header], NEW foot2
    PROVE  HeadersAre(HeapWith(h, hdr2, foot2), h, D, hdr2, foot2)
  <1> SUFFICES ASSUME NEW h2, h2 = HeapWith(h, hdr2, foot2)
               PROVE  HeadersAre(h2, h, D, hdr2, foot2)
    OBVIOUS
  <1>1. h2 = [hdr |-> hdr2, foot |-> foot2, head |-> h.head, start |-> h.start,
              final |-> h.final, brk |-> h.brk]
    BY DEF HeapType, HeapWith
  <1>2. HeapType(h2) /\ Bl(h2) = D /\ h2.hdr = hdr2 /\ h2.foot = foot2 /\ SameRest(h2, h)
    BY <1>1 DEF HeapType, SameRest, Bl
  <1> QED BY <1>2 DEF HeadersAre

\* One header is written, and its footer.
PutIs(h2, h, e, size, prev, next, F2) ==
  /\ HeapType(h2) /\ Bl(h2) = Bl(h) \cup {e} /\ SameRest(h2, h)
  /\ h2.foot = A!With(h.foot, e + ENTRY + size, size)
  /\ Sz(h2)[e] = size /\ Nx(h2)[e] = next /\ Pv(h2)[e] = prev /\ Fr(h2) = F2
  /\ \A x \in Bl(h) \ {e} : Sz(h2)[x] = Sz(h)[x] /\ Nx(h2)[x] = Nx(h)[x] /\ Pv(h2)[x] = Pv(h)[x]

LEMMA HeaderPut ==
    ASSUME NEW h, HeapType(h), NEW e \in Nat \ {NULL}, NEW r \in Header, NEW foot2
    PROVE  HeadersAre(HeapWith(h, A!With(h.hdr, e, r), foot2), h, Bl(h) \cup {e},
                      [x \in Bl(h) \cup {e} |-> IF x = e THEN r ELSE h.hdr[x]], foot2)
  <1> DEFINE hdr2 == A!With(h.hdr, e, r)
  <1>1. hdr2 = [x \in Bl(h) \cup {e} |-> IF x = e THEN r ELSE h.hdr[x]]
    BY DEF A!With, Bl
  <1>2. hdr2 \in [Bl(h) \cup {e} -> Header] /\ Bl(h) \cup {e} \subseteq Nat \ {NULL}
    BY <1>1 DEF HeapType
  <1> HIDE DEF hdr2
  <1>3. HeadersAre(HeapWith(h, hdr2, foot2), h, Bl(h) \cup {e}, hdr2, foot2)
    BY <1>2, HeadersPut
  <1> QED BY <1>1, <1>3 DEF hdr2

LEMMA PutUsed ==
    ASSUME NEW h, HeapType(h), NEW e \in Nat \ {NULL}, NEW size \in Nat,
           NEW prev \in Nat, NEW next \in Nat
    PROVE  PutIs(A!PutBlock(h, e, size, FALSE, prev, next), h, e, size, prev, next, Fr(h) \ {e})
  <1> DEFINE r == [size |-> size, free |-> FALSE, prev |-> prev, next |-> next]
             foot2 == A!With(h.foot, e + ENTRY + size, size)
             h2 == A!PutBlock(h, e, size, FALSE, prev, next)
             hdr2 == [x \in Bl(h) \cup {e} |-> IF x = e THEN r ELSE h.hdr[x]]
  <1>1. h2 = HeapWith(h, A!With(h.hdr, e, r), foot2)
    BY DEF A!PutBlock, HeapType, HeapWith
  <1>2. r \in Header
    BY DEF Header
  <1>3. r.size = size /\ r.prev = prev /\ r.next = next
    OBVIOUS
  <1>4. r.free = FALSE
    OBVIOUS
  <1> HIDE DEF r, foot2, h2
  <1>5. HeadersAre(h2, h, Bl(h) \cup {e}, hdr2, foot2)
    BY <1>1, <1>2, HeaderPut
  <1>6. /\ HeapType(h2) /\ Bl(h2) = Bl(h) \cup {e} /\ h2.foot = foot2 /\ SameRest(h2, h)
        /\ h2.hdr[e] = r /\ \A x \in Bl(h) \ {e} : h2.hdr[x] = h.hdr[x]
    BY <1>5 DEF HeadersAre
  <1>7. Fr(h2) = Fr(h) \ {e}
    BY <1>4, <1>6 DEF Fr
  <1>8. Sz(h2)[e] = size /\ Nx(h2)[e] = next /\ Pv(h2)[e] = prev
    BY <1>3, <1>6 DEF Sz, Nx, Pv
  <1>9. \A x \in Bl(h) \ {e} : Sz(h2)[x] = Sz(h)[x] /\ Nx(h2)[x] = Nx(h)[x] /\ Pv(h2)[x] = Pv(h)[x]
    BY <1>6 DEF Sz, Nx, Pv
  <1>10. PutIs(h2, h, e, size, prev, next, Fr(h) \ {e})
    BY <1>6, <1>7, <1>8, <1>9 DEF PutIs, foot2
  <1> QED BY <1>10 DEF h2

LEMMA PutFree ==
    ASSUME NEW h, HeapType(h), NEW e \in Nat \ {NULL}, NEW size \in Nat,
           NEW prev \in Nat, NEW next \in Nat
    PROVE  PutIs(A!PutBlock(h, e, size, TRUE, prev, next), h, e, size, prev, next, Fr(h) \cup {e})
  <1> DEFINE r == [size |-> size, free |-> TRUE, prev |-> prev, next |-> next]
             foot2 == A!With(h.foot, e + ENTRY + size, size)
             h2 == A!PutBlock(h, e, size, TRUE, prev, next)
             hdr2 == [x \in Bl(h) \cup {e} |-> IF x = e THEN r ELSE h.hdr[x]]
  <1>1. h2 = HeapWith(h, A!With(h.hdr, e, r), foot2)
    BY DEF A!PutBlock, HeapType, HeapWith
  <1>2. r \in Header
    BY DEF Header
  <1>3. r.size = size /\ r.prev = prev /\ r.next = next
    OBVIOUS
  <1>4. r.free = TRUE
    OBVIOUS
  <1> HIDE DEF r, foot2, h2
  <1>5. HeadersAre(h2, h, Bl(h) \cup {e}, hdr2, foot2)
    BY <1>1, <1>2, HeaderPut
  <1>6. /\ HeapType(h2) /\ Bl(h2) = Bl(h) \cup {e} /\ h2.foot = foot2 /\ SameRest(h2, h)
        /\ h2.hdr[e] = r /\ \A x \in Bl(h) \ {e} : h2.hdr[x] = h.hdr[x]
    BY <1>5 DEF HeadersAre
  <1>7. Fr(h2) = Fr(h) \cup {e}
    BY <1>4, <1>6 DEF Fr
  <1>8. Sz(h2)[e] = size /\ Nx(h2)[e] = next /\ Pv(h2)[e] = prev
    BY <1>3, <1>6 DEF Sz, Nx, Pv
  <1>9. \A x \in Bl(h) \ {e} : Sz(h2)[x] = Sz(h)[x] /\ Nx(h2)[x] = Nx(h)[x] /\ Pv(h2)[x] = Pv(h)[x]
    BY <1>6 DEF Sz, Nx, Pv
  <1>10. PutIs(h2, h, e, size, prev, next, Fr(h) \cup {e})
    BY <1>6, <1>7, <1>8, <1>9 DEF PutIs, foot2
  <1> QED BY <1>10 DEF h2

\* One header is changed.
HeapWithHeader(h, e, r) == [h EXCEPT !.hdr = [h.hdr EXCEPT ![e] = r]]
HeaderIs(h2, h, e, r) ==
  /\ HeapType(h2) /\ Bl(h2) = Bl(h) /\ SameRest(h2, h) /\ h2.foot = h.foot
  /\ h2.hdr[e] = r /\ \A x \in Bl(h) \ {e} : h2.hdr[x] = h.hdr[x]

LEMMA HeaderChange ==
    ASSUME NEW h, HeapType(h), NEW e \in Bl(h), NEW r \in Header
    PROVE  HeaderIs(HeapWithHeader(h, e, r), h, e, r)
  <1> DEFINE hdr2 == [h.hdr EXCEPT ![e] = r]
             h2 == HeapWithHeader(h, e, r)
  <1>1. hdr2 \in [Bl(h) -> Header] /\ Bl(h) \subseteq Nat \ {NULL}
        /\ hdr2[e] = r /\ \A x \in Bl(h) \ {e} : hdr2[x] = h.hdr[x]
    BY DEF HeapType
  <1>2. h2 = HeapWith(h, hdr2, h.foot)
    BY DEF HeapType, HeapWith, HeapWithHeader
  <1> HIDE DEF hdr2, h2
  <1>3. HeadersAre(h2, h, Bl(h), hdr2, h.foot)
    BY <1>1, <1>2, HeadersPut
  <1>4. HeaderIs(h2, h, e, r)
    BY <1>1, <1>3 DEF HeadersAre, HeaderIs
  <1> QED BY <1>4 DEF h2

\* The links of p and n are set to a and b.
LinkIs(h2, h, p, a, n, b) ==
  /\ HeapType(h2) /\ Bl(h2) = Bl(h) /\ Fr(h2) = Fr(h) /\ SameRest(h2, h) /\ h2.foot = h.foot
  /\ \A x \in Bl(h) : /\ Sz(h2)[x] = Sz(h)[x]
                      /\ Nx(h2)[x] = IF x = p THEN a ELSE Nx(h)[x]
                      /\ Pv(h2)[x] = IF x = n THEN b ELSE Pv(h)[x]

LEMMA SetNextEffect ==
    ASSUME NEW h, HeapType(h), NEW p, p = NULL \/ p \in Bl(h), NEW v \in Nat
    PROVE  LinkIs(A!SetNext(h, p, v), h, p, v, NULL, NULL)
  <1> DEFINE h2 == A!SetNext(h, p, v)
  <1>0. \A x \in Bl(h) : x # NULL
    BY DEF HeapType
  <1>1. CASE p = NULL
    <2>1. h2 = h
      BY <1>1 DEF A!SetNext, A!NULL
    <2> HIDE DEF h2
    <2>2. LinkIs(h2, h, p, v, NULL, NULL)
      BY <1>0, <1>1, <2>1 DEF SameRest, LinkIs
    <2> QED BY <2>2 DEF h2
  <1>2. CASE p # NULL
    <2> DEFINE r == [h.hdr[p] EXCEPT !.next = v]
    <2>1. h.hdr[p] \in Header
      BY <1>2 DEF HeapType
    <2>2. r \in Header /\ r.size = h.hdr[p].size /\ r.prev = h.hdr[p].prev /\ r.next = v
      BY <2>1 DEF Header
    <2>3. r.free = h.hdr[p].free
      BY <2>1 DEF Header
    <2>4. h2 = HeapWithHeader(h, p, r)
      BY <1>2 DEF HeapWithHeader, A!SetNext, A!NULL, HeapType
    <2> HIDE DEF r, h2
    <2>5. HeaderIs(h2, h, p, r)
      BY <1>2, <2>2, <2>4, HeaderChange
    <2>6. /\ HeapType(h2) /\ Bl(h2) = Bl(h) /\ SameRest(h2, h) /\ h2.foot = h.foot
          /\ h2.hdr[p] = r /\ \A x \in Bl(h) \ {p} : h2.hdr[x] = h.hdr[x]
      BY <2>5 DEF HeaderIs
    <2>7. \A x \in Bl(h) : h2.hdr[x].free = h.hdr[x].free
      BY <2>3, <2>6
    <2>8. Fr(h2) = Fr(h)
      BY <2>6, <2>7 DEF Fr
    <2>9. \A x \in Bl(h) : /\ Sz(h2)[x] = Sz(h)[x] /\ Pv(h2)[x] = Pv(h)[x]
                           /\ Nx(h2)[x] = IF x = p THEN v ELSE Nx(h)[x]
      BY <2>2, <2>6 DEF Sz, Pv, Nx
    <2>10. LinkIs(h2, h, p, v, NULL, NULL)
      BY <1>0, <2>6, <2>8, <2>9 DEF LinkIs
    <2> QED BY <2>10 DEF h2
  <1> QED BY <1>1, <1>2

LEMMA SetPrevEffect ==
    ASSUME NEW h, HeapType(h), NEW p, p = NULL \/ p \in Bl(h), NEW v \in Nat
    PROVE  LinkIs(A!SetPrev(h, p, v), h, NULL, NULL, p, v)
  <1> DEFINE h2 == A!SetPrev(h, p, v)
  <1>0. \A x \in Bl(h) : x # NULL
    BY DEF HeapType
  <1>1. CASE p = NULL
    <2>1. h2 = h
      BY <1>1 DEF A!SetPrev, A!NULL
    <2> HIDE DEF h2
    <2>2. LinkIs(h2, h, NULL, NULL, p, v)
      BY <1>0, <1>1, <2>1 DEF SameRest, LinkIs
    <2> QED BY <2>2 DEF h2
  <1>2. CASE p # NULL
    <2> DEFINE r == [h.hdr[p] EXCEPT !.prev = v]
    <2>1. h.hdr[p] \in Header
      BY <1>2 DEF HeapType
    <2>2. r \in Header /\ r.size = h.hdr[p].size /\ r.next = h.hdr[p].next /\ r.prev = v
      BY <2>1 DEF Header
    <2>3. r.free = h.hdr[p].free
      BY <2>1 DEF Header
    <2>4. h2 = HeapWithHeader(h, p, r)
      BY <1>2 DEF HeapWithHeader, A!SetPrev, A!NULL, HeapType
    <2> HIDE DEF r, h2
    <2>5. HeaderIs(h2, h, p, r)
      BY <1>2, <2>2, <2>4, HeaderChange
    <2>6. /\ HeapType(h2) /\ Bl(h2) = Bl(h) /\ SameRest(h2, h) /\ h2.foot = h.foot
          /\ h2.hdr[p] = r /\ \A x \in Bl(h) \ {p} : h2.hdr[x] = h.hdr[x]
      BY <2>5 DEF HeaderIs
    <2>7. \A x \in Bl(h) : h2.hdr[x].free = h.hdr[x].free
      BY <2>3, <2>6
    <2>8. Fr(h2) = Fr(h)
      BY <2>6, <2>7 DEF Fr
    <2>9. \A x \in Bl(h) : /\ Sz(h2)[x] = Sz(h)[x] /\ Nx(h2)[x] = Nx(h)[x]
                           /\ Pv(h2)[x] = IF x = p THEN v ELSE Pv(h)[x]
      BY <2>2, <2>6 DEF Sz, Pv, Nx
    <2>10. LinkIs(h2, h, NULL, NULL, p, v)
      BY <1>0, <2>6, <2>8, <2>9 DEF LinkIs
    <2> QED BY <2>10 DEF h2
  <1> QED BY <1>1, <1>2

LEMMA LinkEffect ==
    ASSUME NEW h, HeapType(h), NEW p, p = NULL \/ p \in Bl(h), NEW n, n = NULL \/ n \in Bl(h),
           NEW a \in Nat, NEW b \in Nat
    PROVE  LinkIs(A!SetPrev(A!SetNext(h, p, a), n, b), h, p, a, n, b)
  <1> DEFINE h1 == A!SetNext(h, p, a)
             h2 == A!SetPrev(h1, n, b)
  <1>0. \A x \in Bl(h) : x # NULL
    BY DEF HeapType
  <1>1. LinkIs(h1, h, p, a, NULL, NULL)
    BY SetNextEffect
  <1> HIDE DEF h1
  <1>2. HeapType(h1) /\ (n = NULL \/ n \in Bl(h1))
    BY <1>1 DEF LinkIs
  <1>3. LinkIs(h2, h1, NULL, NULL, n, b)
    BY <1>2, SetPrevEffect
  <1> HIDE DEF h2
  <1>4. LinkIs(h2, h, p, a, n, b)
    <2>1. /\ HeapType(h2) /\ Bl(h2) = Bl(h) /\ Fr(h2) = Fr(h) /\ SameRest(h2, h) /\ h2.foot = h.foot
      BY <1>1, <1>3 DEF LinkIs, SameRest
    <2>2. ASSUME NEW x \in Bl(h)
          PROVE  /\ Sz(h2)[x] = Sz(h)[x]
                 /\ Nx(h2)[x] = IF x = p THEN a ELSE Nx(h)[x]
                 /\ Pv(h2)[x] = IF x = n THEN b ELSE Pv(h)[x]
      <3>1. x # NULL /\ x \in Bl(h1)
        BY <1>0, <1>1 DEF LinkIs
      <3>2. /\ Sz(h2)[x] = Sz(h1)[x] /\ Nx(h2)[x] = Nx(h1)[x]
            /\ Pv(h2)[x] = IF x = n THEN b ELSE Pv(h1)[x]
        BY <1>3, <3>1 DEF LinkIs
      <3>3. /\ Sz(h1)[x] = Sz(h)[x] /\ Pv(h1)[x] = Pv(h)[x]
            /\ Nx(h1)[x] = IF x = p THEN a ELSE Nx(h)[x]
        BY <1>1, <3>1 DEF LinkIs
      <3> QED BY <3>2, <3>3
    <2> QED BY <2>1, <2>2 DEF LinkIs
  <1> QED BY <1>4 DEF h1, h2

\* Line 200.
MarkFree(h, e) == [h EXCEPT !.hdr[e].free = TRUE]
FreedIs(h2, h, e) ==
  /\ HeapType(h2) /\ Bl(h2) = Bl(h) /\ SameRest(h2, h) /\ h2.foot = h.foot
  /\ Fr(h2) = Fr(h) \cup {e}
  /\ \A x \in Bl(h) : Sz(h2)[x] = Sz(h)[x] /\ Nx(h2)[x] = Nx(h)[x] /\ Pv(h2)[x] = Pv(h)[x]

LEMMA FreeEffect ==
    ASSUME NEW h, HeapType(h), NEW e \in Bl(h)
    PROVE  FreedIs(MarkFree(h, e), h, e)
  <1> DEFINE r == [h.hdr[e] EXCEPT !.free = TRUE]
             h2 == MarkFree(h, e)
  <1>1. h.hdr[e] \in Header
    BY DEF HeapType
  <1>2. r \in Header /\ r.size = h.hdr[e].size /\ r.next = h.hdr[e].next /\ r.prev = h.hdr[e].prev
    BY <1>1 DEF Header
  <1>3. r.free = TRUE
    BY <1>1 DEF Header
  <1>4. h2 = HeapWithHeader(h, e, r)
    BY DEF MarkFree, HeapWithHeader, HeapType
  <1> HIDE DEF r, h2
  <1>5. HeaderIs(h2, h, e, r)
    BY <1>2, <1>4, HeaderChange
  <1>6. /\ HeapType(h2) /\ Bl(h2) = Bl(h) /\ SameRest(h2, h) /\ h2.foot = h.foot
        /\ h2.hdr[e] = r /\ \A x \in Bl(h) \ {e} : h2.hdr[x] = h.hdr[x]
    BY <1>5 DEF HeaderIs
  <1>7. Fr(h2) = Fr(h) \cup {e}
    BY <1>3, <1>6 DEF Fr
  <1>8. \A x \in Bl(h) : Sz(h2)[x] = Sz(h)[x] /\ Nx(h2)[x] = Nx(h)[x] /\ Pv(h2)[x] = Pv(h)[x]
    BY <1>2, <1>6 DEF Sz, Pv, Nx
  <1>9. FreedIs(h2, h, e)
    BY <1>6, <1>7, <1>8 DEF FreedIs
  <1> QED BY <1>9 DEF h2

\* What is not in headers or footers.
HeapRest(h, hd, start, final, brk) ==
  [h EXCEPT !.head = hd, !.start = start, !.final = final, !.brk = brk]
RestIs(h2, h, hd, start, final, brk) ==
  /\ HeapType(h2) /\ Bl(h2) = Bl(h) /\ Fr(h2) = Fr(h) /\ h2.foot = h.foot
  /\ Sz(h2) = Sz(h) /\ Nx(h2) = Nx(h) /\ Pv(h2) = Pv(h)
  /\ h2.head = hd /\ h2.start = start /\ h2.final = final /\ h2.brk = brk

LEMMA RestEffect ==
    ASSUME NEW h, HeapType(h), NEW hd, NEW start, NEW final, NEW brk
    PROVE  RestIs(HeapRest(h, hd, start, final, brk), h, hd, start, final, brk)
  <1> SUFFICES ASSUME NEW h2, h2 = HeapRest(h, hd, start, final, brk)
               PROVE  RestIs(h2, h, hd, start, final, brk)
    OBVIOUS
  <1>1. h2 = [hdr |-> h.hdr, foot |-> h.foot, head |-> hd, start |-> start,
              final |-> final, brk |-> brk]
    BY DEF HeapType, HeapRest
  <1>2. h2.hdr = h.hdr /\ h2.foot = h.foot
        /\ h2.head = hd /\ h2.start = start /\ h2.final = final /\ h2.brk = brk
        /\ h2 = [hdr |-> h2.hdr, foot |-> h2.foot, head |-> h2.head, start |-> h2.start,
                 final |-> h2.final, brk |-> h2.brk]
    BY <1>1
  <1>3. Bl(h2) = Bl(h)
    BY <1>2 DEF Bl
  <1>5. Sz(h2) = Sz(h) /\ Nx(h2) = Nx(h) /\ Pv(h2) = Pv(h)
    BY <1>2, <1>3 DEF Sz, Nx, Pv
  <1>6. Fr(h2) = Fr(h)
    BY <1>2, <1>3 DEF Fr
  <1>7. HeapType(h2)
    BY <1>2, <1>3 DEF HeapType
  <1> QED BY <1>2, <1>3, <1>5, <1>6, <1>7 DEF RestIs
-----------------------------------------------------------------------------
(* What the operations of malloc change.                                   *)

ExtendedIs(h2, h, size) ==
  /\ HeapType(h2) /\ Bl(h2) = Bl(h) \cup {h.brk} /\ Fr(h2) = Fr(h)
  /\ h2.foot = A!With(h.foot, h.brk + ENTRY + size, size)
  /\ Sz(h2)[h.brk] = size /\ Nx(h2)[h.brk] = NULL /\ Pv(h2)[h.brk] = NULL
  /\ \A x \in Bl(h) : Sz(h2)[x] = Sz(h)[x] /\ Nx(h2)[x] = Nx(h)[x] /\ Pv(h2)[x] = Pv(h)[x]
  /\ h2.head = h.head /\ h2.start = (IF h.start = NULL THEN h.brk ELSE h.start)
  /\ h2.final = h.brk /\ h2.brk = h.brk + ENTRY + size + END

LEMMA ExtendEffect ==
    ASSUME NEW h, HeapType(h), NEW size \in Nat, h.brk \in Nat \ {NULL}, h.brk \notin Bl(h),
           ~(h.brk + A!Overhead + size > Limit)
    PROVE  ExtendedIs(A!Extend(h, size).heap, h, size) /\ A!Extend(h, size).ptr = h.brk + ENTRY
  <1> SUFFICES ASSUME NEW h2, h2 = A!Extend(h, size).heap
               PROVE  ExtendedIs(h2, h, size) /\ A!Extend(h, size).ptr = h.brk + ENTRY
    OBVIOUS
  <1> DEFINE h1 == A!PutBlock(h, h.brk, size, FALSE, NULL, NULL)
  <1>1. PutIs(h1, h, h.brk, size, NULL, NULL, Fr(h) \ {h.brk})
    BY PutUsed
  <1>2. h2 = [h1 EXCEPT !.start = IF @ = NULL THEN h.brk ELSE @, !.final = h.brk,
                        !.brk = @ + A!Overhead + size]
        /\ A!Extend(h, size).ptr = h.brk + ENTRY
    BY DEF A!Extend, A!NULL
  <1> HIDE DEF h1
  <1>3. HeapType(h1) /\ h1.head = h.head /\ h1.start = h.start /\ h1.final = h.final /\ h1.brk = h.brk
    BY <1>1 DEF PutIs, SameRest
  <1>4. h2 = HeapRest(h1, h.head, IF h.start = NULL THEN h.brk ELSE h.start, h.brk,
                      h.brk + A!Overhead + size)
    <2> DEFINE st == IF h.start = NULL THEN h.brk ELSE h.start
               br == h.brk + A!Overhead + size
    <2>1. h1 = [hdr |-> h1.hdr, foot |-> h1.foot, head |-> h.head, start |-> h.start,
                final |-> h.final, brk |-> h.brk]
      BY <1>3 DEF HeapType
    <2>2. h2 = [hdr |-> h1.hdr, foot |-> h1.foot, head |-> h.head, start |-> st,
                final |-> h.brk, brk |-> br]
      BY ONLY <1>2, <1>3, <2>1
    <2> HIDE DEF st, br
    <2>3. ASSUME NEW k, k = HeapRest(h1, h.head, st, h.brk, br)
          PROVE  k = h2
      <3>1. k = [h1 EXCEPT !.head = h.head, !.start = st, !.final = h.brk, !.brk = br]
        BY <2>3 DEF HeapRest
      <3>2. k = [hdr |-> h1.hdr, foot |-> h1.foot, head |-> h.head, start |-> st,
                 final |-> h.brk, brk |-> br]
        BY ONLY <2>1, <3>1
      <3> QED BY ONLY <2>2, <3>2
    <2>4. h2 = HeapRest(h1, h.head, st, h.brk, br)
      BY <2>3
    <2> QED BY <2>4 DEF st, br
  <1>5. Fr(h) \ {h.brk} = Fr(h) /\ Bl(h) \ {h.brk} = Bl(h)
    BY DEF Fr
  <1>6. h.brk + A!Overhead + size = h.brk + ENTRY + size + END
    BY Layout DEF A!Overhead
  <1>7. RestIs(h2, h1, h.head, IF h.start = NULL THEN h.brk ELSE h.start, h.brk,
               h.brk + A!Overhead + size)
    BY <1>3, <1>4, RestEffect
  <1>8. ExtendedIs(h2, h, size)
    BY ONLY <1>1, <1>5, <1>6, <1>7 DEF ExtendedIs, RestIs, PutIs
  <1> QED BY <1>2, <1>8

SplitIs(h2, h, e, size, new, p, n) ==
  /\ HeapType(h2) /\ Bl(h2) = Bl(h) \cup {new} /\ Fr(h2) = (Fr(h) \ {e}) \cup {new}
  /\ Sz(h2)[e] = size /\ Sz(h2)[new] = Sz(h)[e] - size - (ENTRY + END)
  /\ h2.foot = A!With(A!With(h.foot, new + ENTRY + Sz(h2)[new], Sz(h2)[new]), e + ENTRY + size, size)
  /\ Nx(h2)[new] = n /\ Pv(h2)[new] = p /\ Nx(h2)[e] = NULL /\ Pv(h2)[e] = NULL
  /\ \A x \in Bl(h) \ {e} : /\ Sz(h2)[x] = Sz(h)[x]
                            /\ Nx(h2)[x] = IF x = p THEN new ELSE Nx(h)[x]
                            /\ Pv(h2)[x] = IF x = n THEN new ELSE Pv(h)[x]
  /\ h2.head = (IF h.head = e THEN new ELSE h.head) /\ h2.start = h.start
  /\ h2.final = (IF h.final = e THEN new ELSE h.final) /\ h2.brk = h.brk

LEMMA SplitEffect ==
    ASSUME NEW h, HeapType(h), NEW e \in Bl(h), NEW size \in Nat,
           size + ENTRY + END <= Sz(h)[e], NEW new, new = e + ENTRY + size + END, new \notin Bl(h),
           NEW p, p = Pv(h)[e], p = NULL \/ p \in Bl(h) \ {e},
           NEW n, n = Nx(h)[e], n = NULL \/ n \in Bl(h) \ {e}
    PROVE  SplitIs(A!Split(h, e, size), h, e, size, new, p, n)
  <1> SUFFICES ASSUME NEW h2, h2 = A!Split(h, e, size)
               PROVE  SplitIs(h2, h, e, size, new, p, n)
    OBVIOUS
  <1> DEFINE rest == Sz(h)[e] - size - (ENTRY + END)
             h1 == A!PutBlock(h, new, rest, TRUE, p, n)
             h3 == A!PutBlock(h1, e, size, FALSE, NULL, NULL)
             h4 == A!SetPrev(A!SetNext(h3, p, new), n, new)
  <1>0. /\ Sz(h)[e] \in Nat /\ p \in Nat /\ n \in Nat /\ e \in Nat \ {NULL} /\ new \in Nat \ {NULL} /\ rest \in Nat
        /\ e # new
    BY Fields, Layout
  <1>1. h.hdr[e].size = Sz(h)[e] /\ h.hdr[e].prev = p /\ h.hdr[e].next = n
    BY Fields
  <1>2. h2 = [h4 EXCEPT !.final = IF @ = e THEN new ELSE @, !.head = IF @ = e THEN new ELSE @]
    BY <1>1 DEF A!Split, A!NULL, A!Overhead
  <1> HIDE DEF rest
  <1>3. PutIs(h1, h, new, rest, p, n, Fr(h) \cup {new})
    BY <1>0, PutFree
  <1> HIDE DEF h1
  <1>4. HeapType(h1) /\ Bl(h1) = Bl(h) \cup {new} /\ Fr(h1) = Fr(h) \cup {new}
    BY <1>3 DEF PutIs
  <1>5. PutIs(h3, h1, e, size, NULL, NULL, Fr(h1) \ {e})
    BY <1>0, <1>4, PutUsed
  <1> HIDE DEF h3
  <1>6. HeapType(h3) /\ Bl(h3) = Bl(h) \cup {new} /\ Fr(h3) = (Fr(h) \cup {new}) \ {e}
    BY <1>4, <1>5 DEF PutIs
  <1>7. (p = NULL \/ p \in Bl(h3)) /\ (n = NULL \/ n \in Bl(h3))
    BY <1>6
  <1>8. LinkIs(h4, h3, p, new, n, new)
    BY <1>0, <1>6, <1>7, LinkEffect
  <1> HIDE DEF h4
  <1>9. HeapType(h4) /\ Bl(h4) = Bl(h) \cup {new} /\ Fr(h4) = (Fr(h) \cup {new}) \ {e}
        /\ h4.foot = A!With(A!With(h.foot, new + ENTRY + rest, rest), e + ENTRY + size, size)
    BY <1>3, <1>5, <1>6, <1>8 DEF LinkIs, PutIs
  <1>10. h4.head = h.head /\ h4.start = h.start /\ h4.final = h.final /\ h4.brk = h.brk
    BY <1>3, <1>5, <1>8 DEF SameRest, LinkIs, PutIs
  <1>11. h2 = HeapRest(h4, IF h.head = e THEN new ELSE h.head, h.start,
                       IF h.final = e THEN new ELSE h.final, h.brk)
    <2> DEFINE hd == IF h.head = e THEN new ELSE h.head
               fn == IF h.final = e THEN new ELSE h.final
    <2>1. h4 = [hdr |-> h4.hdr, foot |-> h4.foot, head |-> h.head, start |-> h.start,
                final |-> h.final, brk |-> h.brk]
      BY ONLY <1>9, <1>10 DEF HeapType
    <2>2. h2 = [hdr |-> h4.hdr, foot |-> h4.foot, head |-> hd, start |-> h.start,
                final |-> fn, brk |-> h.brk]
      BY ONLY <1>2, <1>10, <2>1
    <2> HIDE DEF hd, fn
    <2>3. ASSUME NEW k, k = HeapRest(h4, hd, h.start, fn, h.brk)
          PROVE  k = h2
      <3>1. k = [h4 EXCEPT !.head = hd, !.start = h.start, !.final = fn, !.brk = h.brk]
        BY <2>3 DEF HeapRest
      <3>2. k = [hdr |-> h4.hdr, foot |-> h4.foot, head |-> hd, start |-> h.start,
                 final |-> fn, brk |-> h.brk]
        BY ONLY <2>1, <3>1
      <3> QED BY ONLY <2>2, <3>2
    <2>4. h2 = HeapRest(h4, hd, h.start, fn, h.brk)
      BY <2>3
    <2> QED BY <2>4 DEF hd, fn
  <1>12. RestIs(h2, h4, IF h.head = e THEN new ELSE h.head, h.start,
                IF h.final = e THEN new ELSE h.final, h.brk)
    BY <1>9, <1>11, RestEffect
  <1>13. p # e /\ n # e /\ p # new /\ n # new
    BY <1>0
  <1>14. /\ Sz(h4)[e] = size /\ Sz(h4)[new] = rest
         /\ Nx(h4)[new] = n /\ Pv(h4)[new] = p /\ Nx(h4)[e] = NULL /\ Pv(h4)[e] = NULL
    <2>1. Sz(h1)[new] = rest /\ Nx(h1)[new] = n /\ Pv(h1)[new] = p
      BY <1>3 DEF PutIs
    <2>2. Sz(h3)[new] = rest /\ Nx(h3)[new] = n /\ Pv(h3)[new] = p
          /\ Sz(h3)[e] = size /\ Nx(h3)[e] = NULL /\ Pv(h3)[e] = NULL
      BY <1>0, <1>4, <1>5, <2>1 DEF PutIs
    <2>3. new \in Bl(h3) /\ e \in Bl(h3)
      BY <1>6
    <2> QED BY <1>8, <1>13, <2>2, <2>3 DEF LinkIs
  <1>15. ASSUME NEW x \in Bl(h) \ {e}
         PROVE  /\ Sz(h4)[x] = Sz(h)[x]
                /\ Nx(h4)[x] = IF x = p THEN new ELSE Nx(h)[x]
                /\ Pv(h4)[x] = IF x = n THEN new ELSE Pv(h)[x]
    <2>1. x \in Bl(h) \ {new} /\ x \in Bl(h1) \ {e} /\ x \in Bl(h3)
      BY <1>4, <1>6
    <2>2. Sz(h1)[x] = Sz(h)[x] /\ Nx(h1)[x] = Nx(h)[x] /\ Pv(h1)[x] = Pv(h)[x]
      BY <1>3, <2>1 DEF PutIs
    <2>3. Sz(h3)[x] = Sz(h1)[x] /\ Nx(h3)[x] = Nx(h1)[x] /\ Pv(h3)[x] = Pv(h1)[x]
      BY <1>5, <2>1 DEF PutIs
    <2> QED BY <1>8, <2>1, <2>2, <2>3 DEF LinkIs
  <1>16. (Fr(h) \cup {new}) \ {e} = (Fr(h) \ {e}) \cup {new}
    BY <1>0
  <1>17. /\ HeapType(h2) /\ Bl(h2) = Bl(h) \cup {new} /\ Fr(h2) = (Fr(h) \ {e}) \cup {new}
         /\ h2.foot = A!With(A!With(h.foot, new + ENTRY + rest, rest), e + ENTRY + size, size)
         /\ Sz(h2) = Sz(h4) /\ Nx(h2) = Nx(h4) /\ Pv(h2) = Pv(h4)
         /\ h2.head = (IF h.head = e THEN new ELSE h.head) /\ h2.start = h.start
         /\ h2.final = (IF h.final = e THEN new ELSE h.final) /\ h2.brk = h.brk
    BY ONLY <1>9, <1>12, <1>16 DEF RestIs
  <1>18. rest = Sz(h)[e] - size - (ENTRY + END)
    BY DEF rest
  <1> QED BY ONLY <1>14, <1>15, <1>17, <1>18 DEF SplitIs

TakenIs(h2, h, e, p, n) ==
  /\ HeapType(h2) /\ Bl(h2) = Bl(h) /\ Fr(h2) = Fr(h) \ {e}
  /\ h2.foot = A!With(h.foot, e + ENTRY + Sz(h)[e], Sz(h)[e])
  /\ Nx(h2)[e] = NULL /\ Pv(h2)[e] = NULL
  /\ \A x \in Bl(h) : Sz(h2)[x] = Sz(h)[x]
  /\ \A x \in Bl(h) \ {e} : /\ Nx(h2)[x] = IF x = p THEN n ELSE Nx(h)[x]
                            /\ Pv(h2)[x] = IF x = n THEN p ELSE Pv(h)[x]
  /\ h2.head = (IF h.head = e THEN n ELSE h.head) /\ h2.start = h.start
  /\ h2.final = h.final /\ h2.brk = h.brk

LEMMA TakeEffect ==
    ASSUME NEW h, HeapType(h), NEW e \in Bl(h),
           NEW p, p = Pv(h)[e], p = NULL \/ p \in Bl(h) \ {e},
           NEW n, n = Nx(h)[e], n = NULL \/ n \in Bl(h) \ {e}
    PROVE  TakenIs(A!Take(h, e), h, e, p, n)
  <1> SUFFICES ASSUME NEW h2, h2 = A!Take(h, e)
               PROVE  TakenIs(h2, h, e, p, n)
    OBVIOUS
  <1> DEFINE s == Sz(h)[e]
             h1 == A!PutBlock(h, e, s, FALSE, NULL, NULL)
             h4 == A!SetPrev(A!SetNext(h1, p, n), n, p)
  <1>0. s \in Nat /\ p \in Nat /\ n \in Nat /\ e \in Nat \ {NULL}
    BY Fields
  <1>1. h.hdr[e].size = s /\ h.hdr[e].prev = p /\ h.hdr[e].next = n
    BY Fields
  <1>2. h2 = [h4 EXCEPT !.head = IF @ = e THEN n ELSE @]
    BY <1>1 DEF A!Take, A!NULL
  <1>3. PutIs(h1, h, e, s, NULL, NULL, Fr(h) \ {e})
    BY <1>0, PutUsed
  <1> HIDE DEF h1
  <1>4. HeapType(h1) /\ Bl(h1) = Bl(h) /\ Fr(h1) = Fr(h) \ {e}
    BY <1>3 DEF PutIs
  <1>5. (p = NULL \/ p \in Bl(h1)) /\ (n = NULL \/ n \in Bl(h1))
    BY <1>4
  <1>6. LinkIs(h4, h1, p, n, n, p)
    BY <1>0, <1>4, <1>5, LinkEffect
  <1> HIDE DEF h4
  <1>7. h4.head = h.head /\ h4.start = h.start /\ h4.final = h.final /\ h4.brk = h.brk /\ HeapType(h4)
        /\ h4.foot = A!With(h.foot, e + ENTRY + s, s)
    BY <1>3, <1>6 DEF SameRest, LinkIs, PutIs
  <1>8. h2 = HeapRest(h4, IF h.head = e THEN n ELSE h.head, h.start, h.final, h.brk)
    BY <1>2, <1>7 DEF HeapRest, HeapType
  <1>9. RestIs(h2, h4, IF h.head = e THEN n ELSE h.head, h.start, h.final, h.brk)
    BY <1>7, <1>8, RestEffect
  <1>11. p # e /\ n # e
    BY <1>0
  <1>12. Nx(h4)[e] = NULL /\ Pv(h4)[e] = NULL /\ Sz(h4)[e] = s
    <2>1. Nx(h1)[e] = NULL /\ Pv(h1)[e] = NULL /\ Sz(h1)[e] = s /\ e \in Bl(h1)
      BY <1>3, <1>4 DEF PutIs
    <2> QED BY <1>6, <1>11, <2>1 DEF LinkIs
  <1>13. ASSUME NEW x \in Bl(h) \ {e}
         PROVE  /\ Nx(h4)[x] = IF x = p THEN n ELSE Nx(h)[x]
                /\ Pv(h4)[x] = IF x = n THEN p ELSE Pv(h)[x]
                /\ Sz(h4)[x] = Sz(h)[x]
    <2>1. Sz(h1)[x] = Sz(h)[x] /\ Nx(h1)[x] = Nx(h)[x] /\ Pv(h1)[x] = Pv(h)[x] /\ x \in Bl(h1)
      BY <1>3, <1>4 DEF PutIs
    <2> QED BY <1>6, <2>1 DEF LinkIs
  <1>14. /\ HeapType(h2) /\ Bl(h2) = Bl(h) /\ Fr(h2) = Fr(h) \ {e}
         /\ h2.foot = A!With(h.foot, e + ENTRY + s, s)
         /\ Sz(h2) = Sz(h4) /\ Nx(h2) = Nx(h4) /\ Pv(h2) = Pv(h4)
         /\ h2.head = (IF h.head = e THEN n ELSE h.head) /\ h2.start = h.start
         /\ h2.final = h.final /\ h2.brk = h.brk
    BY ONLY <1>4, <1>6, <1>7, <1>9 DEF RestIs, LinkIs
  <1>15. \A x \in Bl(h) : Sz(h2)[x] = Sz(h)[x]
    BY <1>12, <1>13, <1>14
  <1> QED BY ONLY <1>12, <1>13, <1>14, <1>15 DEF TakenIs
-----------------------------------------------------------------------------
(* The inductive invariant of the heap.                                    *)

Tiled(h) == Tiling(Bl(h), Sz(h), h.brk, h.final)
Started(h) == (Bl(h) = {} => h.start = NULL) /\ (Bl(h) # {} => h.start = Base)
Footed(h) == Footers(Bl(h), Sz(h), h.foot)
ListLinked(h) == List(Fr(h), Nx(h), Pv(h), h.head)
\* A block in use is not linked.
Unlinked(h) == \A x \in Used(h) : Nx(h)[x] = NULL /\ Pv(h)[x] = NULL
Coalesced(h) == \A x \in Fr(h) : EndOf(x, Sz(h)) \notin Fr(h)
AlignedBlocks(h) == \A x \in Bl(h) : Aligned(x - Base) /\ Aligned(Sz(h)[x] + (ENTRY + END))

Good(h) == /\ HeapType(h) /\ Tiled(h) /\ Started(h) /\ Footed(h)
           /\ ListLinked(h) /\ Unlinked(h) /\ Coalesced(h) /\ AlignedBlocks(h)

LEMMA GoodNumbers ==
    ASSUME NEW h, Good(h)
    PROVE  /\ h.brk \in Nat /\ Base <= h.brk /\ h.brk \notin Bl(h)
           /\ \A x \in Bl(h) : /\ x \in Nat /\ x # NULL /\ Base <= x /\ Sz(h)[x] \in Nat
                               /\ EndOf(x, Sz(h)) \in Nat /\ x < EndOf(x, Sz(h))
                               /\ EndOf(x, Sz(h)) <= h.brk
                               /\ (EndOf(x, Sz(h)) = h.brk \/ EndOf(x, Sz(h)) \in Bl(h))
           /\ \A x, y \in Bl(h) : x < y => EndOf(x, Sz(h)) <= y
           /\ \A x, y \in Bl(h) : EndOf(x, Sz(h)) = EndOf(y, Sz(h)) => x = y
           /\ Fr(h) \subseteq Bl(h)
           /\ \A x \in Fr(h) : x <= h.brk
  <1>0. HeapType(h) /\ Tiling(Bl(h), Sz(h), h.brk, h.final)
    BY DEF Good, Tiled
  <1>1. TilingType(Bl(h), Sz(h), h.brk) /\ Disjoint(Bl(h), Sz(h), h.brk)
        /\ Gapless(Bl(h), Sz(h), h.brk) /\ Bounded(Bl(h), Sz(h), h.brk, h.final)
    BY <1>0 DEF Tiling
  <1>2. h.brk \in Nat
    BY <1>1 DEF TilingType
  <1>3. \A x \in Bl(h) : /\ x \in Nat /\ Base <= x /\ Sz(h)[x] \in Nat
                         /\ EndOf(x, Sz(h)) \in Nat /\ x < EndOf(x, Sz(h))
    BY <1>1, EndBehind
  <1>4. \A x \in Bl(h) : EndOf(x, Sz(h)) <= h.brk /\ (EndOf(x, Sz(h)) = h.brk \/ EndOf(x, Sz(h)) \in Bl(h))
    BY <1>1 DEF Disjoint, Gapless
  <1>5. \A x, y \in Bl(h) : x < y => EndOf(x, Sz(h)) <= y
    BY <1>1 DEF Disjoint
  <1>6. \A x, y \in Bl(h) : EndOf(x, Sz(h)) = EndOf(y, Sz(h)) => x = y
    BY <1>0, EndsApart
  <1>7. Base <= h.brk /\ h.brk \notin Bl(h)
    <2>1. CASE Bl(h) = {}
      BY <1>1, <1>2, <2>1, Layout DEF Bounded
    <2>2. CASE Bl(h) # {}
      BY <1>2, <1>3, <1>4, <2>2, Layout
    <2> QED BY <2>1, <2>2
  <1>8. Fr(h) \subseteq Bl(h) /\ \A x \in Bl(h) : x # NULL
    BY <1>0, Fields
  <1>9. \A x \in Fr(h) : x <= h.brk
    BY <1>2, <1>3, <1>4, <1>8
  <1> QED BY <1>2, <1>3, <1>4, <1>5, <1>6, <1>7, <1>8, <1>9

LEMMA EndAligned ==
    ASSUME NEW h, Good(h), NEW e \in Bl(h)
    PROVE  Aligned(EndOf(e, Sz(h)) - Base)
  <1>1. Aligned(e - Base) /\ Aligned(Sz(h)[e] + (ENTRY + END))
    BY DEF Good, AlignedBlocks
  <1>2. e \in Nat /\ Sz(h)[e] \in Nat
    BY GoodNumbers
  <1>3. EndOf(e, Sz(h)) - Base = (e - Base) + (Sz(h)[e] + (ENTRY + END))
    BY <1>2, Layout DEF EndOf
  <1> QED BY <1>1, <1>3, AlignedPlus

LEMMA BreakAligned ==
    ASSUME NEW h, Good(h)
    PROVE  Aligned(h.brk - Base)
  <1>1. Bounded(Bl(h), Sz(h), h.brk, h.final)
    BY DEF Good, Tiled, Tiling
  <1>2. CASE Bl(h) = {}
    <2>1. h.brk - Base = 0 * ALIGN
      BY <1>1, <1>2, Layout DEF Bounded
    <2> QED BY <2>1 DEF Aligned
  <1>3. CASE Bl(h) # {}
    <2>1. h.final \in Bl(h) /\ EndOf(h.final, Sz(h)) = h.brk
      BY <1>1, <1>3 DEF Bounded
    <2> QED BY <2>1, EndAligned
  <1> QED BY <1>2, <1>3

\* malloc extends the heap.
LEMMA ExtendGood ==
    ASSUME NEW h, Good(h), NEW size \in Nat, Aligned(size + (ENTRY + END)),
           NEW h2, ExtendedIs(h2, h, size)
    PROVE  Good(h2) /\ Used(h2) = Used(h) \cup {h.brk} /\ h.brk \notin Bl(h) /\ Sz(h2)[h.brk] = size
           /\ \A x \in Used(h) : Sz(h2)[x] = Sz(h)[x]
  <1>0. /\ HeapType(h2) /\ Bl(h2) = Bl(h) \cup {h.brk} /\ Fr(h2) = Fr(h)
        /\ h2.foot = A!With(h.foot, h.brk + ENTRY + size, size)
        /\ Sz(h2)[h.brk] = size /\ Nx(h2)[h.brk] = NULL /\ Pv(h2)[h.brk] = NULL
        /\ \A x \in Bl(h) : Sz(h2)[x] = Sz(h)[x] /\ Nx(h2)[x] = Nx(h)[x] /\ Pv(h2)[x] = Pv(h)[x]
        /\ h2.head = h.head /\ h2.start = (IF h.start = NULL THEN h.brk ELSE h.start)
        /\ h2.final = h.brk /\ h2.brk = h.brk + ENTRY + size + END
    BY DEF ExtendedIs
  <1>1. /\ h.brk \in Nat /\ Base <= h.brk /\ h.brk \notin Bl(h) /\ Fr(h) \subseteq Bl(h)
    BY GoodNumbers
  <1>2. Sz(h2) \in [Bl(h) \cup {h.brk} -> Nat]
    BY <1>0, Fields
  <1>3. Tiling(Bl(h), Sz(h), h.brk, h.final) /\ Footers(Bl(h), Sz(h), h.foot)
    BY DEF Good, Tiled, Footed
  <1>4. Tiled(h2)
    <2>1. Tiling(Bl(h) \cup {h.brk}, Sz(h2), h.brk + ENTRY + size + END, h.brk)
      BY <1>0, <1>2, <1>3, TileExtend
    <2> QED BY <1>0, <2>1 DEF Tiled
  <1>5. Footed(h2)
    <2>0. size \in Nat /\ Sz(h2)[h.brk] = size /\ \A x \in Bl(h) : Sz(h2)[x] = Sz(h)[x]
      BY <1>0
    <2>a. h2.foot = A!With(h.foot, h.brk + ENTRY + size, size)
      BY <1>0
    <2>1. Footers(Bl(h) \cup {h.brk}, Sz(h2), h2.foot)
      BY ONLY <2>0, <2>a, <1>2, <1>3, FootExtend
    <2> QED BY <1>0, <2>1 DEF Footed
  <1>6. Started(h2)
    <2>1. Bl(h) = {} => h.brk = Base /\ h.start = NULL
      BY <1>3 DEF Good, Started, Tiling, Bounded
    <2>2. Bl(h) # {} => h.start = Base
      BY DEF Good, Started
    <2>3. Bl(h2) # {} /\ h2.start = Base
      BY <1>0, <2>1, <2>2, Layout
    <2> QED BY <2>3 DEF Started
  <1>7. ListLinked(h2)
    <2>1. List(Fr(h), Nx(h), Pv(h), h.head)
      BY DEF Good, ListLinked
    <2>2. \A x \in Fr(h) : Nx(h2)[x] = Nx(h)[x] /\ Pv(h2)[x] = Pv(h)[x]
      BY <1>0, <1>1
    <2>3. List(Fr(h), Nx(h2), Pv(h2), h.head)
      BY <2>1, <2>2, ListFrame
    <2> QED BY <1>0, <2>3 DEF ListLinked
  <1>8. Used(h2) = Used(h) \cup {h.brk}
    BY <1>0, <1>1 DEF Used
  <1>9. Unlinked(h2)
    <2>1. \A x \in Used(h) : x \in Bl(h) /\ Nx(h)[x] = NULL /\ Pv(h)[x] = NULL
      BY DEF Good, Unlinked, Used
    <2> QED BY <1>0, <1>8, <2>1 DEF Unlinked
  <1>10. Coalesced(h2)
    <2>1. \A x \in Fr(h) : EndOf(x, Sz(h)) \notin Fr(h)
      BY DEF Good, Coalesced
    <2>2. \A x \in Fr(h) : EndOf(x, Sz(h2)) = EndOf(x, Sz(h))
      BY <1>0, <1>1 DEF EndOf
    <2> QED BY <1>0, <2>1, <2>2 DEF Coalesced
  <1>11. AlignedBlocks(h2)
    <2>1. Aligned(h.brk - Base)
      BY BreakAligned
    <2>2. \A x \in Bl(h) : Aligned(x - Base) /\ Aligned(Sz(h)[x] + (ENTRY + END))
      BY DEF Good, AlignedBlocks
    <2> QED BY <1>0, <2>1, <2>2 DEF AlignedBlocks
  <1>12. \A x \in Used(h) : Sz(h2)[x] = Sz(h)[x]
    BY <1>0 DEF Used
  <1> QED BY <1>0, <1>1, <1>4, <1>5, <1>6, <1>7, <1>8, <1>9, <1>10, <1>11, <1>12 DEF Good

\* The neighbours of a free block in the list are other blocks.
LEMMA LinksOutside ==
    ASSUME NEW h, Good(h), NEW e \in Fr(h)
    PROVE  /\ Pv(h)[e] = NULL \/ Pv(h)[e] \in Bl(h) \ {e}
           /\ Nx(h)[e] = NULL \/ Nx(h)[e] \in Bl(h) \ {e}
  <1>1. List(Fr(h), Nx(h), Pv(h), h.head)
    BY DEF Good, ListLinked
  <1>2. /\ Nx(h)[e] = NULL \/ (Nx(h)[e] \in Fr(h) /\ e < Nx(h)[e])
        /\ Pv(h)[e] = NULL \/ (Pv(h)[e] \in Fr(h) /\ Pv(h)[e] < e)
    BY <1>1, LinksAgree
  <1>3. \A x \in Fr(h) : x \in Bl(h) /\ x \in Nat
    BY GoodNumbers
  <1> QED BY <1>2, <1>3

\* malloc takes a free block as it is.
LEMMA TakeGood ==
    ASSUME NEW h, Good(h), NEW e \in Fr(h), NEW h2, TakenIs(h2, h, e, Pv(h)[e], Nx(h)[e])
    PROVE  Good(h2) /\ Used(h2) = Used(h) \cup {e} /\ Sz(h2) = Sz(h)
  <1> DEFINE p == Pv(h)[e]
             n == Nx(h)[e]
  <1>0. /\ HeapType(h2) /\ Bl(h2) = Bl(h) /\ Fr(h2) = Fr(h) \ {e}
        /\ h2.foot = A!With(h.foot, e + ENTRY + Sz(h)[e], Sz(h)[e])
        /\ Nx(h2)[e] = NULL /\ Pv(h2)[e] = NULL
        /\ \A x \in Bl(h) : Sz(h2)[x] = Sz(h)[x]
        /\ \A x \in Bl(h) \ {e} : /\ Nx(h2)[x] = IF x = p THEN n ELSE Nx(h)[x]
                                  /\ Pv(h2)[x] = IF x = n THEN p ELSE Pv(h)[x]
        /\ h2.head = (IF h.head = e THEN n ELSE h.head) /\ h2.start = h.start
        /\ h2.final = h.final /\ h2.brk = h.brk
    BY DEF TakenIs
  <1> HIDE DEF p, n
  <1>1. e \in Bl(h) /\ Fr(h) \subseteq Bl(h)
    BY GoodNumbers
  <1>2. Sz(h2) = Sz(h)
    <2>1. Sz(h2) \in [Bl(h) -> Nat] /\ Sz(h) \in [Bl(h) -> Nat]
      BY <1>0, Fields DEF Good
    <2> QED BY <1>0, <2>1
  <1>3. Tiled(h2) /\ Started(h2)
    BY <1>0, <1>2 DEF Good, Tiled, Started
  <1>4. Footed(h2)
    <2>1. Tiling(Bl(h), Sz(h), h.brk, h.final) /\ Footers(Bl(h), Sz(h), h.foot)
      BY DEF Good, Tiled, Footed
    <2>2. \A x \in Bl(h) : x # e => FootAt(x, Sz(h)) # FootAt(e, Sz(h))
      BY <1>1, <2>1, FeetApart
    <2>3. h2.foot = A!With(h.foot, FootAt(e, Sz(h)), Sz(h)[e])
      BY <1>0 DEF FootAt
    <2>4. Footers(Bl(h) \cup {e}, Sz(h), h2.foot)
      <3>1. SameFeet(Bl(h), Sz(h), e, Sz(h))
        BY <2>2 DEF SameFeet
      <3> QED BY <2>1, <2>3, <3>1, FootPut
    <2>5. Bl(h) \cup {e} = Bl(h2)
      BY <1>0, <1>1
    <2> QED BY <1>2, <2>4, <2>5 DEF Footed
  <1>5. ListLinked(h2)
    <2>1. List(Fr(h), Nx(h), Pv(h), h.head)
      BY DEF Good, ListLinked
    <2>2. /\ \A x \in Fr(h) \ {e} : Nx(h2)[x] = IF x = Pv(h)[e] THEN Nx(h)[e] ELSE Nx(h)[x]
          /\ \A x \in Fr(h) \ {e} : Pv(h2)[x] = IF x = Nx(h)[e] THEN Pv(h)[e] ELSE Pv(h)[x]
          /\ h2.head = IF h.head = e THEN Nx(h)[e] ELSE h.head
      BY <1>0, <1>1 DEF p, n
    <2>4. RemoveLinks(Fr(h), Nx(h), Pv(h), h.head, e, Nx(h2), Pv(h2), h2.head)
      BY <2>2 DEF RemoveLinks
    <2>3. List(Fr(h) \ {e}, Nx(h2), Pv(h2), h2.head)
      BY <2>1, <2>4, ListRemove
    <2> QED BY <1>0, <2>3 DEF ListLinked
  <1>6. Used(h2) = Used(h) \cup {e}
    BY <1>0, <1>1 DEF Used
  <1>7. Unlinked(h2)
    <2>1. ASSUME NEW x \in Used(h2) PROVE Nx(h2)[x] = NULL /\ Pv(h2)[x] = NULL
      <3>1. CASE x = e
        BY <1>0, <3>1
      <3>2. CASE x # e
        <4>1. x \in Used(h) /\ x \in Bl(h) \ {e} /\ x \notin Fr(h)
          BY <1>6, <3>2 DEF Used
        <4>2. Nx(h)[x] = NULL /\ Pv(h)[x] = NULL
          BY <4>1 DEF Good, Unlinked
        <4>3. List(Fr(h), Nx(h), Pv(h), h.head)
          BY DEF Good, ListLinked
        <4>4. (p = NULL \/ p \in Fr(h)) /\ (n = NULL \/ n \in Fr(h))
          BY <4>3, LinksAgree DEF p, n
        <4>5. x # NULL
          BY <4>1, GoodNumbers
        <4>6. x # p /\ x # n
          BY <4>1, <4>4, <4>5
        <4> QED BY <1>0, <4>1, <4>2, <4>6
      <3> QED BY <3>1, <3>2
    <2> QED BY <2>1 DEF Unlinked
  <1>8. Coalesced(h2) /\ AlignedBlocks(h2)
    BY <1>0, <1>2 DEF Good, Coalesced, AlignedBlocks
  <1> QED BY <1>0, <1>2, <1>3, <1>4, <1>5, <1>6, <1>7, <1>8 DEF Good
\* malloc splits a free block.
LEMMA SplitGood ==
    ASSUME NEW h, Good(h), NEW e \in Fr(h), NEW size \in Nat, Aligned(size + (ENTRY + END)),
           size + ENTRY + END <= Sz(h)[e], NEW new, new = e + ENTRY + size + END,
           NEW h2, SplitIs(h2, h, e, size, new, Pv(h)[e], Nx(h)[e])
    PROVE  Good(h2) /\ Used(h2) = Used(h) \cup {e} /\ Sz(h2)[e] = size
           /\ \A x \in Used(h) : Sz(h2)[x] = Sz(h)[x]
  <1> DEFINE p == Pv(h)[e]
             n == Nx(h)[e]
  <1>0. /\ HeapType(h2) /\ Bl(h2) = Bl(h) \cup {new} /\ Fr(h2) = (Fr(h) \ {e}) \cup {new}
        /\ Sz(h2)[e] = size /\ Sz(h2)[new] = Sz(h)[e] - size - (ENTRY + END)
        /\ h2.foot = A!With(A!With(h.foot, new + ENTRY + Sz(h2)[new], Sz(h2)[new]), e + ENTRY + size, size)
        /\ Nx(h2)[new] = n /\ Pv(h2)[new] = p /\ Nx(h2)[e] = NULL /\ Pv(h2)[e] = NULL
        /\ \A x \in Bl(h) \ {e} : /\ Sz(h2)[x] = Sz(h)[x]
                                  /\ Nx(h2)[x] = IF x = p THEN new ELSE Nx(h)[x]
                                  /\ Pv(h2)[x] = IF x = n THEN new ELSE Pv(h)[x]
        /\ h2.head = (IF h.head = e THEN new ELSE h.head) /\ h2.start = h.start
        /\ h2.final = (IF h.final = e THEN new ELSE h.final) /\ h2.brk = h.brk
    BY DEF SplitIs
  <1> HIDE DEF p, n
  <1>1. /\ e \in Bl(h) /\ Fr(h) \subseteq Bl(h) /\ e \in Nat /\ Sz(h)[e] \in Nat
        /\ EndOf(e, Sz(h)) \in Nat /\ EndOf(e, Sz(h)) <= h.brk /\ h.brk \in Nat
    BY GoodNumbers
  <1>2. Sz(h2) \in [Bl(h) \cup {new} -> Nat]
    BY <1>0, Fields
  <1>3. Tiling(Bl(h), Sz(h), h.brk, h.final) /\ Footers(Bl(h), Sz(h), h.foot)
    BY DEF Good, Tiled, Footed
  <1>4. /\ Sz(h2)[e] = size /\ Sz(h2)[new] = Sz(h)[e] - size - (ENTRY + END)
        /\ \A x \in Bl(h) : x # e => Sz(h2)[x] = Sz(h)[x]
    BY <1>0
  <1>a. SplitSizes(Bl(h), Sz(h), e, size, new, Sz(h2))
    BY <1>1, <1>2, <1>4 DEF SplitSizes
  <1>5. Tiling(Bl(h) \cup {new}, Sz(h2), h.brk, h2.final) /\ new \notin Bl(h)
        /\ EndOf(e, Sz(h2)) = new /\ EndOf(new, Sz(h2)) = EndOf(e, Sz(h))
        /\ \A x \in Bl(h) : x # e => EndOf(x, Sz(h2)) = EndOf(x, Sz(h))
    <2>1. h2.final = IF h.final = e THEN new ELSE h.final
      BY <1>0
    <2>2. Replaced(h2.final, h.final, e, new)
      BY <2>1 DEF Replaced
    <2> QED BY <1>3, <1>a, <2>2, TileSplit
  <1>6. new \in Nat /\ new # NULL /\ e < new /\ new < EndOf(e, Sz(h)) /\ new # h.brk
    BY <1>1, Layout DEF EndOf
  <1>7. Tiled(h2)
    BY <1>0, <1>5 DEF Tiled
  <1>8. Started(h2)
    <2>1. h.start = Base
      BY <1>1 DEF Good, Started
    <2> QED BY <1>0, <1>1, <2>1 DEF Started
  <1>9. Footed(h2)
    <2>1. h2.foot = A!With(A!With(h.foot, new + ENTRY + Sz(h2)[new], Sz(h2)[new]), e + ENTRY + size, size)
      BY <1>0
    <2>2. Footers(Bl(h) \cup {new}, Sz(h2), h2.foot)
      <3>1. SplitFeet(h2.foot, h.foot, e, size, new, Sz(h2))
        BY <2>1 DEF SplitFeet
      <3> QED BY <1>3, <1>a, <3>1, FootSplit
    <2> QED BY <1>0, <2>2 DEF Footed
  <1>10. \A x \in Fr(h) \ {e} : (x < e /\ x < new) \/ (e < x /\ new < x)
    <2>1. \A x \in Fr(h) : x \in Nat /\ (e < x => EndOf(e, Sz(h)) <= x)
      BY <1>1, GoodNumbers
    <2> QED BY <1>1, <1>6, <2>1
  <1>11. ListLinked(h2)
    <2>1. List(Fr(h), Nx(h), Pv(h), h.head)
      BY DEF Good, ListLinked
    <2>2. ReplaceLinks(Fr(h), Nx(h), Pv(h), h.head, e, new, Nx(h2), Pv(h2), h2.head)
      BY <1>0, <1>1 DEF p, n, ReplaceLinks
    <2>3. new \notin Fr(h)
      BY <1>1, <1>5
    <2>4. List((Fr(h) \ {e}) \cup {new}, Nx(h2), Pv(h2), h2.head)
      BY <1>6, <1>10, <2>1, <2>2, <2>3, ListReplace
    <2> QED BY <1>0, <2>4 DEF ListLinked
  <1>12. Used(h2) = Used(h) \cup {e}
    BY <1>0, <1>1, <1>5, <1>6 DEF Used
  <1>13. Unlinked(h2)
    <2>1. ASSUME NEW x \in Used(h2) PROVE Nx(h2)[x] = NULL /\ Pv(h2)[x] = NULL
      <3>1. CASE x = e
        BY <1>0, <3>1
      <3>2. CASE x # e
        <4>1. x \in Used(h) /\ x \in Bl(h) \ {e} /\ x \notin Fr(h)
          BY <1>12, <3>2 DEF Used
        <4>2. Nx(h)[x] = NULL /\ Pv(h)[x] = NULL
          BY <4>1 DEF Good, Unlinked
        <4>3. List(Fr(h), Nx(h), Pv(h), h.head)
          BY DEF Good, ListLinked
        <4>4. (p = NULL \/ p \in Fr(h)) /\ (n = NULL \/ n \in Fr(h))
          BY <4>3, LinksAgree DEF p, n
        <4>5. x # NULL
          BY <4>1, GoodNumbers
        <4>6. x # p /\ x # n
          BY <4>1, <4>4, <4>5
        <4> QED BY <1>0, <4>1, <4>2, <4>6
      <3> QED BY <3>1, <3>2
    <2> QED BY <2>1 DEF Unlinked
  <1>14. Coalesced(h2)
    <2>1. ASSUME NEW x \in Fr(h2) PROVE EndOf(x, Sz(h2)) \notin Fr(h2)
      <3>0. \A y \in Fr(h) : EndOf(y, Sz(h)) \notin Fr(h)
        BY DEF Good, Coalesced
      <3>1. CASE x = new
        <4>1. EndOf(x, Sz(h2)) = EndOf(e, Sz(h)) /\ EndOf(e, Sz(h)) \notin Fr(h) /\ EndOf(e, Sz(h)) # new
          BY <1>1, <1>5, <1>6, <3>0, <3>1
        <4> QED BY <1>0, <4>1
      <3>2. CASE x # new
        <4>1. x \in Fr(h) /\ x # e
          BY <1>0, <3>2
        <4>2. EndOf(x, Sz(h2)) = EndOf(x, Sz(h)) /\ EndOf(x, Sz(h)) \notin Fr(h)
          BY <1>1, <1>5, <3>0, <4>1
        <4>3. EndOf(x, Sz(h)) = h.brk \/ EndOf(x, Sz(h)) \in Bl(h)
          BY <1>1, <4>1, GoodNumbers
        <4> QED BY <1>0, <1>5, <1>6, <4>2, <4>3
      <3> QED BY <3>1, <3>2
    <2> QED BY <2>1 DEF Coalesced
  <1>15. AlignedBlocks(h2)
    <2>0. \A x \in Bl(h) : Aligned(x - Base) /\ Aligned(Sz(h)[x] + (ENTRY + END))
      BY DEF Good, AlignedBlocks
    <2>1. Aligned(new - Base)
      <3>1. new - Base = (e - Base) + (size + (ENTRY + END))
        BY <1>1, Layout
      <3> QED BY <1>1, <2>0, <3>1, AlignedPlus
    <2>2. Aligned(Sz(h2)[new] + (ENTRY + END))
      <3>1. Sz(h2)[new] + (ENTRY + END) = (Sz(h)[e] + (ENTRY + END)) - (size + (ENTRY + END))
        BY <1>0, <1>1, Layout
      <3>2. (Sz(h)[e] + (ENTRY + END)) - (size + (ENTRY + END)) \in Nat
        BY <1>1, Layout
      <3> QED BY <1>1, <2>0, <3>1, <3>2, AlignedMinus
    <2>3. ASSUME NEW x \in Bl(h) PROVE Aligned(x - Base) /\ Aligned(Sz(h2)[x] + (ENTRY + END))
      <3>1. CASE x = e
        BY <1>0, <1>1, <2>0, <3>1
      <3>2. CASE x # e
        BY <1>4, <2>0, <3>2
      <3> QED BY <3>1, <3>2
    <2> QED BY <1>0, <2>1, <2>2, <2>3 DEF AlignedBlocks
  <1>16. \A x \in Used(h) : Sz(h2)[x] = Sz(h)[x]
    BY <1>4 DEF Used
  <1> QED BY <1>0, <1>7, <1>8, <1>9, <1>11, <1>12, <1>13, <1>14, <1>15, <1>16 DEF Good

\* The search of malloc ends with nothing, or with a free block that is large enough.
LEMMA FirstFitFinds ==
    ASSUME NEW h, Good(h), NEW size \in Nat, NEW e, e = A!FirstFit(h, size)
    PROVE  e = NULL \/ (e \in Fr(h) /\ Sz(h)[e] >= size)
  <1> DEFINE Stop == {x \in Bl(h) : h.hdr[x].size >= size}
             Eq(f) == f = [p \in DOMAIN h.hdr \cup {A!NULL} |->
                             IF p = A!NULL THEN A!NULL
                             ELSE IF h.hdr[p].size >= size THEN p
                             ELSE f[h.hdr[p].next]]
             search == CHOOSE f : Eq(f)
  <1>1. e = search[h.head]
    BY DEF A!FirstFit
  <1>2. List(Fr(h), Nx(h), Pv(h), h.head) /\ HeapType(h)
    BY DEF Good, ListLinked
  <1>3. /\ Fr(h) \subseteq Bl(h) /\ NULL \notin Bl(h) /\ h.brk \in Nat /\ \A x \in Fr(h) : x <= h.brk
    BY GoodNumbers
  <1>4. \A x \in Bl(h) \ Fr(h) : Nx(h)[x] = NULL
    BY DEF Good, Unlinked, Used
  <1>5. \A x \in Bl(h) : h.hdr[x].next = Nx(h)[x] /\ h.hdr[x].size = Sz(h)[x]
    BY <1>2, Fields
  <1>6. ASSUME NEW f PROVE Searches(f, Bl(h), Nx(h), Stop) <=> Eq(f)
    <2>1. [p \in DOMAIN h.hdr \cup {A!NULL} |-> IF p = A!NULL THEN A!NULL
             ELSE IF h.hdr[p].size >= size THEN p ELSE f[h.hdr[p].next]]
          = [p \in Bl(h) \cup {NULL} |-> IF p = NULL THEN NULL ELSE IF p \in Stop THEN p ELSE f[Nx(h)[p]]]
      BY <1>5 DEF Bl, A!NULL
    <2> QED BY <2>1 DEF Searches
  <1> HIDE DEF Eq, Stop
  <1>7. \E f : Searches(f, Bl(h), Nx(h), Stop)
    BY <1>2, <1>3, <1>4, SearchExists
  <1>8. \E f : Eq(f)
    BY <1>6, <1>7
  <1>9. Eq(search)
    BY <1>8
  <1>10. Searches(search, Bl(h), Nx(h), Stop)
    BY <1>6, <1>9
  <1> HIDE DEF search
  <1>11. search[h.head] = NULL \/ search[h.head] \in Fr(h) \cap Stop
    BY <1>2, <1>3, <1>10, SearchFinds
  <1> QED BY <1>1, <1>3, <1>5, <1>11 DEF Stop

\* malloc returns NULL and leaves the heap alone, or a block that was not in use and now is.
MallocIs(r, h, size) ==
  \/ r.ptr = NULL /\ r.heap = h
  \/ \E e \in Nat : /\ r.ptr = e + ENTRY /\ Good(r.heap) /\ e \notin Used(h)
                    /\ Used(r.heap) = Used(h) \cup {e}
                    /\ size <= Sz(r.heap)[e] /\ Sz(r.heap)[e] < size + TRESHOLD + (ENTRY + END)
                    /\ \A x \in Used(h) : Sz(r.heap)[x] = Sz(h)[x]

LEMMA MallocGood ==
    ASSUME NEW h, Good(h), NEW request \in Nat
    PROVE  MallocIs(A!MallocOn(h, request), h, A!RoundUp(request))
  <1> SUFFICES ASSUME NEW r, r = A!MallocOn(h, request)
               PROVE  MallocIs(r, h, A!RoundUp(request))
    OBVIOUS
  <1> DEFINE size == A!RoundUp(request)
             e == A!FirstFit(h, size)
  <1>1. size \in Nat /\ Aligned(size + (ENTRY + END))
    BY RoundUpOf
  <1>2. e = NULL \/ (e \in Fr(h) /\ Sz(h)[e] >= size)
    BY <1>1, FirstFitFinds
  <1>3. r = IF request = 0 THEN [heap |-> h, ptr |-> NULL]
            ELSE IF e = NULL THEN A!Extend(h, size)
            ELSE [heap |-> IF A!WorthSplitting(h, e, size) THEN A!Split(h, e, size) ELSE A!Take(h, e),
                  ptr |-> e + ENTRY]
    BY DEF A!MallocOn, A!NULL
  <1> HIDE DEF e, size
  <1>4. CASE request = 0
    BY <1>3, <1>4 DEF MallocIs
  <1>5. CASE request # 0 /\ e = NULL /\ h.brk + A!Overhead + size > Limit
    <2>1. r = A!Extend(h, size)
      BY <1>3, <1>5
    <2>2. r = [heap |-> h, ptr |-> NULL]
      BY <1>5, <2>1 DEF A!Extend, A!NULL
    <2> QED BY <2>2 DEF MallocIs
  <1>6. CASE request # 0 /\ e = NULL /\ ~(h.brk + A!Overhead + size > Limit)
    <2>1. r = A!Extend(h, size)
      BY <1>3, <1>6
    <2>2. h.brk \in Nat \ {NULL} /\ h.brk \notin Bl(h) /\ HeapType(h)
      BY GoodNumbers, Layout DEF Good
    <2>3. ExtendedIs(r.heap, h, size) /\ r.ptr = h.brk + ENTRY
      BY <1>1, <1>6, <2>1, <2>2, ExtendEffect
    <2>4. Good(r.heap) /\ Used(r.heap) = Used(h) \cup {h.brk} /\ Sz(r.heap)[h.brk] = size
          /\ \A x \in Used(h) : Sz(r.heap)[x] = Sz(h)[x]
      BY <1>1, <2>3, ExtendGood
    <2>5. h.brk \notin Used(h)
      BY <2>2 DEF Used
    <2>6. size <= size /\ size < size + TRESHOLD + (ENTRY + END)
      BY <1>1, Layout
    <2> QED BY <2>2, <2>3, <2>4, <2>5, <2>6 DEF MallocIs, size
  <1>7. CASE request # 0 /\ e # NULL
    <2>1. e \in Fr(h) /\ Sz(h)[e] >= size /\ HeapType(h) /\ h.hdr[e].size = Sz(h)[e]
          /\ e \in Bl(h) /\ Sz(h)[e] \in Nat /\ e \in Nat
      BY <1>2, <1>7, Fields, GoodNumbers DEF Good
    <2>2. e \notin Used(h)
      BY <2>1 DEF Used
    <2>3. /\ Pv(h)[e] = NULL \/ Pv(h)[e] \in Bl(h) \ {e}
          /\ Nx(h)[e] = NULL \/ Nx(h)[e] \in Bl(h) \ {e}
      BY <2>1, LinksOutside
    <2>4. CASE A!WorthSplitting(h, e, size)
      <3> DEFINE new == e + ENTRY + size + END
      <3>1. r.heap = A!Split(h, e, size) /\ r.ptr = e + ENTRY
        BY <1>3, <1>7, <2>4
      <3>2. size + ENTRY + END <= Sz(h)[e]
        BY <1>1, <2>1, <2>4, Layout DEF A!WorthSplitting, A!Overhead
      <3>3. new \in Nat /\ e < new /\ new < EndOf(e, Sz(h))
        BY <1>1, <2>1, <3>2, Layout DEF EndOf
      <3>4. new \notin Bl(h)
        BY <2>1, <3>3, GoodNumbers
      <3> HIDE DEF new
      <3>5. SplitIs(r.heap, h, e, size, new, Pv(h)[e], Nx(h)[e])
        BY <1>1, <2>1, <2>3, <3>1, <3>2, <3>4, SplitEffect DEF new
      <3>6. Good(r.heap) /\ Used(r.heap) = Used(h) \cup {e} /\ Sz(r.heap)[e] = size
            /\ \A x \in Used(h) : Sz(r.heap)[x] = Sz(h)[x]
        BY <1>1, <2>1, <3>2, <3>5, SplitGood DEF new
      <3>7. size <= size /\ size < size + TRESHOLD + (ENTRY + END)
        BY <1>1, Layout
      <3> QED BY <2>1, <2>2, <3>1, <3>6, <3>7 DEF MallocIs, size
    <2>5. CASE ~A!WorthSplitting(h, e, size)
      <3>1. r.heap = A!Take(h, e) /\ r.ptr = e + ENTRY
        BY <1>3, <1>7, <2>5
      <3>2. TakenIs(r.heap, h, e, Pv(h)[e], Nx(h)[e])
        BY <2>1, <2>3, <3>1, TakeEffect
      <3>3. Good(r.heap) /\ Used(r.heap) = Used(h) \cup {e} /\ Sz(r.heap) = Sz(h)
        BY <2>1, <3>2, TakeGood
      <3>4. size <= Sz(h)[e] /\ Sz(h)[e] < size + TRESHOLD + (ENTRY + END)
        BY <1>1, <2>1, <2>5, Layout DEF A!WorthSplitting, A!Overhead
      <3> QED BY <2>1, <2>2, <3>1, <3>3, <3>4 DEF MallocIs, size
    <2> QED BY <2>4, <2>5
  <1> QED BY <1>4, <1>5, <1>6, <1>7
-----------------------------------------------------------------------------
(* free: the neighbours of a block, and what merging changes.              *)

\* By the footer before it, the block that ends where e begins.
LEMMA PreviousIs ==
    ASSUME NEW h, Good(h), NEW e \in Bl(h)
    PROVE  \/ A!Previous(h, e) = NULL /\ \A x \in Bl(h) : EndOf(x, Sz(h)) # e
           \/ A!Previous(h, e) \in Bl(h) /\ EndOf(A!Previous(h, e), Sz(h)) = e
  <1>0. h.start = Base
    BY DEF Good, Started
  <1>1. /\ e \in Nat /\ Base <= e
        /\ \A x \in Bl(h) : Base <= x /\ x \in Nat /\ x < EndOf(x, Sz(h)) /\ EndOf(x, Sz(h)) \in Nat
                            /\ Sz(h)[x] \in Nat
    BY GoodNumbers
  <1>2. CASE e = Base
    <2>1. A!Previous(h, e) = NULL
      BY <1>0, <1>1, <1>2, Layout DEF A!Previous, A!NULL
    <2> QED BY <1>1, <1>2, <2>1, Layout
  <1>3. CASE e # Base
    <2>1. PICK q \in Bl(h) : EndOf(q, Sz(h)) = e
      BY <1>3 DEF Good, Tiled, Tiling, Gapless
    <2>2. e > h.start
      BY <1>0, <1>1, <1>3, Layout
    <2>3. e - END = FootAt(q, Sz(h)) /\ FootAt(q, Sz(h)) = q + ENTRY + Sz(h)[q] /\ FootAt(q, Sz(h)) \in Nat
      BY <1>1, <2>1, Layout DEF EndOf, FootAt
    <2>4. h.foot[FootAt(q, Sz(h))] = Sz(h)[q]
      BY DEF Good, Footed, Footers
    <2>5. A!Previous(h, e) = (e - END) - h.foot[e - END] - ENTRY
      BY <2>2 DEF A!Previous
    <2>6. A!Previous(h, e) = q
      BY <1>1, <2>3, <2>4, <2>5, Layout
    <2> QED BY <2>1, <2>6
  <1> QED BY <1>2, <1>3

LEMMA NextIs ==
    ASSUME NEW h, Good(h), NEW e \in Bl(h)
    PROVE  \/ A!NextBlock(h, e) = NULL /\ EndOf(e, Sz(h)) \notin Bl(h)
           \/ A!NextBlock(h, e) = EndOf(e, Sz(h)) /\ EndOf(e, Sz(h)) \in Bl(h)
  <1>0. h.final \in Bl(h) /\ EndOf(h.final, Sz(h)) = h.brk
    BY DEF Good, Tiled, Tiling, Bounded
  <1>1. /\ h.brk \in Nat /\ h.brk \notin Bl(h)
        /\ \A x \in Bl(h) : x \in Nat /\ x < EndOf(x, Sz(h)) /\ EndOf(x, Sz(h)) \in Nat
                            /\ EndOf(x, Sz(h)) <= h.brk
                            /\ (EndOf(x, Sz(h)) = h.brk \/ EndOf(x, Sz(h)) \in Bl(h))
        /\ \A x, y \in Bl(h) : x < y => EndOf(x, Sz(h)) <= y
    BY GoodNumbers
  <1>2. A!After(h, e) = EndOf(e, Sz(h))
    BY Fields DEF A!After, EndOf, Good
  <1>3. CASE e < h.final
    <2>1. A!NextBlock(h, e) = EndOf(e, Sz(h))
      BY <1>2, <1>3 DEF A!NextBlock
    <2>2. EndOf(e, Sz(h)) <= h.final /\ h.final < h.brk
      BY <1>0, <1>1, <1>3
    <2>3. EndOf(e, Sz(h)) \in Bl(h)
      BY <1>0, <1>1, <2>2
    <2> QED BY <2>1, <2>3
  <1>4. CASE ~(e < h.final)
    <2>1. A!NextBlock(h, e) = NULL
      BY <1>4 DEF A!NextBlock, A!NULL
    <2>2. e = h.final
      BY <1>0, <1>1, <1>4
    <2> QED BY <1>0, <1>1, <2>1, <2>2
  <1> QED BY <1>3, <1>4

LEMMA SameNeighbours ==
    ASSUME NEW h, HeapType(h), NEW e \in Bl(h), NEW h1, FreedIs(h1, h, e)
    PROVE  A!Previous(h1, e) = A!Previous(h, e) /\ A!NextBlock(h1, e) = A!NextBlock(h, e)
  <1>1. /\ h1.start = h.start /\ h1.final = h.final /\ h1.foot = h.foot /\ HeapType(h1) /\ e \in Bl(h1)
        /\ Sz(h1)[e] = Sz(h)[e]
    BY DEF FreedIs, SameRest
  <1>2. h1.hdr[e].size = h.hdr[e].size
    BY <1>1, Fields
  <1> QED BY <1>1, <1>2 DEF A!Previous, A!NextBlock, A!After

\* Block b grows over block g.
AbsorbedIs(h2, h, b, g) ==
  /\ HeapType(h2) /\ Bl(h2) = Bl(h) \ {g} /\ Fr(h2) = (Fr(h) \cup {b}) \ {g}
  /\ Sz(h2)[b] = Sz(h)[b] + (ENTRY + END) + Sz(h)[g]
  /\ \A x \in Bl(h) \ {g} : x # b => Sz(h2)[x] = Sz(h)[x]
  /\ \A x \in Bl(h) \ {g} : Nx(h2)[x] = Nx(h)[x] /\ Pv(h2)[x] = Pv(h)[x]
  /\ MergeFeet(h2.foot, h.foot, b, g, Sz(h2))
  /\ h2.head = h.head /\ h2.start = h.start /\ h2.brk = h.brk /\ Replaced(h2.final, h.final, g, b)

LEMMA AbsorbEffect ==
    ASSUME NEW h, HeapType(h), NEW b \in Bl(h), NEW g \in Bl(h), b # g
    PROVE  AbsorbedIs(A!Absorb(h, b, g), h, b, g)
  <1> SUFFICES ASSUME NEW h2, h2 = A!Absorb(h, b, g)
               PROVE  AbsorbedIs(h2, h, b, g)
    OBVIOUS
  <1> DEFINE s == Sz(h)[b] + (ENTRY + END) + Sz(h)[g]
             p == Pv(h)[b]
             n == Nx(h)[b]
             h1 == A!PutBlock(h, b, s, TRUE, p, n)
             hdr3 == A!Without(h1.hdr, g)
             foot3 == A!Without(h1.foot, g - END)
             h3 == HeapWith(h1, hdr3, foot3)
             final2 == IF h.final = g THEN b ELSE h.final
  <1>0. s \in Nat /\ p \in Nat /\ n \in Nat /\ b \in Nat \ {NULL}
    BY Fields, Layout
  <1>1. h.hdr[b].size = Sz(h)[b] /\ h.hdr[g].size = Sz(h)[g] /\ h.hdr[b].prev = p /\ h.hdr[b].next = n
    BY Fields
  <1>2. h2 = [h1 EXCEPT !.hdr = A!Without(@, g), !.foot = A!Without(@, g - END), !.final = final2]
    BY <1>1 DEF A!Absorb, A!FinalAfter, A!Overhead
  <1> HIDE DEF s, p, n
  <1>3. PutIs(h1, h, b, s, p, n, Fr(h) \cup {b})
    BY <1>0, PutFree
  <1> HIDE DEF h1
  <1>4. /\ HeapType(h1) /\ Bl(h1) = Bl(h) /\ Fr(h1) = Fr(h) \cup {b}
        /\ h1.head = h.head /\ h1.start = h.start /\ h1.final = h.final /\ h1.brk = h.brk
        /\ h1.foot = A!With(h.foot, b + ENTRY + s, s)
    BY <1>3 DEF PutIs, SameRest
  <1>5. /\ hdr3 \in [Bl(h) \ {g} -> Header] /\ Bl(h) \ {g} \subseteq Nat \ {NULL}
        /\ \A x \in Bl(h) \ {g} : hdr3[x] = h1.hdr[x]
    BY <1>4 DEF A!Without, HeapType, Bl
  <1> HIDE DEF hdr3
  <1>6. HeadersAre(h3, h1, Bl(h) \ {g}, hdr3, foot3)
    BY <1>4, <1>5, HeadersPut
  <1>7. h2 = HeapRest(h3, h.head, h.start, final2, h.brk)
    <2>1. h1 = [hdr |-> h1.hdr, foot |-> h1.foot, head |-> h.head, start |-> h.start,
                final |-> h.final, brk |-> h.brk]
      BY <1>4 DEF HeapType
    <2>2. h2 = [hdr |-> hdr3, foot |-> foot3, head |-> h.head, start |-> h.start,
                final |-> final2, brk |-> h.brk]
      <3> DEFINE hd1 == h1.hdr
                 ft1 == h1.foot
      <3>1. hdr3 = A!Without(hd1, g) /\ foot3 = A!Without(ft1, g - END)
        BY DEF hdr3
      <3>2. h1 = [hdr |-> hd1, foot |-> ft1, head |-> h.head, start |-> h.start,
                  final |-> h.final, brk |-> h.brk]
        BY <2>1
      <3> HIDE DEF hd1, ft1, foot3, final2
      <3> QED BY ONLY <1>2, <3>1, <3>2
    <2>3. h3 = [hdr |-> h3.hdr, foot |-> h3.foot, head |-> h3.head, start |-> h3.start,
                final |-> h3.final, brk |-> h3.brk]
          /\ h3.hdr = hdr3 /\ h3.foot = foot3
      BY <1>4, <1>6 DEF HeadersAre, HeapType, SameRest
    <2> HIDE DEF h3, foot3, final2
    <2>4. ASSUME NEW k, k = HeapRest(h3, h.head, h.start, final2, h.brk)
          PROVE  k = h2
      <3>1. k = [h3 EXCEPT !.head = h.head, !.start = h.start, !.final = final2, !.brk = h.brk]
        BY <2>4 DEF HeapRest
      <3>2. k = [hdr |-> h3.hdr, foot |-> h3.foot, head |-> h.head, start |-> h.start,
                 final |-> final2, brk |-> h.brk]
        BY ONLY <2>3, <3>1
      <3> QED BY ONLY <2>2, <2>3, <3>2
    <2> QED BY <2>4
  <1> HIDE DEF h3, foot3
  <1>8. HeapType(h3) /\ Bl(h3) = Bl(h) \ {g} /\ h3.hdr = hdr3 /\ h3.foot = foot3
    BY <1>6 DEF HeadersAre
  <1>9. RestIs(h2, h3, h.head, h.start, final2, h.brk)
    BY <1>7, <1>8, RestEffect
  <1>10. \A x \in Bl(h) \ {g} : h3.hdr[x] = h1.hdr[x]
    BY <1>5, <1>8
  <1>11. Fr(h3) = Fr(h1) \ {g}
    BY <1>4, <1>8, <1>10 DEF Fr
  <1>12. \A x \in Bl(h) \ {g} : Sz(h3)[x] = Sz(h1)[x] /\ Nx(h3)[x] = Nx(h1)[x] /\ Pv(h3)[x] = Pv(h1)[x]
    BY <1>4, <1>8, <1>10 DEF Sz, Nx, Pv
  <1>13. Sz(h3)[b] = s /\ \A x \in Bl(h) \ {g} : x # b => Sz(h3)[x] = Sz(h)[x]
    <2>1. Sz(h1)[b] = s /\ \A x \in Bl(h) \ {b} : Sz(h1)[x] = Sz(h)[x]
      BY <1>3 DEF PutIs
    <2> QED BY <1>12, <2>1
  <1>14. \A x \in Bl(h) \ {g} : Nx(h3)[x] = Nx(h)[x] /\ Pv(h3)[x] = Pv(h)[x]
    <2>1. /\ Nx(h1)[b] = Nx(h)[b] /\ Pv(h1)[b] = Pv(h)[b]
          /\ \A x \in Bl(h) \ {b} : Nx(h1)[x] = Nx(h)[x] /\ Pv(h1)[x] = Pv(h)[x]
      BY <1>3 DEF PutIs, p, n
    <2> QED BY <1>12, <2>1
  <1>15. /\ HeapType(h2) /\ Bl(h2) = Bl(h) \ {g} /\ Fr(h2) = (Fr(h) \cup {b}) \ {g}
         /\ Sz(h2) = Sz(h3) /\ Nx(h2) = Nx(h3) /\ Pv(h2) = Pv(h3) /\ h2.foot = foot3
         /\ h2.head = h.head /\ h2.start = h.start /\ h2.brk = h.brk /\ h2.final = final2
    BY <1>4, <1>8, <1>9, <1>11 DEF RestIs
  <1>16. Replaced(h2.final, h.final, g, b)
    BY <1>15 DEF Replaced
  <1>17. MergeFeet(h2.foot, h.foot, b, g, Sz(h2))
    BY <1>4, <1>13, <1>15 DEF MergeFeet, foot3
  <1>18. s = Sz(h)[b] + (ENTRY + END) + Sz(h)[g]
    BY DEF s
  <1> QED BY ONLY <1>13, <1>14, <1>15, <1>16, <1>17, <1>18 DEF AbsorbedIs
\* Both links of e and the head are set.
Relink(h, e, a, b, hd) == [h EXCEPT !.hdr[e].prev = a, !.hdr[e].next = b, !.head = hd]
RelinkIs(h2, h, e, a, b, hd) ==
  /\ HeapType(h2) /\ Bl(h2) = Bl(h) /\ Fr(h2) = Fr(h) /\ h2.foot = h.foot
  /\ h2.head = hd /\ h2.start = h.start /\ h2.final = h.final /\ h2.brk = h.brk
  /\ Nx(h2)[e] = b /\ Pv(h2)[e] = a
  /\ \A x \in Bl(h) : Sz(h2)[x] = Sz(h)[x]
  /\ \A x \in Bl(h) \ {e} : Nx(h2)[x] = Nx(h)[x] /\ Pv(h2)[x] = Pv(h)[x]

LEMMA RelinkEffect ==
    ASSUME NEW h, HeapType(h), NEW e \in Bl(h), NEW a \in Nat, NEW b \in Nat, NEW hd
    PROVE  RelinkIs(Relink(h, e, a, b, hd), h, e, a, b, hd)
  <1> SUFFICES ASSUME NEW h2, h2 = Relink(h, e, a, b, hd)
               PROVE  RelinkIs(h2, h, e, a, b, hd)
    OBVIOUS
  <1> DEFINE h1 == A!SetPrev(A!SetNext(h, e, b), e, a)
  <1>0. e # NULL
    BY DEF HeapType
  <1>1. LinkIs(h1, h, e, b, e, a)
    BY LinkEffect
  <1>2. h2 = HeapRest(h1, hd, h.start, h.final, h.brk)
    <2> DEFINE r == h.hdr[e]
               r2 == [r EXCEPT !.prev = a, !.next = b]
               hdr2 == [h.hdr EXCEPT ![e] = r2]
    <2>0. h = [hdr |-> h.hdr, foot |-> h.foot, head |-> h.head, start |-> h.start,
               final |-> h.final, brk |-> h.brk]
          /\ h.hdr \in [Bl(h) -> Header] /\ r \in Header
      BY DEF HeapType
    <2>1. h2 = [hdr |-> hdr2, foot |-> h.foot, head |-> hd, start |-> h.start,
                final |-> h.final, brk |-> h.brk]
      BY ONLY e \in Bl(h), <2>0, h2 = Relink(h, e, a, b, hd) DEF Relink, Header
    <2>2. h1 = [hdr |-> hdr2, foot |-> h.foot, head |-> h.head, start |-> h.start,
                final |-> h.final, brk |-> h.brk]
      BY ONLY e \in Bl(h), <2>0, <1>0 DEF A!SetPrev, A!SetNext, A!NULL, Header
    <2> HIDE DEF h1, hdr2
    <2>3. ASSUME NEW k, k = HeapRest(h1, hd, h.start, h.final, h.brk)
          PROVE  k = h2
      <3>1. k = [h1 EXCEPT !.head = hd, !.start = h.start, !.final = h.final, !.brk = h.brk]
        BY <2>3 DEF HeapRest
      <3>2. k = [hdr |-> hdr2, foot |-> h.foot, head |-> hd, start |-> h.start,
                 final |-> h.final, brk |-> h.brk]
        BY ONLY <2>2, <3>1
      <3> QED BY ONLY <2>1, <3>2
    <2> QED BY <2>3
  <1> HIDE DEF h1
  <1>3. HeapType(h1) /\ Bl(h1) = Bl(h) /\ Fr(h1) = Fr(h) /\ h1.foot = h.foot
    BY <1>1 DEF LinkIs
  <1>4. RestIs(h2, h1, hd, h.start, h.final, h.brk)
    BY <1>2, <1>3, RestEffect
  <1>5. /\ HeapType(h2) /\ Bl(h2) = Bl(h) /\ Fr(h2) = Fr(h) /\ h2.foot = h.foot
        /\ h2.head = hd /\ h2.start = h.start /\ h2.final = h.final /\ h2.brk = h.brk
        /\ Sz(h2) = Sz(h1) /\ Nx(h2) = Nx(h1) /\ Pv(h2) = Pv(h1)
    BY <1>3, <1>4 DEF RestIs
  <1>6. \A x \in Bl(h) : /\ Sz(h1)[x] = Sz(h)[x]
                         /\ Nx(h1)[x] = IF x = e THEN b ELSE Nx(h)[x]
                         /\ Pv(h1)[x] = IF x = e THEN a ELSE Pv(h)[x]
    BY <1>1 DEF LinkIs
  <1> QED BY <1>5, <1>6 DEF RelinkIs

\* The part of the invariant that is not about the list.
Shaped(h) == HeapType(h) /\ Tiled(h) /\ Started(h) /\ Footed(h) /\ AlignedBlocks(h)

LEMMA SameShape ==
    ASSUME NEW h, Shaped(h), NEW h2, HeapType(h2), Bl(h2) = Bl(h), h2.foot = h.foot,
           \A x \in Bl(h) : Sz(h2)[x] = Sz(h)[x],
           h2.start = h.start, h2.final = h.final, h2.brk = h.brk
    PROVE  Shaped(h2) /\ Sz(h2) = Sz(h)
  <1>1. Sz(h2) = Sz(h)
    <2>1. Sz(h2) \in [Bl(h) -> Nat] /\ Sz(h) \in [Bl(h) -> Nat]
      BY Fields DEF Shaped
    <2> QED BY <2>1
  <1> QED BY <1>1 DEF Shaped, Tiled, Started, Footed, AlignedBlocks

LEMMA AbsorbShaped ==
    ASSUME NEW h, Shaped(h), NEW b \in Bl(h), NEW g \in Bl(h), EndOf(b, Sz(h)) = g,
           NEW h2, AbsorbedIs(h2, h, b, g)
    PROVE  /\ Shaped(h2) /\ EndOf(b, Sz(h2)) = EndOf(g, Sz(h)) /\ b # g
           /\ \A x \in Bl(h) \ {g} : x # b => EndOf(x, Sz(h2)) = EndOf(x, Sz(h))
  <1>0. /\ HeapType(h2) /\ Bl(h2) = Bl(h) \ {g}
        /\ Sz(h2)[b] = Sz(h)[b] + (ENTRY + END) + Sz(h)[g]
        /\ \A x \in Bl(h) \ {g} : x # b => Sz(h2)[x] = Sz(h)[x]
        /\ MergeFeet(h2.foot, h.foot, b, g, Sz(h2))
        /\ h2.start = h.start /\ h2.brk = h.brk /\ Replaced(h2.final, h.final, g, b)
    BY DEF AbsorbedIs
  <1>1. HeapType(h) /\ Tiling(Bl(h), Sz(h), h.brk, h.final) /\ Footers(Bl(h), Sz(h), h.foot)
    BY DEF Shaped, Tiled, Footed
  <1>2. MergeSizes(Bl(h), Sz(h), b, g, Sz(h2))
    <2>1. Sz(h2) \in [Bl(h) \ {g} -> Nat]
      BY <1>0, Fields
    <2> QED BY <1>0, <2>1 DEF MergeSizes
  <1>3. Tiling(Bl(h) \ {g}, Sz(h2), h.brk, h2.final) /\ b # g
        /\ EndOf(b, Sz(h2)) = EndOf(g, Sz(h))
        /\ \A x \in Bl(h) \ {g} : x # b => EndOf(x, Sz(h2)) = EndOf(x, Sz(h))
    <2>1. Replaced(h2.final, h.final, g, b)
      BY <1>0
    <2> QED BY ONLY <1>1, <1>2, <2>1, TileMerge
  <1>4. Tiled(h2)
    BY <1>0, <1>3 DEF Tiled
  <1>5. Started(h2)
    <2>1. h.start = Base
      BY DEF Shaped, Started
    <2> QED BY <1>0, <1>3, <2>1 DEF Started
  <1>6. Footed(h2)
    <2>1. Footers(Bl(h) \ {g}, Sz(h2), h2.foot)
      BY <1>0, <1>1, <1>2, FootMerge
    <2> QED BY <1>0, <2>1 DEF Footed
  <1>7. AlignedBlocks(h2)
    <2>0. \A x \in Bl(h) : Aligned(x - Base) /\ Aligned(Sz(h)[x] + (ENTRY + END))
      BY DEF Shaped, AlignedBlocks
    <2>1. Sz(h)[b] \in Nat /\ Sz(h)[g] \in Nat
      BY <1>1, Fields
    <2>2. Sz(h2)[b] + (ENTRY + END) = (Sz(h)[b] + (ENTRY + END)) + (Sz(h)[g] + (ENTRY + END))
      BY <1>0, <2>1, Layout
    <2>3. Aligned(Sz(h2)[b] + (ENTRY + END))
      BY <2>0, <2>2, AlignedPlus
    <2>4. ASSUME NEW x \in Bl(h2) PROVE Aligned(x - Base) /\ Aligned(Sz(h2)[x] + (ENTRY + END))
      <3>1. CASE x = b
        BY <2>0, <2>3, <3>1
      <3>2. CASE x # b
        BY <1>0, <2>0, <3>2
      <3> QED BY <3>1, <3>2
    <2> QED BY <2>4 DEF AlignedBlocks
  <1> QED BY <1>0, <1>3, <1>4, <1>5, <1>6, <1>7 DEF Shaped

\* What free leaves: a good heap, in which e is no longer in use and nothing else has changed hands.
FreeIs(h2, h, e) == Good(h2) /\ Used(h2) = Used(h) \ {e} /\ \A x \in Used(h2) : Sz(h2)[x] = Sz(h)[x]

LEMMA MergePreviousGood ==
    ASSUME NEW h, Good(h), NEW e \in Used(h), NEW p \in Fr(h), EndOf(p, Sz(h)) = e,
           EndOf(e, Sz(h)) \notin Fr(h), NEW h1, FreedIs(h1, h, e), NEW h2, AbsorbedIs(h2, h1, p, e)
    PROVE  FreeIs(h2, h, e)
  <1>0. e \in Bl(h) /\ e \notin Fr(h) /\ p \in Bl(h) /\ Fr(h) \subseteq Bl(h) /\ p # e
    BY GoodNumbers DEF Used
  <1>1. /\ HeapType(h1) /\ Bl(h1) = Bl(h) /\ h1.foot = h.foot /\ Fr(h1) = Fr(h) \cup {e}
        /\ h1.head = h.head /\ h1.start = h.start /\ h1.final = h.final /\ h1.brk = h.brk
        /\ \A x \in Bl(h) : Sz(h1)[x] = Sz(h)[x] /\ Nx(h1)[x] = Nx(h)[x] /\ Pv(h1)[x] = Pv(h)[x]
    BY DEF FreedIs, SameRest
  <1>2. Shaped(h)
    BY DEF Good, Shaped
  <1>3. Shaped(h1) /\ Sz(h1) = Sz(h)
    BY <1>1, <1>2, SameShape
  <1>4. /\ Shaped(h2) /\ EndOf(p, Sz(h2)) = EndOf(e, Sz(h))
        /\ \A x \in Bl(h) \ {e} : x # p => EndOf(x, Sz(h2)) = EndOf(x, Sz(h))
    BY <1>0, <1>1, <1>3, AbsorbShaped
  <1>5. /\ HeapType(h2) /\ Bl(h2) = Bl(h) \ {e} /\ Fr(h2) = ((Fr(h) \cup {e}) \cup {p}) \ {e}
        /\ \A x \in Bl(h) \ {e} : x # p => Sz(h2)[x] = Sz(h1)[x]
        /\ \A x \in Bl(h) \ {e} : Nx(h2)[x] = Nx(h1)[x] /\ Pv(h2)[x] = Pv(h1)[x]
        /\ h2.head = h1.head
    BY <1>1 DEF AbsorbedIs
  <1>6. Fr(h2) = Fr(h)
    BY <1>0, <1>5
  <1>7. ListLinked(h2)
    <2>1. List(Fr(h), Nx(h), Pv(h), h.head)
      BY DEF Good, ListLinked
    <2>2. \A x \in Fr(h) : Nx(h2)[x] = Nx(h)[x] /\ Pv(h2)[x] = Pv(h)[x]
      BY <1>0, <1>1, <1>5
    <2>3. List(Fr(h), Nx(h2), Pv(h2), h.head)
      BY <2>1, <2>2, ListFrame
    <2> QED BY <1>1, <1>5, <1>6, <2>3 DEF ListLinked
  <1>8. Used(h2) = Used(h) \ {e}
    BY <1>5, <1>6 DEF Used
  <1>9. \A x \in Used(h2) : x \in Used(h) /\ x \in Bl(h) \ {e} /\ x # p
    BY <1>0, <1>8 DEF Used
  <1>10. Unlinked(h2)
    <2>1. \A x \in Used(h) : Nx(h)[x] = NULL /\ Pv(h)[x] = NULL
      BY DEF Good, Unlinked
    <2> QED BY <1>1, <1>5, <1>9, <2>1 DEF Unlinked
  <1>11. Coalesced(h2)
    <2>1. \A x \in Fr(h) : EndOf(x, Sz(h)) \notin Fr(h)
      BY DEF Good, Coalesced
    <2>2. ASSUME NEW x \in Fr(h) PROVE EndOf(x, Sz(h2)) \notin Fr(h)
      <3>1. CASE x = p
        BY <1>4, <3>1
      <3>2. CASE x # p
        BY <1>0, <1>4, <2>1, <3>2
      <3> QED BY <3>1, <3>2
    <2> QED BY <1>6, <2>2 DEF Coalesced
  <1>12. \A x \in Used(h2) : Sz(h2)[x] = Sz(h)[x]
    BY <1>1, <1>5, <1>9
  <1> QED BY <1>4, <1>7, <1>8, <1>10, <1>11, <1>12 DEF FreeIs, Good, Shaped
LEMMA MergeNextGood ==
    ASSUME NEW h, Good(h), NEW e \in Used(h), NEW n \in Fr(h), EndOf(e, Sz(h)) = n,
           \A x \in Fr(h) : EndOf(x, Sz(h)) # e,
           NEW a, a = Pv(h)[n], NEW b, b = Nx(h)[n], NEW hd, Replaced(hd, h.head, n, e),
           NEW h1, FreedIs(h1, h, e), NEW h2, RelinkIs(h2, h1, e, a, b, hd),
           NEW h3, LinkIs(h3, h2, a, e, b, e), NEW h4, AbsorbedIs(h4, h3, e, n)
    PROVE  FreeIs(h4, h, e)
  <1>0. /\ e \in Bl(h) /\ e \notin Fr(h) /\ n \in Bl(h) /\ Fr(h) \subseteq Bl(h) /\ n # e
        /\ n \in Nat /\ e \in Nat /\ e # NULL /\ e < n
    BY GoodNumbers DEF Used
  <1>g. List(Fr(h), Nx(h), Pv(h), h.head)
    BY DEF Good, ListLinked
  <1>a. (a = NULL \/ (a \in Fr(h) /\ a < n)) /\ (b = NULL \/ (b \in Fr(h) /\ n < b))
    BY <1>g, LinksAgree
  <1>n. a # e /\ b # e /\ a # n /\ b # n
    BY <1>0, <1>a DEF NULL
  <1>1. /\ HeapType(h1) /\ Bl(h1) = Bl(h) /\ h1.foot = h.foot /\ Fr(h1) = Fr(h) \cup {e}
        /\ h1.head = h.head /\ h1.start = h.start /\ h1.final = h.final /\ h1.brk = h.brk
        /\ \A x \in Bl(h) : Sz(h1)[x] = Sz(h)[x] /\ Nx(h1)[x] = Nx(h)[x] /\ Pv(h1)[x] = Pv(h)[x]
    BY DEF FreedIs, SameRest
  <1>2. /\ HeapType(h2) /\ Bl(h2) = Bl(h) /\ h2.foot = h.foot /\ Fr(h2) = Fr(h) \cup {e}
        /\ h2.head = hd /\ h2.start = h.start /\ h2.final = h.final /\ h2.brk = h.brk
        /\ Nx(h2)[e] = b /\ Pv(h2)[e] = a
        /\ \A x \in Bl(h) : Sz(h2)[x] = Sz(h)[x]
        /\ \A x \in Bl(h) \ {e} : Nx(h2)[x] = Nx(h)[x] /\ Pv(h2)[x] = Pv(h)[x]
    BY <1>1 DEF RelinkIs
  <1>3. /\ HeapType(h3) /\ Bl(h3) = Bl(h) /\ h3.foot = h.foot /\ Fr(h3) = Fr(h) \cup {e}
        /\ h3.head = hd /\ h3.start = h.start /\ h3.final = h.final /\ h3.brk = h.brk
        /\ \A x \in Bl(h) : Sz(h3)[x] = Sz(h)[x]
    BY <1>2 DEF LinkIs, SameRest
  <1>l. \A x \in Bl(h) : /\ Nx(h3)[x] = IF x = a THEN e ELSE Nx(h2)[x]
                         /\ Pv(h3)[x] = IF x = b THEN e ELSE Pv(h2)[x]
    BY <1>2 DEF LinkIs
  <1>4. Shaped(h) /\ Shaped(h3) /\ Sz(h3) = Sz(h)
    <2>1. Shaped(h)
      BY DEF Good, Shaped
    <2> QED BY <1>3, <2>1, SameShape
  <1>5. /\ Shaped(h4) /\ EndOf(e, Sz(h4)) = EndOf(n, Sz(h))
        /\ \A x \in Bl(h) \ {n} : x # e => EndOf(x, Sz(h4)) = EndOf(x, Sz(h))
    BY <1>0, <1>3, <1>4, AbsorbShaped
  <1>6. /\ HeapType(h4) /\ Bl(h4) = Bl(h) \ {n} /\ Fr(h4) = ((Fr(h) \cup {e}) \cup {e}) \ {n}
        /\ \A x \in Bl(h) \ {n} : x # e => Sz(h4)[x] = Sz(h3)[x]
        /\ \A x \in Bl(h) \ {n} : Nx(h4)[x] = Nx(h3)[x] /\ Pv(h4)[x] = Pv(h3)[x]
        /\ h4.head = hd
    BY <1>3 DEF AbsorbedIs
  <1>7. Fr(h4) = (Fr(h) \ {n}) \cup {e}
    BY <1>0, <1>6
  <1>8. ListLinked(h4)
    <2>1. ReplaceLinks(Fr(h), Nx(h), Pv(h), h.head, n, e, Nx(h4), Pv(h4), hd)
      <3>1. Nx(h4)[e] = b /\ Pv(h4)[e] = a
        BY <1>0, <1>2, <1>6, <1>l, <1>n
      <3>2. ASSUME NEW x \in Fr(h) \ {n}
            PROVE  /\ Nx(h4)[x] = IF x = a THEN e ELSE Nx(h)[x]
                   /\ Pv(h4)[x] = IF x = b THEN e ELSE Pv(h)[x]
        <4>1. x \in Bl(h) \ {n} /\ x # e
          BY <1>0
        <4>2. Nx(h4)[x] = Nx(h3)[x] /\ Pv(h4)[x] = Pv(h3)[x] /\ Nx(h2)[x] = Nx(h)[x] /\ Pv(h2)[x] = Pv(h)[x]
          BY <1>2, <1>6, <4>1
        <4> QED BY <1>l, <4>1, <4>2
      <3>3. hd = IF h.head = n THEN e ELSE h.head
        BY DEF Replaced
      <3> QED BY <3>1, <3>2, <3>3 DEF ReplaceLinks
    <2>2. \A x \in Fr(h) \ {n} : (x < n /\ x < e) \/ (n < x /\ e < x)
      <3> SUFFICES ASSUME NEW x \in Fr(h) \ {n} PROVE (x < n /\ x < e) \/ (n < x /\ e < x)
        OBVIOUS
      <3>1. x \in Bl(h) /\ x \in Nat /\ x # e /\ x # n
        BY <1>0, GoodNumbers
      <3>2. e < x => n <= x
        BY <1>0, <3>1, GoodNumbers
      <3> QED BY <1>0, <3>1, <3>2
    <2>3. e \in Nat \ {NULL}
      BY <1>0
    <2>4. List((Fr(h) \ {n}) \cup {e}, Nx(h4), Pv(h4), hd)
      BY ONLY <1>0, <1>g, <2>1, <2>2, <2>3, n \in Fr(h), ListReplace
    <2> QED BY <1>6, <1>7, <2>4 DEF ListLinked
  <1>9. Used(h4) = Used(h) \ {e}
    BY <1>0, <1>6, <1>7 DEF Used
  <1>10. \A x \in Used(h4) : x \in Used(h) /\ x \in Bl(h) \ {n} /\ x # e /\ x \notin Fr(h)
    BY <1>0, <1>9 DEF Used
  <1>11. Unlinked(h4)
    <2>1. \A x \in Used(h) : Nx(h)[x] = NULL /\ Pv(h)[x] = NULL
      BY DEF Good, Unlinked
    <2> SUFFICES ASSUME NEW x \in Used(h4) PROVE Nx(h4)[x] = NULL /\ Pv(h4)[x] = NULL
      BY DEF Unlinked
    <2>2. x \in Bl(h) /\ x \in Bl(h) \ {n} /\ x # e /\ x \notin Fr(h) /\ x # NULL /\ x \in Used(h)
      BY <1>10, GoodNumbers
    <2>3. x # a /\ x # b
      BY <1>a, <2>2
    <2>4. Nx(h4)[x] = Nx(h3)[x] /\ Pv(h4)[x] = Pv(h3)[x] /\ Nx(h2)[x] = Nx(h)[x] /\ Pv(h2)[x] = Pv(h)[x]
      BY <1>2, <1>6, <2>2
    <2> QED BY <1>l, <2>1, <2>2, <2>3, <2>4
  <1>12. Coalesced(h4)
    <2>1. \A x \in Fr(h) : EndOf(x, Sz(h)) \notin Fr(h)
      BY DEF Good, Coalesced
    <2>2. ASSUME NEW x \in Fr(h4) PROVE EndOf(x, Sz(h4)) \notin Fr(h4)
      <3>1. CASE x = e
        <4>1. EndOf(n, Sz(h)) # e
          <5>1. n < EndOf(n, Sz(h)) /\ EndOf(n, Sz(h)) \in Nat
            BY <1>0, GoodNumbers
          <5> QED BY <1>0, <5>1
        <4> QED BY <1>5, <1>7, <2>1, <3>1, <4>1
      <3>2. CASE x # e
        <4>1. x \in Fr(h) /\ x \in Bl(h) \ {n}
          BY <1>0, <1>7, <3>2
        <4> QED BY <1>5, <1>7, <2>1, <3>2, <4>1
      <3> QED BY <3>1, <3>2
    <2> QED BY <2>2 DEF Coalesced
  <1>13. \A x \in Used(h4) : Sz(h4)[x] = Sz(h)[x]
    BY <1>3, <1>6, <1>10
  <1> QED BY <1>5, <1>8, <1>9, <1>11, <1>12, <1>13 DEF FreeIs, Good, Shaped
\* With e in use between them, the free block before the free block n is p.
LEMMA PreviousFree ==
    ASSUME NEW h, Good(h), NEW e \in Used(h), NEW p \in Fr(h), EndOf(p, Sz(h)) = e,
           NEW n \in Fr(h), EndOf(e, Sz(h)) = n
    PROVE  Pv(h)[n] = p /\ h.head # n
  <1>0. /\ e \in Bl(h) /\ e \notin Fr(h) /\ Fr(h) \subseteq Bl(h)
        /\ n \in Nat /\ e \in Nat /\ p \in Nat /\ p # NULL /\ e < n /\ p < e
    BY GoodNumbers DEF Used
  <1>1. List(Fr(h), Nx(h), Pv(h), h.head)
    BY DEF Good, ListLinked
  <1>2. ASSUME NEW y \in Fr(h) PROVE n <= y \/ y <= p
    <2>1. y \in Bl(h) /\ y \in Nat /\ y # e
      BY <1>0, GoodNumbers
    <2>2. p < y => e <= y
      BY <1>0, <2>1, GoodNumbers
    <2>3. e < y => n <= y
      BY <1>0, <2>1, GoodNumbers
    <2> QED BY <1>0, <2>1, <2>2, <2>3
  <1>3. IsPrev(Pv(h)[n], n, Fr(h))
    BY <1>1 DEF List, Prevs
  <1>4. Pv(h)[n] = p
    <2>1. p < n
      BY <1>0
    <2>2. Pv(h)[n] # NULL
      BY <1>0, <1>3, <2>1 DEF IsPrev
    <2>3. /\ Pv(h)[n] \in Fr(h) /\ Pv(h)[n] < n
          /\ \A y \in Fr(h) : n <= y \/ y <= Pv(h)[n]
      BY <1>3, <2>2 DEF IsPrev
    <2>4. Pv(h)[n] \in Nat
      BY <2>3, <1>0, GoodNumbers
    <2>5. p <= Pv(h)[n] /\ Pv(h)[n] <= p
      BY <1>0, <1>2, <2>1, <2>3, <2>4
    <2> QED BY <1>0, <2>4, <2>5
  <1>5. h.head # n
    BY <1>0, <1>1, <1>4, LinksAgree
  <1> QED BY <1>4, <1>5

LEMMA MergeBothGood ==
    ASSUME NEW h, Good(h), NEW e \in Used(h), NEW p \in Fr(h), EndOf(p, Sz(h)) = e,
           NEW n \in Fr(h), EndOf(e, Sz(h)) = n, NEW b, b = Nx(h)[n],
           NEW h1, FreedIs(h1, h, e), NEW h2, LinkIs(h2, h1, p, b, b, p),
           NEW h3, AbsorbedIs(h3, h2, e, n), NEW h4, AbsorbedIs(h4, h3, p, e)
    PROVE  FreeIs(h4, h, e)
  <1>0. /\ e \in Bl(h) /\ e \notin Fr(h) /\ n \in Bl(h) /\ Fr(h) \subseteq Bl(h) /\ n # e
        /\ p \in Bl(h) /\ p # n /\ p # e
        /\ n \in Nat /\ e \in Nat /\ p \in Nat /\ p < e /\ e < n
    BY GoodNumbers DEF Used
  <1>g. List(Fr(h), Nx(h), Pv(h), h.head)
    BY DEF Good, ListLinked
  <1>a. b = NULL \/ (b \in Fr(h) /\ n < b)
    BY <1>g, LinksAgree
  <1>p. Pv(h)[n] = p /\ h.head # n
    BY PreviousFree
  <1>1. /\ HeapType(h1) /\ Bl(h1) = Bl(h) /\ h1.foot = h.foot /\ Fr(h1) = Fr(h) \cup {e}
        /\ h1.head = h.head /\ h1.start = h.start /\ h1.final = h.final /\ h1.brk = h.brk
        /\ \A x \in Bl(h) : Sz(h1)[x] = Sz(h)[x] /\ Nx(h1)[x] = Nx(h)[x] /\ Pv(h1)[x] = Pv(h)[x]
    BY DEF FreedIs, SameRest
  <1>2. /\ HeapType(h2) /\ Bl(h2) = Bl(h) /\ h2.foot = h.foot /\ Fr(h2) = Fr(h) \cup {e}
        /\ h2.head = h.head /\ h2.start = h.start /\ h2.final = h.final /\ h2.brk = h.brk
        /\ \A x \in Bl(h) : Sz(h2)[x] = Sz(h)[x]
    BY <1>1 DEF LinkIs, SameRest
  <1>l. \A x \in Bl(h) : /\ Nx(h2)[x] = IF x = p THEN b ELSE Nx(h1)[x]
                         /\ Pv(h2)[x] = IF x = b THEN p ELSE Pv(h1)[x]
    BY <1>1 DEF LinkIs
  <1>3. Shaped(h) /\ Shaped(h2) /\ Sz(h2) = Sz(h)
    <2>1. Shaped(h)
      BY DEF Good, Shaped
    <2> QED BY <1>2, <2>1, SameShape
  <1>4. /\ Shaped(h3) /\ EndOf(e, Sz(h3)) = EndOf(n, Sz(h))
        /\ \A x \in Bl(h) \ {n} : x # e => EndOf(x, Sz(h3)) = EndOf(x, Sz(h))
    BY <1>0, <1>2, <1>3, AbsorbShaped
  <1>5. /\ HeapType(h3) /\ Bl(h3) = Bl(h) \ {n} /\ Fr(h3) = ((Fr(h) \cup {e}) \cup {e}) \ {n}
        /\ \A x \in Bl(h) \ {n} : x # e => Sz(h3)[x] = Sz(h2)[x]
        /\ \A x \in Bl(h) \ {n} : Nx(h3)[x] = Nx(h2)[x] /\ Pv(h3)[x] = Pv(h2)[x]
        /\ h3.head = h.head
    BY <1>2 DEF AbsorbedIs
  <1>6. e \in Bl(h3) /\ p \in Bl(h3) /\ EndOf(p, Sz(h3)) = e
    BY <1>0, <1>4, <1>5
  <1>7. /\ Shaped(h4) /\ EndOf(p, Sz(h4)) = EndOf(n, Sz(h))
        /\ \A x \in Bl(h3) \ {e} : x # p => EndOf(x, Sz(h4)) = EndOf(x, Sz(h3))
    BY <1>4, <1>6, AbsorbShaped
  <1>8. /\ HeapType(h4) /\ Bl(h4) = Bl(h3) \ {e} /\ Fr(h4) = (Fr(h3) \cup {p}) \ {e}
        /\ \A x \in Bl(h3) \ {e} : x # p => Sz(h4)[x] = Sz(h3)[x]
        /\ \A x \in Bl(h3) \ {e} : Nx(h4)[x] = Nx(h3)[x] /\ Pv(h4)[x] = Pv(h3)[x]
        /\ h4.head = h.head
    BY <1>5 DEF AbsorbedIs
  <1>9. Fr(h4) = Fr(h) \ {n} /\ Bl(h4) = Bl(h) \ {n, e}
    BY <1>0, <1>5, <1>8
  <1>10. ASSUME NEW x \in Bl(h) \ {n, e}
         PROVE  /\ Nx(h4)[x] = IF x = p THEN b ELSE Nx(h)[x]
                /\ Pv(h4)[x] = IF x = b THEN p ELSE Pv(h)[x]
                /\ x # p => Sz(h4)[x] = Sz(h)[x] /\ EndOf(x, Sz(h4)) = EndOf(x, Sz(h))
    <2>1. x \in Bl(h) /\ x \in Bl(h) \ {n} /\ x \in Bl(h3) \ {e} /\ x # e
      BY <1>5
    <2>2. Nx(h4)[x] = Nx(h2)[x] /\ Pv(h4)[x] = Pv(h2)[x] /\ Nx(h1)[x] = Nx(h)[x] /\ Pv(h1)[x] = Pv(h)[x]
      BY <1>1, <1>5, <1>8, <2>1
    <2>3. x # p => Sz(h4)[x] = Sz(h)[x]
      BY <1>2, <1>5, <1>8, <2>1
    <2>4. x # p => EndOf(x, Sz(h4)) = EndOf(x, Sz(h))
      BY <1>4, <1>7, <2>1
    <2> QED BY <1>l, <2>1, <2>2, <2>3, <2>4
  <1>11. ListLinked(h4)
    <2>1. \A x \in Fr(h) \ {n} : x \in Bl(h) \ {n, e}
      BY <1>0
    <2>2. h.head = IF h.head = n THEN Nx(h)[n] ELSE h.head
      BY <1>p
    <2>3. RemoveLinks(Fr(h), Nx(h), Pv(h), h.head, n, Nx(h4), Pv(h4), h.head)
      BY <1>10, <1>p, <2>1, <2>2 DEF RemoveLinks
    <2>4. List(Fr(h) \ {n}, Nx(h4), Pv(h4), h.head)
      BY ONLY <1>g, <2>3, n \in Fr(h), ListRemove
    <2> QED BY <1>8, <1>9, <2>4 DEF ListLinked
  <1>12. Used(h4) = Used(h) \ {e}
    BY <1>0, <1>9 DEF Used
  <1>13. \A x \in Used(h4) : /\ x \in Used(h) /\ x \in Bl(h) \ {n, e} /\ x # p /\ x \notin Fr(h)
                             /\ x # NULL
    <2>1. \A x \in Bl(h) : x # NULL
      BY GoodNumbers
    <2> QED BY <1>0, <1>12, <2>1 DEF Used
  <1>14. Unlinked(h4)
    <2>1. \A x \in Used(h) : Nx(h)[x] = NULL /\ Pv(h)[x] = NULL
      BY DEF Good, Unlinked
    <2> SUFFICES ASSUME NEW x \in Used(h4) PROVE Nx(h4)[x] = NULL /\ Pv(h4)[x] = NULL
      BY DEF Unlinked
    <2>2. x \in Bl(h) \ {n, e} /\ x # p /\ x \notin Fr(h) /\ x # NULL /\ x \in Used(h)
      BY <1>13
    <2>3. x # b
      BY <1>a, <2>2
    <2> QED BY <1>10, <2>1, <2>2, <2>3
  <1>15. Coalesced(h4)
    <2>1. \A x \in Fr(h) : EndOf(x, Sz(h)) \notin Fr(h)
      BY DEF Good, Coalesced
    <2>2. ASSUME NEW x \in Fr(h4) PROVE EndOf(x, Sz(h4)) \notin Fr(h4)
      <3>1. CASE x = p
        BY <1>7, <1>9, <2>1, <3>1
      <3>2. CASE x # p
        <4>1. x \in Fr(h) /\ x \in Bl(h) \ {n, e}
          BY <1>0, <1>9
        <4>2. EndOf(x, Sz(h4)) = EndOf(x, Sz(h))
          BY <1>10, <3>2, <4>1
        <4> QED BY <1>9, <2>1, <4>1, <4>2
      <3> QED BY <3>1, <3>2
    <2> QED BY <2>2 DEF Coalesced
  <1>16. \A x \in Used(h4) : Sz(h4)[x] = Sz(h)[x]
    BY <1>10, <1>13
  <1> QED BY <1>7, <1>11, <1>12, <1>14, <1>15, <1>16 DEF FreeIs, Good, Shaped
\* e is put into the list between p and n.
InsertIs(h2, h, e, p, n) ==
  /\ HeapType(h2) /\ Bl(h2) = Bl(h) /\ Fr(h2) = Fr(h) /\ h2.foot = h.foot
  /\ h2.start = h.start /\ h2.final = h.final /\ h2.brk = h.brk
  /\ h2.head = IF p = NULL THEN e ELSE h.head
  /\ \A x \in Bl(h) : Sz(h2)[x] = Sz(h)[x]
  /\ Nx(h2)[e] = n /\ Pv(h2)[e] = p
  /\ \A x \in Bl(h) \ {e} : /\ Nx(h2)[x] = IF x = p THEN e ELSE Nx(h)[x]
                            /\ Pv(h2)[x] = IF x = n THEN e ELSE Pv(h)[x]
Between(p, n, e, F) == IsPrev(p, e, F) /\ IsNext(n, e, F)

LEMMA InsertGood ==
    ASSUME NEW h, Good(h), NEW e \in Used(h), EndOf(e, Sz(h)) \notin Fr(h),
           \A x \in Fr(h) : EndOf(x, Sz(h)) # e, NEW p, NEW n, Between(p, n, e, Fr(h)),
           NEW h1, FreedIs(h1, h, e), NEW h2, InsertIs(h2, h1, e, p, n)
    PROVE  FreeIs(h2, h, e)
  <1>0. /\ e \in Bl(h) /\ e \notin Fr(h) /\ Fr(h) \subseteq Bl(h) /\ e \in Nat /\ e # NULL
        /\ e < EndOf(e, Sz(h)) /\ EndOf(e, Sz(h)) \in Nat
    BY GoodNumbers DEF Used
  <1>g. List(Fr(h), Nx(h), Pv(h), h.head)
    BY DEF Good, ListLinked
  <1>b. IsPrev(p, e, Fr(h)) /\ IsNext(n, e, Fr(h))
    BY DEF Between
  <1>a. (p = NULL \/ p \in Fr(h)) /\ (n = NULL \/ n \in Fr(h))
    BY <1>b DEF IsPrev, IsNext
  <1>1. /\ HeapType(h1) /\ Bl(h1) = Bl(h) /\ h1.foot = h.foot /\ Fr(h1) = Fr(h) \cup {e}
        /\ h1.head = h.head /\ h1.start = h.start /\ h1.final = h.final /\ h1.brk = h.brk
        /\ \A x \in Bl(h) : Sz(h1)[x] = Sz(h)[x] /\ Nx(h1)[x] = Nx(h)[x] /\ Pv(h1)[x] = Pv(h)[x]
    BY DEF FreedIs, SameRest
  <1>2. /\ HeapType(h2) /\ Bl(h2) = Bl(h) /\ h2.foot = h.foot /\ Fr(h2) = Fr(h) \cup {e}
        /\ h2.start = h.start /\ h2.final = h.final /\ h2.brk = h.brk
        /\ \A x \in Bl(h) : Sz(h2)[x] = Sz(h)[x]
        /\ h2.head = IF p = NULL THEN e ELSE h.head
        /\ Nx(h2)[e] = n /\ Pv(h2)[e] = p
    BY <1>1 DEF InsertIs
  <1>l. \A x \in Bl(h) \ {e} : /\ Nx(h2)[x] = IF x = p THEN e ELSE Nx(h)[x]
                               /\ Pv(h2)[x] = IF x = n THEN e ELSE Pv(h)[x]
    BY <1>1 DEF InsertIs
  <1>3. Shaped(h2) /\ Sz(h2) = Sz(h)
    <2>1. Shaped(h)
      BY DEF Good, Shaped
    <2> QED BY <1>2, <2>1, SameShape
  <1>4. ListLinked(h2)
    <2>1. \A x \in Fr(h) : x \in Bl(h) \ {e}
      BY <1>0
    <2>2. InsertLinks(Fr(h), Nx(h), Pv(h), h.head, e, p, n, Nx(h2), Pv(h2), h2.head)
      BY <1>2, <1>l, <2>1 DEF InsertLinks
    <2>3. e \in Nat \ {NULL}
      BY <1>0
    <2>4. List(Fr(h) \cup {e}, Nx(h2), Pv(h2), h2.head)
      BY ONLY <1>0, <1>b, <1>g, <2>2, <2>3, ListInsert
    <2> QED BY <1>2, <2>4 DEF ListLinked
  <1>5. Used(h2) = Used(h) \ {e}
    BY <1>0, <1>2 DEF Used
  <1>6. Unlinked(h2)
    <2>1. \A x \in Used(h) : Nx(h)[x] = NULL /\ Pv(h)[x] = NULL
      BY DEF Good, Unlinked
    <2> SUFFICES ASSUME NEW x \in Used(h2) PROVE Nx(h2)[x] = NULL /\ Pv(h2)[x] = NULL
      BY DEF Unlinked
    <2>2. x \in Bl(h) \ {e} /\ x \notin Fr(h) /\ x \in Used(h)
      BY <1>5 DEF Used
    <2>3. x # NULL
      BY <2>2, GoodNumbers
    <2>4. x # p /\ x # n
      BY <1>a, <2>2, <2>3
    <2> QED BY <1>l, <2>1, <2>2, <2>4
  <1>7. Coalesced(h2)
    <2>1. \A x \in Fr(h) : EndOf(x, Sz(h)) \notin Fr(h)
      BY DEF Good, Coalesced
    <2>2. \A x \in Fr(h) \cup {e} : EndOf(x, Sz(h)) \notin Fr(h) \cup {e}
      BY <1>0, <2>1
    <2> QED BY <1>2, <1>3, <2>2 DEF Coalesced
  <1>8. \A x \in Used(h2) : Sz(h2)[x] = Sz(h)[x]
    BY <1>3
  <1> QED BY <1>3, <1>4, <1>5, <1>6, <1>7, <1>8 DEF FreeIs, Good, Shaped

\* Where the walk of an insertion ends: at the first free block behind e, or at the last one.
Walk(h, e) ==
  LET walk[p \in DOMAIN h.hdr] == IF h.hdr[p].next = A!NULL \/ p > e THEN p
                                  ELSE walk[h.hdr[p].next]
  IN walk[h.head]

LEMMA WalkEnds ==
    ASSUME NEW h, Good(h), NEW e \in Used(h), NEW h1, FreedIs(h1, h, e), NEW w, w = Walk(h1, e),
           h.head # NULL
    PROVE  /\ w \in Fr(h) /\ (Nx(h)[w] = NULL \/ w > e)
           /\ (Pv(h)[w] = NULL \/ Pv(h)[w] < e)
  <1> DEFINE Stop == {x \in Bl(h) : Nx(h)[x] = NULL \/ x > e}
             Eq(f) == f = [p \in DOMAIN h1.hdr |-> IF h1.hdr[p].next = A!NULL \/ p > e THEN p
                                                   ELSE f[h1.hdr[p].next]]
             walk == CHOOSE f : Eq(f)
  <1>1. w = walk[h1.head]
    BY DEF Walk
  <1>2. List(Fr(h), Nx(h), Pv(h), h.head) /\ HeapType(h)
    BY DEF Good, ListLinked
  <1>3. /\ Fr(h) \subseteq Bl(h) /\ NULL \notin Bl(h) /\ h.brk \in Nat /\ \A x \in Fr(h) : x <= h.brk
        /\ e \in Nat /\ e \in Bl(h) /\ e \notin Fr(h) /\ \A x \in Bl(h) : x \in Nat
    BY GoodNumbers DEF Used
  <1>4. \A x \in Bl(h) \ Fr(h) : Nx(h)[x] = NULL
    BY DEF Good, Unlinked, Used
  <1>5. Bl(h1) = Bl(h) /\ h1.head = h.head /\ \A x \in Bl(h) : h1.hdr[x].next = Nx(h)[x]
    <2>1. HeapType(h1) /\ Bl(h1) = Bl(h) /\ h1.head = h.head /\ \A x \in Bl(h) : Nx(h1)[x] = Nx(h)[x]
      BY DEF FreedIs, SameRest
    <2> QED BY <2>1, Fields
  <1>6. ASSUME NEW f PROVE Walks(f, Bl(h), Nx(h), Stop) <=> Eq(f)
    <2>1. [p \in DOMAIN h1.hdr |-> IF h1.hdr[p].next = A!NULL \/ p > e THEN p ELSE f[h1.hdr[p].next]]
          = [p \in Bl(h) |-> IF p \in Stop THEN p ELSE f[Nx(h)[p]]]
      <3>1. DOMAIN h1.hdr = Bl(h)
        BY <1>5 DEF Bl
      <3>2. \A p \in Bl(h) : p \in Stop <=> (h1.hdr[p].next = A!NULL \/ p > e)
        BY <1>5 DEF A!NULL
      <3> HIDE DEF Stop
      <3> QED BY <1>5, <3>1, <3>2
    <2> QED BY <2>1 DEF Walks
  <1>s. /\ \A x \in Bl(h) : Nx(h)[x] = NULL => x \in Stop
        /\ \A x \in Fr(h) \ Stop : x < e /\ Nx(h)[x] # NULL
    <2>1. ASSUME NEW x \in Fr(h) \ Stop PROVE x < e /\ Nx(h)[x] # NULL
      <3>1. x \in Bl(h) /\ x \in Nat /\ x # e
        BY <1>3
      <3> QED BY <1>3, <3>1
    <2> QED BY <2>1
  <1>t. \A x \in Stop : Nx(h)[x] = NULL \/ x > e
    OBVIOUS
  <1> HIDE DEF Eq, Stop
  <1>7. \E f : Walks(f, Bl(h), Nx(h), Stop)
    BY <1>2, <1>3, <1>4, <1>s, WalkExists
  <1>8. \E f : Eq(f)
    BY <1>6, <1>7
  <1>9. Eq(walk)
    BY <1>8
  <1>10. Walks(walk, Bl(h), Nx(h), Stop)
    BY <1>6, <1>9
  <1> HIDE DEF walk
  <1>11. walk[h.head] \in Fr(h) \cap Stop /\ (Pv(h)[walk[h.head]] = NULL \/ Pv(h)[walk[h.head]] < e)
    <2>1. WalkBound(Fr(h), h.brk) /\ WalkStops(Fr(h), Nx(h), Stop, e) /\ Fr(h) \subseteq Bl(h) /\ e \in Nat
      BY <1>3, <1>s DEF WalkBound, WalkStops
    <2>2. WalkedTo(walk[h.head], Fr(h), Pv(h), Stop, e)
      BY ONLY <1>2, <1>10, <2>1, h.head # NULL, WalkFinds
    <2> QED BY <2>2 DEF WalkedTo
  <1> QED BY <1>1, <1>5, <1>11, <1>t
\* The three ways Insert ends.
LEMMA InsertFirst ==
    ASSUME NEW h, Good(h), NEW e \in Used(h), NEW h1, FreedIs(h1, h, e), h.head = NULL,
           NEW h2, h2 = A!Insert(h1, e)
    PROVE  Between(NULL, NULL, e, Fr(h)) /\ InsertIs(h2, h1, e, NULL, NULL)
  <1>1. /\ HeapType(h1) /\ Bl(h1) = Bl(h) /\ h1.head = NULL /\ e \in Bl(h)
        /\ Nx(h1)[e] = Nx(h)[e] /\ Pv(h1)[e] = Pv(h)[e] /\ \A x \in Bl(h) : x # NULL
    BY GoodNumbers DEF FreedIs, SameRest, Used
  <1>2. Nx(h)[e] = NULL /\ Pv(h)[e] = NULL
    BY DEF Good, Unlinked
  <1>3. Fr(h) = {}
    BY DEF Good, ListLinked, List, IsHead
  <1>4. h2 = [h1 EXCEPT !.head = e]
    BY <1>1 DEF A!Insert, A!NULL
  <1>5. h2 = HeapRest(h1, e, h1.start, h1.final, h1.brk)
    <2>1. h1 = [hdr |-> h1.hdr, foot |-> h1.foot, head |-> h1.head, start |-> h1.start,
                final |-> h1.final, brk |-> h1.brk]
      BY <1>1 DEF HeapType
    <2>2. h2 = [hdr |-> h1.hdr, foot |-> h1.foot, head |-> e, start |-> h1.start,
                final |-> h1.final, brk |-> h1.brk]
      BY ONLY <1>4, <2>1
    <2>3. ASSUME NEW k, k = HeapRest(h1, e, h1.start, h1.final, h1.brk)
          PROVE  k = h2
      <3>1. k = [h1 EXCEPT !.head = e, !.start = h1.start, !.final = h1.final, !.brk = h1.brk]
        BY <2>3 DEF HeapRest
      <3>2. k = [hdr |-> h1.hdr, foot |-> h1.foot, head |-> e, start |-> h1.start,
                 final |-> h1.final, brk |-> h1.brk]
        BY ONLY <2>1, <3>1
      <3> QED BY ONLY <2>2, <3>2
    <2> QED BY <2>3
  <1>6. RestIs(h2, h1, e, h1.start, h1.final, h1.brk)
    BY <1>1, <1>5, RestEffect
  <1>7. /\ HeapType(h2) /\ Bl(h2) = Bl(h1) /\ Fr(h2) = Fr(h1) /\ h2.foot = h1.foot
        /\ h2.start = h1.start /\ h2.final = h1.final /\ h2.brk = h1.brk /\ h2.head = e
        /\ Sz(h2) = Sz(h1) /\ Nx(h2) = Nx(h1) /\ Pv(h2) = Pv(h1)
    BY <1>6 DEF RestIs
  <1>8. InsertIs(h2, h1, e, NULL, NULL)
    BY <1>1, <1>2, <1>7 DEF InsertIs
  <1> QED BY <1>3, <1>8 DEF Between, IsPrev, IsNext

LEMMA InsertLast ==
    ASSUME NEW h, Good(h), NEW e \in Used(h), NEW h1, FreedIs(h1, h, e), h.head # NULL,
           NEW w, w = Walk(h1, e), w < e, NEW h2, h2 = A!Insert(h1, e)
    PROVE  Between(w, NULL, e, Fr(h)) /\ InsertIs(h2, h1, e, w, NULL)
  <1>0. w \in Fr(h) /\ (Nx(h)[w] = NULL \/ w > e)
    BY WalkEnds
  <1>1. /\ HeapType(h1) /\ Bl(h1) = Bl(h) /\ h1.head # NULL /\ e \in Bl(h) /\ w \in Bl(h)
        /\ Nx(h1)[e] = Nx(h)[e] /\ \A x \in Bl(h) : x # NULL /\ x \in Nat
        /\ Fr(h) \subseteq Bl(h)
    BY <1>0, GoodNumbers DEF FreedIs, SameRest, Used
  <1>2. Nx(h)[e] = NULL
    BY DEF Good, Unlinked
  <1>3. Nx(h)[w] = NULL
    BY <1>0, <1>1
  <1>4. \A y \in Fr(h) : y <= w
    <2>1. IsNext(NULL, w, Fr(h))
      BY <1>0, <1>3 DEF Good, ListLinked, List, Nexts
    <2> QED BY <2>1 DEF IsNext
  <1>5. Between(w, NULL, e, Fr(h))
    <2>1. \A y \in Fr(h) : y <= e
      BY <1>1, <1>4
    <2> QED BY <1>0, <1>1, <1>4, <2>1 DEF Between, IsPrev, IsNext
  <1>6. h2 = [h1 EXCEPT !.hdr[w].next = e, !.hdr[e].prev = w]
    BY <1>1 DEF A!Insert, A!NULL, Walk
  <1>7. h2 = A!SetPrev(A!SetNext(h1, w, e), e, w)
    BY <1>1, <1>6 DEF A!SetPrev, A!SetNext, A!NULL
  <1>8. LinkIs(h2, h1, w, e, e, w)
    BY <1>1, <1>7, LinkEffect
  <1>9. w # e
    BY <1>1
  <1>10. InsertIs(h2, h1, e, w, NULL)
    <2>1. /\ HeapType(h2) /\ Bl(h2) = Bl(h1) /\ Fr(h2) = Fr(h1) /\ h2.foot = h1.foot
          /\ h2.head = h1.head /\ h2.start = h1.start /\ h2.final = h1.final /\ h2.brk = h1.brk
          /\ \A x \in Bl(h1) : Sz(h2)[x] = Sz(h1)[x]
      BY <1>8 DEF LinkIs, SameRest
    <2>2. \A x \in Bl(h1) : /\ Nx(h2)[x] = IF x = w THEN e ELSE Nx(h1)[x]
                            /\ Pv(h2)[x] = IF x = e THEN w ELSE Pv(h1)[x]
      BY <1>8 DEF LinkIs
    <2>3. Nx(h2)[e] = NULL /\ Pv(h2)[e] = w
      BY <1>1, <1>2, <1>9, <2>2
    <2>4. \A x \in Bl(h1) \ {e} : /\ Nx(h2)[x] = IF x = w THEN e ELSE Nx(h1)[x]
                                  /\ Pv(h2)[x] = IF x = NULL THEN e ELSE Pv(h1)[x]
      BY <1>1, <2>2
    <2> QED BY <1>1, <2>1, <2>3, <2>4 DEF InsertIs
  <1> QED BY <1>5, <1>10

LEMMA InsertBefore ==
    ASSUME NEW h, Good(h), NEW e \in Used(h), NEW h1, FreedIs(h1, h, e), h.head # NULL,
           NEW w, w = Walk(h1, e), ~(w < e), NEW h2, h2 = A!Insert(h1, e)
    PROVE  Between(Pv(h)[w], w, e, Fr(h)) /\ InsertIs(h2, h1, e, Pv(h)[w], w)
  <1>0. w \in Fr(h) /\ (Pv(h)[w] = NULL \/ Pv(h)[w] < e)
    BY WalkEnds
  <1>1. /\ HeapType(h1) /\ Bl(h1) = Bl(h) /\ h1.head = h.head /\ e \in Bl(h) /\ w \in Bl(h)
        /\ \A x \in Bl(h) : x # NULL /\ x \in Nat
        /\ Fr(h) \subseteq Bl(h) /\ e \notin Fr(h) /\ Pv(h1)[w] = Pv(h)[w]
    BY <1>0, GoodNumbers DEF FreedIs, SameRest, Used
  <1>2. e < w
    BY <1>0, <1>1
  <1>g. List(Fr(h), Nx(h), Pv(h), h.head)
    BY DEF Good, ListLinked
  <1> DEFINE a == Pv(h)[w]
             hd == IF h1.head = w THEN e ELSE h1.head
             h3 == Relink(h1, e, a, w, hd)
  <1>3. (a = NULL \/ a \in Fr(h)) /\ (h.head = w <=> a = NULL) /\ IsPrev(a, w, Fr(h))
    <2>1. IsPrev(a, w, Fr(h))
      BY <1>0, <1>g DEF List, Prevs
    <2> QED BY <1>0, <1>g, <2>1, LinksAgree
  <1>p. h1.hdr[w].prev = a
    BY <1>1, Fields
  <1>4. h2 = A!SetPrev(A!SetNext(h3, a, e), w, e)
    <2>1. Walk(h1, e) = w /\ h1.head # A!NULL
      BY <1>1 DEF A!NULL
    <2> HIDE DEF a
    <2> QED BY <1>p, <2>1 DEF A!Insert, Walk, Relink
  <1>t. a \in Nat /\ e \in Nat /\ w \in Nat /\ (a = NULL \/ a \in Bl(h)) /\ a # e /\ w # e
    BY <1>1, <1>2, <1>3 DEF NULL
  <1> HIDE DEF a, hd
  <1>5. RelinkIs(h3, h1, e, a, w, hd)
    BY <1>1, <1>t, RelinkEffect
  <1> HIDE DEF h3
  <1>6. /\ HeapType(h3) /\ Bl(h3) = Bl(h1) /\ Fr(h3) = Fr(h1) /\ h3.foot = h1.foot
        /\ h3.head = hd /\ h3.start = h1.start /\ h3.final = h1.final /\ h3.brk = h1.brk
        /\ Nx(h3)[e] = w /\ Pv(h3)[e] = a
        /\ \A x \in Bl(h1) : Sz(h3)[x] = Sz(h1)[x]
        /\ \A x \in Bl(h1) \ {e} : Nx(h3)[x] = Nx(h1)[x] /\ Pv(h3)[x] = Pv(h1)[x]
    BY <1>5 DEF RelinkIs
  <1>7. LinkIs(h2, h3, a, e, w, e)
    BY <1>1, <1>4, <1>6, <1>t, LinkEffect
  <1>8. InsertIs(h2, h1, e, a, w)
    <2>1. /\ HeapType(h2) /\ Bl(h2) = Bl(h1) /\ Fr(h2) = Fr(h1) /\ h2.foot = h1.foot
          /\ h2.head = hd /\ h2.start = h1.start /\ h2.final = h1.final /\ h2.brk = h1.brk
          /\ \A x \in Bl(h1) : Sz(h2)[x] = Sz(h1)[x]
      BY <1>6, <1>7 DEF LinkIs, SameRest
    <2>2. \A x \in Bl(h1) : /\ Nx(h2)[x] = IF x = a THEN e ELSE Nx(h3)[x]
                            /\ Pv(h2)[x] = IF x = w THEN e ELSE Pv(h3)[x]
      BY <1>6, <1>7 DEF LinkIs
    <2>3. Nx(h2)[e] = w /\ Pv(h2)[e] = a
      BY <1>1, <1>6, <1>t, <2>2
    <2>4. \A x \in Bl(h1) \ {e} : /\ Nx(h2)[x] = IF x = a THEN e ELSE Nx(h1)[x]
                                  /\ Pv(h2)[x] = IF x = w THEN e ELSE Pv(h1)[x]
      BY <1>6, <2>2
    <2>5. h2.head = IF a = NULL THEN e ELSE h1.head
      BY <1>1, <1>3, <2>1 DEF hd
    <2> QED BY <2>1, <2>3, <2>4, <2>5 DEF InsertIs
  <1>9. Between(a, w, e, Fr(h))
    <2>1. CASE a = NULL
      <3>1. \A y \in Fr(h) : w <= y
        BY <1>3, <2>1 DEF IsPrev
      <3>2. \A y \in Fr(h) : e <= y
        BY <1>1, <1>2, <3>1
      <3> QED BY <1>0, <1>1, <1>2, <2>1, <3>1, <3>2 DEF Between, IsPrev, IsNext
    <2>2. CASE a # NULL
      <3>1. a \in Fr(h) /\ \A y \in Fr(h) : w <= y \/ y <= a
        BY <1>3, <2>2 DEF IsPrev
      <3>2. a < e
        BY <1>0, <2>2 DEF a
      <3>3. \A y \in Fr(h) : (e <= y \/ y <= a) /\ (y <= e \/ w <= y)
        BY <1>1, <1>2, <3>1, <3>2
      <3> QED BY <1>0, <1>1, <1>2, <2>2, <3>1, <3>2, <3>3 DEF Between, IsPrev, IsNext
    <2> QED BY <2>1, <2>2
  <1> QED BY <1>8, <1>9 DEF a
\* free(ptr) of a block that is in use.
LEMMA FreeGood ==
    ASSUME NEW h, Good(h), NEW e \in Used(h), NEW ptr, ptr = e + ENTRY
    PROVE  FreeIs(A!FreeOn(h, ptr), h, e)
  <1> SUFFICES ASSUME NEW h2, h2 = A!FreeOn(h, ptr) PROVE FreeIs(h2, h, e)
    OBVIOUS
  <1> DEFINE h1 == MarkFree(h, e)
             p == A!Previous(h, e)
             n == A!NextBlock(h, e)
             prevFree == p # NULL /\ h.hdr[p].free
             nextFree == n # NULL /\ h.hdr[n].free
  <1>0. /\ HeapType(h) /\ e \in Bl(h) /\ e \in Nat /\ Fr(h) \subseteq Bl(h) /\ \A x \in Bl(h) : x # NULL /\ x \in Nat
        /\ ptr - ENTRY = e
    BY GoodNumbers, Layout DEF Good, Used
  <1>1. FreedIs(h1, h, e)
    BY <1>0, FreeEffect
  <1>2. h2 = CASE prevFree /\ ~nextFree -> A!MergePrevious(h1, e)
               [] ~prevFree /\ nextFree -> A!MergeNext(h1, e)
               [] prevFree /\ nextFree -> A!MergeBoth(h1, e)
               [] OTHER -> A!Insert(h1, e)
    BY <1>0 DEF A!FreeOn, MarkFree, A!NULL
  <1>3. A!Previous(h1, e) = p /\ A!NextBlock(h1, e) = n
    BY <1>0, <1>1, SameNeighbours
  <1>4. \/ p = NULL /\ \A x \in Bl(h) : EndOf(x, Sz(h)) # e
        \/ p \in Bl(h) /\ EndOf(p, Sz(h)) = e
    BY <1>0, PreviousIs
  <1>5. \/ n = NULL /\ EndOf(e, Sz(h)) \notin Bl(h)
        \/ n = EndOf(e, Sz(h)) /\ EndOf(e, Sz(h)) \in Bl(h)
    BY <1>0, NextIs
  <1> HIDE DEF h1, p, n
  <1>6. prevFree => p \in Fr(h) /\ EndOf(p, Sz(h)) = e
    BY <1>4 DEF Fr
  <1>7. ~prevFree => \A x \in Fr(h) : EndOf(x, Sz(h)) # e
    <2>1. ASSUME ~prevFree, NEW x \in Fr(h), EndOf(x, Sz(h)) = e PROVE FALSE
      <3>1. x \in Bl(h)
        BY <1>0
      <3>2. p \in Bl(h) /\ EndOf(p, Sz(h)) = e
        BY <1>4, <2>1, <3>1
      <3>3. p = x
        BY <2>1, <3>1, <3>2, GoodNumbers
      <3> QED BY <1>0, <2>1, <3>1, <3>3 DEF Fr
    <2> QED BY <2>1
  <1>8. nextFree => n \in Fr(h) /\ EndOf(e, Sz(h)) = n
    BY <1>5 DEF Fr
  <1>9. ~nextFree => EndOf(e, Sz(h)) \notin Fr(h)
    BY <1>0, <1>5 DEF Fr
  <1>10. /\ HeapType(h1) /\ Bl(h1) = Bl(h)
         /\ \A x \in Bl(h) : h1.hdr[x].next = Nx(h)[x] /\ h1.hdr[x].prev = Pv(h)[x]
         /\ h1.head = h.head /\ Sz(h1)[e] = Sz(h)[e]
    <2>1. HeapType(h1) /\ Bl(h1) = Bl(h) /\ h1.head = h.head /\ Sz(h1)[e] = Sz(h)[e]
          /\ \A x \in Bl(h) : Nx(h1)[x] = Nx(h)[x] /\ Pv(h1)[x] = Pv(h)[x]
      BY <1>0, <1>1 DEF FreedIs, SameRest
    <2> QED BY <2>1, Fields
  <1>l. \A x \in Fr(h) : /\ Pv(h)[x] = NULL \/ Pv(h)[x] \in Bl(h) \ {x}
                         /\ Nx(h)[x] = NULL \/ Nx(h)[x] \in Bl(h) \ {x}
    BY LinksOutside
  <1> HIDE DEF prevFree, nextFree
  <1>11. CASE prevFree /\ ~nextFree
    <2>1. h2 = A!Absorb(h1, p, e)
      BY <1>2, <1>3, <1>11 DEF A!MergePrevious
    <2>2. p \in Fr(h) /\ EndOf(p, Sz(h)) = e /\ EndOf(e, Sz(h)) \notin Fr(h)
      BY <1>6, <1>9, <1>11
    <2>3. p \in Bl(h1) /\ e \in Bl(h1) /\ p # e
      BY <1>0, <1>10, <2>2 DEF Used
    <2>4. AbsorbedIs(h2, h1, p, e)
      BY ONLY <1>10, <2>1, <2>3, AbsorbEffect
    <2> QED BY ONLY Good(h), e \in Used(h), <1>1, <2>2, <2>4, MergePreviousGood
  <1>12. CASE ~prevFree /\ nextFree
    <2> DEFINE a == Pv(h)[n]
               b == Nx(h)[n]
               hd == IF h1.head = n THEN e ELSE h1.head
               h3 == Relink(h1, e, a, b, hd)
               h4 == A!SetPrev(A!SetNext(h3, a, e), b, e)
    <2>1. n \in Fr(h) /\ EndOf(e, Sz(h)) = n /\ \A x \in Fr(h) : EndOf(x, Sz(h)) # e
      BY <1>7, <1>8, <1>12
    <2>2. n \in Bl(h) /\ n # e
      BY <1>0, <2>1 DEF Used
    <2>3. h2 = A!Absorb(h4, e, n)
      <3>1. h2 = A!MergeNext(h1, e)
        BY <1>2, <1>12
      <3>2. h1.hdr[n].prev = a /\ h1.hdr[n].next = b
        BY <1>10, <2>2
      <3> HIDE DEF a, b
      <3> QED BY ONLY <1>3, <3>1, <3>2 DEF A!MergeNext, Relink
    <2>4. Replaced(hd, h.head, n, e)
      BY <1>10 DEF Replaced
    <2>5. a \in Nat /\ b \in Nat /\ (a = NULL \/ a \in Bl(h)) /\ (b = NULL \/ b \in Bl(h))
      <3>1. (a = NULL \/ a \in Bl(h) \ {n}) /\ (b = NULL \/ b \in Bl(h) \ {n})
        BY <1>l, <2>1
      <3>2. \A x \in Bl(h) : x \in Nat
        BY <1>0
      <3> HIDE DEF a, b
      <3> QED BY ONLY <3>1, <3>2
    <2>a. a = Pv(h)[n] /\ b = Nx(h)[n]
      OBVIOUS
    <2> HIDE DEF a, b, hd
    <2>6. RelinkIs(h3, h1, e, a, b, hd)
      BY <1>0, <1>10, <2>5, RelinkEffect
    <2> HIDE DEF h3
    <2>7. HeapType(h3) /\ Bl(h3) = Bl(h)
      BY <1>10, <2>6 DEF RelinkIs
    <2>8. LinkIs(h4, h3, a, e, b, e)
      BY <1>0, <2>5, <2>7, LinkEffect
    <2> HIDE DEF h4
    <2>9. HeapType(h4) /\ Bl(h4) = Bl(h)
      BY <2>7, <2>8 DEF LinkIs
    <2>10. AbsorbedIs(h2, h4, e, n)
      BY ONLY <1>0, <2>2, <2>3, <2>9, AbsorbEffect
    <2> QED BY ONLY Good(h), e \in Used(h), <1>1, <2>1, <2>4, <2>6, <2>8, <2>10, <2>a, MergeNextGood
  <1>13. CASE prevFree /\ nextFree
    <2> DEFINE b == Nx(h)[n]
               h3 == A!SetPrev(A!SetNext(h1, p, b), b, p)
               h4 == A!Absorb(h3, e, n)
    <2>1. p \in Fr(h) /\ EndOf(p, Sz(h)) = e /\ n \in Fr(h) /\ EndOf(e, Sz(h)) = n
      BY <1>6, <1>8, <1>13
    <2>2. /\ n \in Bl(h) /\ n # e /\ p \in Bl(h) /\ p # e /\ p # n
      <3>1. p < e /\ e < n /\ p \in Nat /\ n \in Nat
        BY <1>0, <2>1, GoodNumbers
      <3> QED BY <1>0, <2>1, <3>1
    <2>3. h2 = A!Absorb(h4, p, e)
      <3>1. h2 = A!MergeBoth(h1, e)
        BY <1>2, <1>13
      <3>2. h1.hdr[n].next = b
        BY <1>10, <2>2
      <3> HIDE DEF b
      <3> QED BY ONLY <1>3, <3>1, <3>2 DEF A!MergeBoth
    <2>4. b \in Nat /\ (b = NULL \/ b \in Bl(h)) /\ p \in Nat
      <3>1. b = NULL \/ b \in Bl(h) \ {n}
        BY <1>l, <2>1
      <3>2. \A x \in Bl(h) : x \in Nat
        BY <1>0
      <3> HIDE DEF b
      <3> QED BY ONLY <2>2, <3>1, <3>2
    <2>a. b = Nx(h)[n]
      OBVIOUS
    <2> HIDE DEF b
    <2>5. LinkIs(h3, h1, p, b, b, p)
      BY <1>10, <2>2, <2>4, LinkEffect
    <2> HIDE DEF h3
    <2>6. HeapType(h3) /\ Bl(h3) = Bl(h)
      BY <1>10, <2>5 DEF LinkIs
    <2>7. AbsorbedIs(h4, h3, e, n)
      BY <1>0, <2>2, <2>6, AbsorbEffect
    <2> HIDE DEF h4
    <2>8. HeapType(h4) /\ Bl(h4) = Bl(h) \ {n}
      BY <2>6, <2>7 DEF AbsorbedIs
    <2>9. p \in Bl(h4) /\ e \in Bl(h4)
      BY <1>0, <2>2, <2>8
    <2>10. AbsorbedIs(h2, h4, p, e)
      BY ONLY <2>2, <2>3, <2>8, <2>9, AbsorbEffect
    <2> QED BY ONLY Good(h), e \in Used(h), <1>1, <2>1, <2>5, <2>7, <2>10, <2>a, MergeBothGood
  <1>14. CASE ~prevFree /\ ~nextFree
    <2>1. h2 = A!Insert(h1, e)
      BY <1>2, <1>14
    <2>2. EndOf(e, Sz(h)) \notin Fr(h) /\ \A x \in Fr(h) : EndOf(x, Sz(h)) # e
      BY <1>7, <1>9, <1>14
    <2>3. \E a, b : Between(a, b, e, Fr(h)) /\ InsertIs(h2, h1, e, a, b)
      <3>1. CASE h.head = NULL
        BY ONLY Good(h), e \in Used(h), <1>1, <2>1, <3>1, InsertFirst
      <3>2. CASE h.head # NULL
        <4> DEFINE w == Walk(h1, e)
        <4>1. CASE w < e
          BY ONLY Good(h), e \in Used(h), <1>1, <2>1, <3>2, <4>1, InsertLast
        <4>2. CASE ~(w < e)
          BY ONLY Good(h), e \in Used(h), <1>1, <2>1, <3>2, <4>2, InsertBefore
        <4> QED BY <4>1, <4>2
      <3> QED BY <3>1, <3>2
    <2>4. PICK a, b : Between(a, b, e, Fr(h)) /\ InsertIs(h2, h1, e, a, b)
      BY <2>3
    <2> QED BY ONLY Good(h), e \in Used(h), <1>1, <2>2, <2>4, InsertGood
  <1> QED BY <1>11, <1>12, <1>13, <1>14 DEF prevFree, nextFree-----------------------------------------------------------------------------
(* What clients hold.                                                      *)

\* The block at e is large enough for size, and not worth splitting.
Fits(h, e, size) ==
  /\ size \in Nat
  /\ A!RoundUp(size) <= Sz(h)[e] /\ Sz(h)[e] < A!RoundUp(size) + TRESHOLD + (ENTRY + END)
Owns(h, lv) == /\ \A e \in Used(h) : e + ENTRY \in DOMAIN lv /\ Fits(h, e, lv[e + ENTRY])
               /\ \A ptr \in DOMAIN lv : \E e \in Used(h) : ptr = e + ENTRY

LEMMA OwnsMalloc ==
    ASSUME NEW h, Good(h), NEW lv, Owns(h, lv), NEW size \in Nat, NEW r, MallocIs(r, h, A!RoundUp(size)),
           r.ptr # NULL
    PROVE  Good(r.heap) /\ Owns(r.heap, A!With(lv, r.ptr, size)) /\ r.ptr \notin DOMAIN lv
  <1> DEFINE h2 == r.heap
             ptr == r.ptr
             lv2 == A!With(lv, ptr, size)
  <1>1. PICK e \in Nat : /\ ptr = e + ENTRY /\ Good(h2) /\ e \notin Used(h) /\ Used(h2) = Used(h) \cup {e}
                         /\ A!RoundUp(size) <= Sz(h2)[e]
                         /\ Sz(h2)[e] < A!RoundUp(size) + TRESHOLD + (ENTRY + END)
                         /\ \A x \in Used(h) : Sz(h2)[x] = Sz(h)[x]
    BY DEF MallocIs
  <1> HIDE DEF h2, ptr
  <1>2. \A x \in Used(h) : x \in Nat /\ x + ENTRY # ptr
    <2>1. \A x \in Used(h) : x \in Nat
      BY GoodNumbers DEF Used
    <2>2. \A x \in Used(h) : x # e
      BY <1>1
    <2>3. ENTRY \in Nat /\ ptr = e + ENTRY /\ e \in Nat
      BY <1>1, Layout
    <2> QED BY ONLY <2>1, <2>2, <2>3
  <1>3. DOMAIN lv2 = DOMAIN lv \cup {ptr} /\ lv2[ptr] = size /\ \A x \in DOMAIN lv : x # ptr => lv2[x] = lv[x]
    BY DEF A!With
  <1> HIDE DEF lv2
  <1>4. ASSUME NEW x \in Used(h2) PROVE x + ENTRY \in DOMAIN lv2 /\ Fits(h2, x, lv2[x + ENTRY])
    <2>1. CASE x = e
      BY <1>1, <1>3, <2>1 DEF Fits
    <2>2. CASE x # e
      <3>1. x \in Used(h) /\ Sz(h2)[x] = Sz(h)[x]
        BY <1>1, <2>2
      <3>2. x + ENTRY \in DOMAIN lv /\ Fits(h, x, lv[x + ENTRY])
        BY <3>1 DEF Owns
      <3>3. lv2[x + ENTRY] = lv[x + ENTRY] /\ x + ENTRY \in DOMAIN lv2
        BY <1>2, <1>3, <3>1, <3>2
      <3> QED BY <3>1, <3>2, <3>3 DEF Fits
    <2> QED BY <2>1, <2>2
  <1>5. ASSUME NEW q \in DOMAIN lv2 PROVE \E x \in Used(h2) : q = x + ENTRY
    BY <1>1, <1>3 DEF Owns
  <1>6. ptr \notin DOMAIN lv
    BY <1>2 DEF Owns
  <1>7. Owns(h2, lv2)
    BY <1>4, <1>5 DEF Owns
  <1> QED BY <1>1, <1>6, <1>7 DEF h2, lv2, ptr

LEMMA OwnsFree ==
    ASSUME NEW h, Good(h), NEW lv, Owns(h, lv), NEW ptr \in DOMAIN lv
    PROVE  Good(A!FreeOn(h, ptr)) /\ Owns(A!FreeOn(h, ptr), A!Without(lv, ptr))
  <1> DEFINE h2 == A!FreeOn(h, ptr)
             lv2 == A!Without(lv, ptr)
  <1>1. PICK e \in Used(h) : ptr = e + ENTRY
    BY DEF Owns
  <1>2. FreeIs(h2, h, e)
    BY <1>1, FreeGood
  <1> HIDE DEF h2
  <1>3. Good(h2) /\ Used(h2) = Used(h) \ {e} /\ \A x \in Used(h2) : Sz(h2)[x] = Sz(h)[x]
    BY <1>2 DEF FreeIs
  <1>4. DOMAIN lv2 = DOMAIN lv \ {ptr} /\ \A x \in DOMAIN lv \ {ptr} : lv2[x] = lv[x]
    BY DEF A!Without
  <1> HIDE DEF lv2
  <1>5. \A x \in Used(h2) : x \in Used(h) /\ x + ENTRY # ptr
    <2>1. \A x \in Used(h) : x \in Nat
      BY GoodNumbers DEF Used
    <2>2. \A x \in Used(h2) : x # e /\ x \in Used(h)
      BY <1>3
    <2>3. ENTRY \in Nat /\ ptr = e + ENTRY /\ e \in Nat
      BY <1>1, <2>1, Layout
    <2> QED BY ONLY <2>1, <2>2, <2>3
  <1>6. ASSUME NEW x \in Used(h2) PROVE x + ENTRY \in DOMAIN lv2 /\ Fits(h2, x, lv2[x + ENTRY])
    <2>1. x + ENTRY \in DOMAIN lv /\ Fits(h, x, lv[x + ENTRY]) /\ x + ENTRY # ptr
      BY <1>5 DEF Owns
    <2>2. Sz(h2)[x] = Sz(h)[x]
      BY <1>3
    <2>3. x + ENTRY \in DOMAIN lv2 /\ lv2[x + ENTRY] = lv[x + ENTRY]
      BY <1>4, <2>1
    <2> QED BY <2>1, <2>2, <2>3 DEF Fits
  <1>7. ASSUME NEW q \in DOMAIN lv2 PROVE \E x \in Used(h2) : q = x + ENTRY
    <2>1. PICK x \in Used(h) : q = x + ENTRY
      BY <1>4 DEF Owns
    <2> QED BY <1>1, <1>3, <1>4, <2>1
  <1>8. Owns(h2, lv2)
    BY <1>6, <1>7 DEF Owns
  <1> QED BY <1>3, <1>8 DEF h2, lv2

AllocInv == Good(heap) /\ Owns(heap, live)

LEMMA AllocInit ==
    ASSUME A!Init
    PROVE  AllocInv
  <1>1. /\ heap.hdr = << >> /\ heap.foot = << >> /\ heap.head = NULL /\ heap.start = NULL
        /\ heap.final = NULL /\ heap.brk = Base /\ live = << >>
        /\ heap = [hdr |-> heap.hdr, foot |-> heap.foot, head |-> heap.head, start |-> heap.start,
                   final |-> heap.final, brk |-> heap.brk]
    BY DEF A!Init, A!NULL
  <1>2. Bl(heap) = {} /\ Fr(heap) = {} /\ Used(heap) = {} /\ heap.hdr \in [Bl(heap) -> Header]
        /\ DOMAIN heap.foot = {} /\ DOMAIN live = {}
    <2>1. DOMAIN heap.hdr = {} /\ DOMAIN heap.foot = {} /\ DOMAIN live = {} /\ heap.hdr \in [{} -> Header]
      BY <1>1
    <2> QED BY <2>1 DEF Bl, Fr, Used
  <1>3. HeapType(heap)
    BY <1>1, <1>2 DEF HeapType
  <1>4. Tiled(heap)
    <2>1. Sz(heap) \in [Bl(heap) -> Nat]
      BY <1>3, Fields
    <2> QED BY <1>1, <1>2, <2>1, Layout DEF Tiled, Tiling, TilingType, Bounded, Gapless, Disjoint
  <1>5. Started(heap)
    BY <1>1, <1>2 DEF Started
  <1>6. Footed(heap)
    BY <1>1, <1>2 DEF Footed, Footers
  <1>7. ListLinked(heap)
    BY <1>1, <1>2 DEF ListLinked, List, Addresses, IsHead, Nexts, Prevs
  <1>8. Unlinked(heap) /\ Coalesced(heap) /\ AlignedBlocks(heap)
    BY <1>2 DEF Unlinked, Coalesced, AlignedBlocks
  <1>9. Owns(heap, live)
    BY <1>2 DEF Owns
  <1> QED BY <1>3, <1>4, <1>5, <1>6, <1>7, <1>8, <1>9 DEF AllocInv, Good

LEMMA FreeStep ==
    ASSUME AllocInv, NEW ptr \in DOMAIN live, A!Free(ptr)
    PROVE  AllocInv'
  <1>1. heap' = A!FreeOn(heap, ptr) /\ live' = A!Without(live, ptr)
    BY DEF A!Free
  <1>2. Good(A!FreeOn(heap, ptr)) /\ Owns(A!FreeOn(heap, ptr), A!Without(live, ptr))
    BY OwnsFree DEF AllocInv
  <1>3. Good(heap') /\ Owns(heap', live')
    BY ONLY <1>1, <1>2
  <1> QED BY <1>3 DEF AllocInv

LEMMA MallocStep ==
    ASSUME AllocInv, NEW size \in Nat, A!Malloc(size)
    PROVE  AllocInv'
  <1> DEFINE r == A!MallocOn(heap, size)
  <1>1. heap' = r.heap /\ live' = A!Keep(r.ptr, size, live)
    BY DEF A!Malloc
  <1>2. MallocIs(r, heap, A!RoundUp(size))
    BY MallocGood DEF AllocInv
  <1> HIDE DEF r
  <1>3. CASE r.ptr = NULL
    <2>1. heap' = heap /\ live' = live
      <3>1. r.heap = heap
        BY <1>2, <1>3, Layout DEF MallocIs
      <3> QED BY <1>1, <1>3, <3>1 DEF A!Keep, A!NULL
    <2>2. Good(heap') /\ Owns(heap', live')
      BY <2>1 DEF AllocInv
    <2> QED BY <2>2 DEF AllocInv
  <1>4. CASE r.ptr # NULL
    <2>1. Good(r.heap) /\ Owns(r.heap, A!With(live, r.ptr, size))
      BY <1>2, <1>4, OwnsMalloc DEF AllocInv
    <2>2. live' = A!With(live, r.ptr, size)
      BY <1>1, <1>4 DEF A!Keep, A!NULL
    <2>3. Good(heap') /\ Owns(heap', live')
      BY ONLY <1>1, <2>1, <2>2
    <2> QED BY <2>3 DEF AllocInv
  <1> QED BY <1>3, <1>4

LEMMA ReallocStep ==
    ASSUME AllocInv, NEW ptr \in DOMAIN live, NEW size \in Nat, A!Realloc(ptr, size)
    PROVE  AllocInv'
  <1> DEFINE r == A!MallocOn(heap, A!RoundUp(size))
  <1>0. A!RoundUp(size) \in Nat /\ A!RoundUp(A!RoundUp(size)) = A!RoundUp(size)
    BY RoundUpOf
  <1>1. CASE size = 0
    <2>1. A!Free(ptr)
      BY <1>1 DEF A!Realloc
    <2> QED BY <2>1, FreeStep
  <1>2. CASE size # 0
    <2>1. /\ heap' = IF r.ptr = NULL THEN heap ELSE A!FreeOn(r.heap, ptr)
          /\ live' = IF r.ptr = NULL THEN live ELSE A!Keep(r.ptr, size, A!Without(live, ptr))
      BY <1>2 DEF A!Realloc, A!NULL
    <2>2. MallocIs(r, heap, A!RoundUp(A!RoundUp(size)))
      BY <1>0, MallocGood DEF AllocInv
    <2> HIDE DEF r
    <2>3. CASE r.ptr = NULL
      <3>1. Good(heap') /\ Owns(heap', live')
        BY <2>1, <2>3 DEF AllocInv
      <3> QED BY <3>1 DEF AllocInv
    <2>4. CASE r.ptr # NULL
      <3> DEFINE lv == A!With(live, r.ptr, size)
      <3>1. MallocIs(r, heap, A!RoundUp(size))
        BY <1>0, <2>2
      <3>2. Good(r.heap) /\ Owns(r.heap, lv) /\ r.ptr \notin DOMAIN live
        BY <2>4, <3>1, OwnsMalloc DEF AllocInv
      <3>3. ptr \in DOMAIN lv
        BY DEF A!With
      <3>4. Good(A!FreeOn(r.heap, ptr)) /\ Owns(A!FreeOn(r.heap, ptr), A!Without(lv, ptr))
        <4> HIDE DEF lv
        <4> QED BY <3>2, <3>3, OwnsFree
      <3>5. live' = A!Without(lv, ptr)
        <4>1. live' = A!With(A!Without(live, ptr), r.ptr, size)
          BY <2>1, <2>4 DEF A!Keep, A!NULL
        <4>2. r.ptr # ptr
          BY <3>2
        <4> QED BY <4>1, <4>2 DEF A!With, A!Without
      <3>6. heap' = A!FreeOn(r.heap, ptr)
        BY <2>1, <2>4
      <3> HIDE DEF lv
      <3>7. Good(heap') /\ Owns(heap', live')
        BY ONLY <3>4, <3>5, <3>6
      <3> QED BY <3>7 DEF AllocInv
    <2> QED BY <2>3, <2>4
  <1> QED BY <1>1, <1>2

\* The inductive invariant holds in every reachable state.
LEMMA AllocInductive == A!Spec => []AllocInv
  <1>1. A!Init => AllocInv
    BY AllocInit
  <1>2. AllocInv /\ [A!Next]_(A!vars) => AllocInv'
    <2> SUFFICES ASSUME AllocInv, [A!Next]_(A!vars) PROVE AllocInv'
      OBVIOUS
    <2>1. ASSUME NEW size \in Sizes, A!Malloc(size) PROVE AllocInv'
      BY <2>1, MallocStep, Layout
    <2>2. ASSUME NEW ptr \in DOMAIN live, A!Free(ptr) PROVE AllocInv'
      BY <2>2, FreeStep
    <2>3. ASSUME NEW ptr \in DOMAIN live, NEW size \in Sizes, A!Realloc(ptr, size) PROVE AllocInv'
      BY <2>3, ReallocStep, Layout
    <2>4. ASSUME UNCHANGED A!vars PROVE AllocInv'
      <3>1. heap' = heap /\ live' = live
        BY <2>4 DEF A!vars
      <3>2. Good(heap') /\ Owns(heap', live')
        BY <3>1 DEF AllocInv
      <3> QED BY <3>2 DEF AllocInv
    <2> QED BY <2>1, <2>2, <2>3, <2>4 DEF A!Next
  <1> QED BY <1>1, <1>2, PTL DEF A!Spec-----------------------------------------------------------------------------
(* The properties of the allocator.                                        *)

\* The block after e, as the code computes it and as the proofs do.
LEMMA AfterIs ==
    ASSUME NEW h, HeapType(h), NEW e \in Bl(h)
    PROVE  A!After(h, e) = EndOf(e, Sz(h)) /\ h.hdr[e].size = Sz(h)[e]
  BY Fields DEF A!After, EndOf

\* No two blocks end at the same address, so there are as many ends as blocks.
LEMMA CountEnds ==
    ASSUME NEW B, B \subseteq Nat, NEW top \in Nat, \A x \in B : x <= top, NEW sz,
           \A x, y \in B : EndOf(x, sz) = EndOf(y, sz) => x = y
    PROVE  A!Cardinality({EndOf(x, sz) : x \in B}) = A!Cardinality(B)
  <1> DEFINE T == {EndOf(x, sz) : x \in B}
             f == [x \in B |-> EndOf(x, sz)]
  <1>1. ASSUME NEW X PROVE A!Cardinality(X) = Cardinality(X)
    BY DEF A!Cardinality, A!IsFiniteSet, Cardinality, IsFiniteSet
  <1>2. IsFiniteSet(B)
    <2>1. B \in SUBSET (0 .. top) /\ IsFiniteSet(0 .. top)
      BY FS_Interval
    <2> QED BY <2>1, FS_Subset
  <1>3. f \in Surjection(B, T)
    BY DEF Surjection
  <1>4. f \in Injection(B, T)
    BY DEF Injection, IsInjective
  <1>5. Cardinality(T) = Cardinality(B)
    <2> HIDE DEF f, T
    <2> QED BY <1>2, <1>3, <1>4, FS_Surjection
  <1> QED BY <1>1, <1>5

LEMMA GoodTiles ==
    ASSUME Good(heap)
    PROVE  HeapTiled
  <1> DEFINE B == Bl(heap)
             sz == Sz(heap)
             Ends == {EndOf(x, sz) : x \in B}
             AEnds == {A!After(heap, x) : x \in B}
  <1> SUFFICES ASSUME B # {}
               PROVE  /\ heap.start = Base /\ Base \in B
                      /\ AEnds = (B \ {Base}) \cup {heap.brk}
                      /\ A!Cardinality(AEnds) = A!Cardinality(B)
                      /\ heap.final \in B /\ A!After(heap, heap.final) = heap.brk
                      /\ DOMAIN heap.foot = {A!After(heap, x) - END : x \in B}
                      /\ \A x \in B : heap.foot[A!After(heap, x) - END] = heap.hdr[x].size
    BY DEF HeapTiled, A!HeapTiled, A!Blocks, Bl
  <1>1. HeapType(heap) /\ Tiling(B, sz, heap.brk, heap.final) /\ Footers(B, sz, heap.foot)
    BY DEF Good, Tiled, Footed
  <1>2. heap.start = Base
    BY DEF Good, Started
  <1>3. Base \in B /\ heap.final \in B /\ EndOf(heap.final, sz) = heap.brk
    BY <1>1 DEF Tiling, Bounded
  <1>4. \A x \in B : A!After(heap, x) = EndOf(x, sz) /\ heap.hdr[x].size = sz[x]
    BY <1>1, AfterIs
  <1>5. AEnds = Ends
    BY <1>4
  <1>n. /\ heap.brk \in Nat
        /\ \A x \in B : /\ x \in Nat /\ Base <= x /\ x < EndOf(x, sz) /\ EndOf(x, sz) \in Nat
                        /\ EndOf(x, sz) <= heap.brk /\ sz[x] \in Nat
        /\ \A x, y \in B : EndOf(x, sz) = EndOf(y, sz) => x = y
    BY GoodNumbers
  <1>6. Ends = (B \ {Base}) \cup {heap.brk}
    <2>1. \A x \in B : EndOf(x, sz) = heap.brk \/ EndOf(x, sz) \in B
      BY <1>1 DEF Tiling, Gapless
    <2>2. \A x \in B : x = Base \/ \E p \in B : EndOf(p, sz) = x
      BY <1>1 DEF Tiling, Gapless
    <2>3. \A x \in B : EndOf(x, sz) # Base
      BY <1>n, Layout
    <2> QED BY <1>3, <2>1, <2>2, <2>3
  <1>7. A!Cardinality(Ends) = A!Cardinality(B)
    <2>1. B \subseteq Nat /\ \A x \in B : x <= heap.brk
      BY <1>n
    <2> HIDE DEF B, sz
    <2> QED BY <1>n, <2>1, CountEnds
  <1>8. \A x \in B : A!After(heap, x) - END = FootAt(x, sz)
    <2> SUFFICES ASSUME NEW x \in B PROVE A!After(heap, x) - END = FootAt(x, sz)
      OBVIOUS
    <2>1. x \in Nat /\ sz[x] \in Nat /\ A!After(heap, x) = EndOf(x, sz)
      BY <1>4, <1>n
    <2> HIDE DEF sz
    <2> QED BY <2>1, Layout DEF EndOf, FootAt
  <1>9. DOMAIN heap.foot = {FootAt(x, sz) : x \in B} /\ \A x \in B : heap.foot[FootAt(x, sz)] = sz[x]
    BY <1>1 DEF Footers
  <1>10. DOMAIN heap.foot = {A!After(heap, x) - END : x \in B}
    BY <1>8, <1>9
  <1>11. \A x \in B : heap.foot[A!After(heap, x) - END] = heap.hdr[x].size
    BY <1>4, <1>8, <1>9
  <1> HIDE DEF B, sz, Ends, AEnds
  <1> QED BY <1>2, <1>3, <1>4, <1>5, <1>6, <1>7, <1>10, <1>11

\* What FreeListExact calls first and last, against what the list says.
LEMMA FirstIs ==
    ASSUME NEW S, S \subseteq Nat, NEW m,
           IF m = NULL THEN S = {} ELSE m \in S /\ \A g \in S : m <= g
    PROVE  m = IF S = {} THEN NULL ELSE CHOOSE f \in S : \A g \in S : f <= g
  <1>1. CASE m = NULL /\ S = {}
    BY <1>1
  <1>2. CASE m \in S /\ \A g \in S : m <= g
    <2>1. \A f \in S : (\A g \in S : f <= g) => f = m
      BY <1>2
    <2> QED BY <1>2, <2>1
  <1> QED BY <1>1, <1>2

LEMMA LastIs ==
    ASSUME NEW S, S \subseteq Nat, NEW m,
           IF m = NULL THEN S = {} ELSE m \in S /\ \A g \in S : m >= g
    PROVE  m = IF S = {} THEN NULL ELSE CHOOSE f \in S : \A g \in S : f >= g
  <1>1. CASE m = NULL /\ S = {}
    BY <1>1
  <1>2. CASE m \in S /\ \A g \in S : m >= g
    <2>1. \A f \in S : (\A g \in S : f >= g) => f = m
      BY <1>2
    <2> QED BY <1>2, <2>1
  <1> QED BY <1>1, <1>2

LEMMA GoodLists ==
    ASSUME Good(heap)
    PROVE  FreeListExact
  <1> DEFINE F == Fr(heap)
             before(e) == {f \in F : f < e}
             behind(e) == {f \in F : f > e}
             first(S) == IF S = {} THEN NULL ELSE CHOOSE f \in S : \A g \in S : f <= g
             last(S) == IF S = {} THEN NULL ELSE CHOOSE f \in S : \A g \in S : f >= g
  <1>1. HeapType(heap) /\ List(F, Nx(heap), Pv(heap), heap.head) /\ \A x \in F : EndOf(x, Sz(heap)) \notin F
    BY DEF Good, ListLinked, Coalesced
  <1>2. F \subseteq Bl(heap) /\ \A x \in F : x \in Nat /\ x # NULL
    BY GoodNumbers
  <1>3. \A e \in F : heap.hdr[e].next = Nx(heap)[e] /\ heap.hdr[e].prev = Pv(heap)[e]
                     /\ A!After(heap, e) = EndOf(e, Sz(heap))
    BY <1>1, <1>2, Fields, AfterIs
  <1>f. A!FreeBlocks = F
    BY DEF A!FreeBlocks, A!Blocks, Fr, Bl
  <1> HIDE DEF F
  <1>4. heap.head = first(F)
    <2>1. IsHead(heap.head, F)
      BY <1>1 DEF List
    <2>2. IF heap.head = NULL THEN F = {} ELSE heap.head \in F /\ \A g \in F : heap.head <= g
      BY <2>1 DEF IsHead
    <2>3. F \subseteq Nat
      BY <1>2
    <2> QED BY ONLY <2>2, <2>3, FirstIs
  <1>5. ASSUME NEW e \in F PROVE Nx(heap)[e] = first(behind(e))
    <2> DEFINE m == Nx(heap)[e]
               S == behind(e)
    <2>1. IsNext(m, e, F)
      BY <1>1 DEF List, Nexts
    <2>2. IF m = NULL THEN S = {} ELSE m \in S /\ \A g \in S : m <= g
      <3> HIDE DEF m
      <3>1. CASE m = NULL
        <4>1. \A y \in F : y <= e
          BY <2>1, <3>1 DEF IsNext
        <4> QED BY <1>2, <3>1, <4>1
      <3>2. CASE m # NULL
        <4>1. m \in F /\ e < m /\ \A y \in F : y <= e \/ m <= y
          BY <2>1, <3>2 DEF IsNext
        <4> QED BY <1>2, <3>2, <4>1
      <3> QED BY <3>1, <3>2
    <2>3. S \subseteq Nat
      BY <1>2
    <2> HIDE DEF m, S
    <2>4. m = first(S)
      BY ONLY <2>2, <2>3, FirstIs
    <2> QED BY <2>4 DEF m, S
  <1>6. ASSUME NEW e \in F PROVE Pv(heap)[e] = last(before(e))
    <2> DEFINE m == Pv(heap)[e]
               S == before(e)
    <2>1. IsPrev(m, e, F)
      BY <1>1 DEF List, Prevs
    <2>2. IF m = NULL THEN S = {} ELSE m \in S /\ \A g \in S : m >= g
      <3> HIDE DEF m
      <3>1. CASE m = NULL
        <4>1. \A y \in F : e <= y
          BY <2>1, <3>1 DEF IsPrev
        <4> QED BY <1>2, <3>1, <4>1
      <3>2. CASE m # NULL
        <4>1. m \in F /\ m < e /\ \A y \in F : e <= y \/ y <= m
          BY <2>1, <3>2 DEF IsPrev
        <4> QED BY <1>2, <3>2, <4>1
      <3> QED BY <3>1, <3>2
    <2>3. S \subseteq Nat
      BY <1>2
    <2> HIDE DEF m, S
    <2>4. m = last(S)
      BY ONLY <2>2, <2>3, LastIs
    <2> QED BY <2>4 DEF m, S
  <1>7. \A e \in F : A!After(heap, e) \notin F
    BY <1>1, <1>3
  <1>8. \A e \in F : /\ heap.hdr[e].next = first(behind(e)) /\ heap.hdr[e].prev = last(before(e))
                     /\ A!After(heap, e) \notin F
    <2> HIDE DEF first, last, before, behind
    <2> QED BY <1>3, <1>5, <1>6, <1>7
  <1>9. /\ heap.head = first(A!FreeBlocks)
        /\ \A e \in A!FreeBlocks : /\ heap.hdr[e].next = first({f \in A!FreeBlocks : f > e})
                                   /\ heap.hdr[e].prev = last({f \in A!FreeBlocks : f < e})
                                   /\ A!After(heap, e) \notin A!FreeBlocks
    BY ONLY <1>4, <1>8, <1>f
  <1> QED BY ONLY <1>9 DEF FreeListExact, A!FreeListExact, A!NULL, NULL

LEMMA GoodOwners ==
    ASSUME AllocInv
    PROVE  ClientsOwnTheirBlocks
  <1>1. Good(heap) /\ Owns(heap, live)
    BY DEF AllocInv
  <1>2. A!Blocks \ A!FreeBlocks = Used(heap)
    BY DEF A!Blocks, A!FreeBlocks, Used, Fr, Bl
  <1>3. {e + ENTRY : e \in Used(heap)} = DOMAIN live
    BY <1>1 DEF Owns
  <1>4. ASSUME NEW ptr \in DOMAIN live
        PROVE  /\ heap.hdr[ptr - ENTRY].size >= live[ptr]
               /\ heap.hdr[ptr - ENTRY].size < A!RoundUp(live[ptr]) + TRESHOLD + (ENTRY + END)
               /\ (ptr - ENTRY - Base) % ALIGN = 0
    <2>1. PICK e \in Used(heap) : ptr = e + ENTRY
      BY <1>1 DEF Owns
    <2>2. /\ e \in Bl(heap) /\ e \in Nat /\ Sz(heap)[e] \in Nat /\ HeapType(heap)
          /\ Aligned(e - Base)
      BY <1>1, GoodNumbers DEF Used, Good, AlignedBlocks
    <2>3. ptr - ENTRY = e
      BY <2>1, <2>2, Layout
    <2>4. Fits(heap, e, live[ptr])
      BY <1>1, <2>1 DEF Owns
    <2>5. heap.hdr[e].size = Sz(heap)[e]
      BY <2>2, Fields
    <2>6. (e - Base) % ALIGN = 0
      BY <2>2, AlignedRest
    <2>7. /\ live[ptr] \in Nat /\ A!RoundUp(live[ptr]) <= Sz(heap)[e]
          /\ Sz(heap)[e] < A!RoundUp(live[ptr]) + TRESHOLD + (ENTRY + END)
      BY <2>4 DEF Fits
    <2>8. live[ptr] <= A!RoundUp(live[ptr]) /\ A!RoundUp(live[ptr]) \in Nat
      BY <2>7, RoundUpOf
    <2>9. Sz(heap)[e] >= live[ptr]
      BY <2>2, <2>7, <2>8
    <2> QED BY <2>3, <2>5, <2>6, <2>7, <2>9
  <1> QED BY <1>2, <1>3, <1>4 DEF ClientsOwnTheirBlocks, A!ClientsOwnTheirBlocks, A!Overhead

\* In every reachable heap the blocks tile it from start to the break, every
\* footer repeats the size of its block, and final is the last block: what
\* free goes by when it computes its two neighbours (alloc.c 203-209).
THEOREM Tiles == A!Spec => []HeapTiled
  <1>1. AllocInv => HeapTiled
    BY GoodTiles DEF AllocInv
  <1> QED BY <1>1, AllocInductive, PTL

\* In every reachable heap the free list that malloc searches and free splices
\* (alloc.c 92-170, 210-286) is exactly the free blocks in address order,
\* linked both ways, and no two of them touch.
THEOREM ListExact == A!Spec => []FreeListExact
  <1>1. AllocInv => FreeListExact
    BY GoodLists DEF AllocInv
  <1> QED BY <1>1, AllocInductive, PTL

\* The blocks in use are exactly those whose pointers clients hold: malloc and
\* realloc never hand out memory twice, and each block is aligned, as large as
\* was asked for and not worth splitting (alloc.c 83-173, 335-357).
THEOREM ClientsOwn == A!Spec => []ClientsOwnTheirBlocks
  BY GoodOwners, AllocInductive, PTL
-----------------------------------------------------------------------------
(* mini_memcheck.c, for any addresses and any sizes.  C is mini_memcheck   *)
(* as MCMemory has it.                                                     *)

LEMMA Requests == NULL \notin Address /\ BlockSizes \subseteq Nat
  BY RequestsAssumption DEF C!RequestsOK

\* Induction, for a set of numbers: T has 0, and with i also i + 1, up to n.
Climbs(T, n) == 0 \in T /\ \A i \in 1 .. n : i - 1 \in T => i \in T

LEMMA Climb ==
    ASSUME NEW n \in Nat, NEW T, Climbs(T, n)
    PROVE  \A i \in 0 .. n : i \in T
  <1> DEFINE M == {i \in 0 .. n : i \notin T}
  <1>1. ASSUME M # {} PROVE FALSE
    <2>1. M \subseteq Nat
      OBVIOUS
    <2>2. PICK i \in M : \A j \in M : i <= j
      <3> HIDE DEF M
      <3> QED BY <1>1, <2>1, Lowest
    <2>3. i \in 0 .. n /\ i # 0 /\ i \notin T
      BY <2>2 DEF Climbs
    <2>4. i \in 1 .. n /\ i - 1 \in 0 .. n /\ ~(i <= i - 1)
      BY <2>3
    <2>5. i - 1 \in T
      BY <2>2, <2>4
    <2> QED BY <2>3, <2>4, <2>5 DEF Climbs
  <1> QED BY <1>1

\* The list: c[0] is the head, c[n] is NULL, and every block is met once.
Runs(m, h, c, n) ==
  /\ n \in Nat /\ c[0] = h /\ c[n] = NULL
  /\ \A i \in 0 .. n - 1 : c[i] \in DOMAIN m /\ m[c[i]].next = c[i + 1]
Once(m, c, n) ==
  /\ \A i \in 0 .. n - 1 : \A j \in 0 .. n - 1 : c[i] = c[j] => i = j
  /\ \A a \in DOMAIN m : \E i \in 0 .. n - 1 : c[i] = a
Strung(m, h, c, n) == NULL \notin DOMAIN m /\ Runs(m, h, c, n) /\ Once(m, c, n)

Places(m) == DOMAIN m \cup {NULL}

\* Every place is on the list once, NULL at its end.
LEMMA OnTheList ==
    ASSUME NEW m, NEW h, NEW c, NEW n, Strung(m, h, c, n)
    PROVE  /\ n \in Nat /\ \A i \in 0 .. n : c[i] \in Places(m)
           /\ \A i \in 0 .. n : c[i] = NULL <=> i = n
           /\ \A x \in Places(m) : \E i \in 0 .. n : c[i] = x
           /\ \A i \in 0 .. n : \A j \in 0 .. n : c[i] = c[j] => i = j
  <1>1. n \in Nat /\ \A i \in 0 .. n : i \in 0 .. n - 1 \/ i = n
    BY DEF Strung, Runs
  <1>2. \A i \in 0 .. n - 1 : i \in 0 .. n /\ c[i] \in DOMAIN m /\ c[i] # NULL /\ i # n
    BY <1>1 DEF Strung, Runs
  <1>3. c[n] = NULL /\ n \in 0 .. n /\ NULL \notin DOMAIN m
    BY <1>1 DEF Strung, Runs
  <1>4. \A i \in 0 .. n : c[i] \in Places(m)
    BY <1>1, <1>2, <1>3 DEF Places
  <1>5. \A i \in 0 .. n : c[i] = NULL <=> i = n
    BY <1>1, <1>2, <1>3
  <1>6. \A x \in Places(m) : \E i \in 0 .. n : c[i] = x
    BY <1>2, <1>3 DEF Places, Strung, Once
  <1>7. \A i \in 0 .. n : \A j \in 0 .. n : c[i] = c[j] => i = j
    BY <1>1, <1>5 DEF Strung, Once
  <1> QED BY <1>1, <1>4, <1>5, <1>6, <1>7

\* Where the trailing pointer goes (lines 95-99, 157-161).
Trail(m, h, y) == IF y = NULL THEN h ELSE m[y].next
Step(f, m, h, p, x, y) ==
  IF x = NULL \/ x = p THEN <<x, y>> ELSE f[<<m[x].next, Trail(m, h, y)>>]
Steps(f, m, h, p) ==
  f = [x \in Places(m) \X Places(m) |->
         IF x[1] = NULL \/ x[1] = p THEN x ELSE f[<<m[x[1]].next, Trail(m, h, x[2])>>]]

\* The walk is right for the blocks from the i-th on.
StepsFrom(f, m, h, p, c, n, i) ==
  \A j \in i .. n : \A y \in Places(m) : f[<<c[j], y>>] = Step(f, m, h, p, c[j], y)

\* The trailing pointer stays on the list.
LEMMA TrailPlaces ==
    ASSUME NEW m, NEW h, NEW c, NEW n, Strung(m, h, c, n), NEW y \in Places(m)
    PROVE  Trail(m, h, y) \in Places(m)
  <1>1. n \in Nat /\ \A i \in 0 .. n : c[i] \in Places(m)
    BY OnTheList
  <1>2. h \in Places(m)
    BY <1>1 DEF Strung, Runs
  <1>3. ASSUME y # NULL PROVE m[y].next \in Places(m)
    <2>1. PICK i \in 0 .. n - 1 : c[i] = y
      BY <1>3 DEF Places, Strung, Once
    <2>2. i + 1 \in 0 .. n
      BY <1>1
    <2> QED BY <1>1, <2>1, <2>2 DEF Strung, Runs
  <1> QED BY <1>2, <1>3 DEF Trail

\* A walk from the i-th block gives one from the block before it.
LEMMA WalkStep ==
    ASSUME NEW m, NEW h, NEW c, NEW n, Strung(m, h, c, n), NEW p, NEW i \in 1 .. n,
           NEW f, StepsFrom(f, m, h, p, c, n, i)
    PROVE  \E g : StepsFrom(g, m, h, p, c, n, i - 1)
  <1> DEFINE k == i - 1
             v(y) == IF c[k] = p THEN <<c[k], y>> ELSE f[<<c[i], Trail(m, h, y)>>]
             g == [x \in Places(m) \X Places(m) |-> IF x[1] = c[k] THEN v(x[2]) ELSE f[x]]
  <1>1. n \in Nat /\ k \in 0 .. n - 1 /\ k \in 0 .. n /\ k + 1 = i /\ i \in 0 .. n
    BY OnTheList
  <1>2. c[k] \in Places(m) /\ c[k] # NULL /\ m[c[k]].next = c[i] /\ c[i] \in Places(m)
    BY <1>1, OnTheList DEF Strung, Runs
  <1>3. \A j \in i .. n : j \in 0 .. n /\ c[j] \in Places(m) /\ c[j] # c[k]
    <2>1. \A j \in i .. n : j \in 0 .. n /\ j # k
      BY <1>1
    <2> QED BY <1>1, <2>1, OnTheList
  <1>4. \A x \in Places(m) : \A y \in Places(m) :
           g[<<x, y>>] = IF x = c[k] THEN v(y) ELSE f[<<x, y>>]
    OBVIOUS
  <1> HIDE DEF g
  <1>5. \A y \in Places(m) : g[<<c[k], y>>] = Step(g, m, h, p, c[k], y)
    <2> SUFFICES ASSUME NEW y \in Places(m) PROVE g[<<c[k], y>>] = Step(g, m, h, p, c[k], y)
      OBVIOUS
    <2>1. Trail(m, h, y) \in Places(m)
      BY TrailPlaces
    <2>2. i \in i .. n
      BY <1>1
    <2>3. g[<<c[i], Trail(m, h, y)>>] = f[<<c[i], Trail(m, h, y)>>]
      BY <1>2, <1>3, <1>4, <2>1, <2>2
    <2> HIDE DEF k
    <2> QED BY <1>2, <1>4, <2>3 DEF Step
  <1>6. ASSUME NEW j \in i .. n, NEW y \in Places(m) PROVE g[<<c[j], y>>] = Step(g, m, h, p, c[j], y)
    <2>1. g[<<c[j], y>>] = f[<<c[j], y>>]
      BY <1>3, <1>4
    <2>2. f[<<c[j], y>>] = Step(f, m, h, p, c[j], y)
      BY DEF StepsFrom
    <2>3. CASE c[j] = NULL \/ c[j] = p
      BY <2>1, <2>2, <2>3 DEF Step
    <2>4. CASE ~(c[j] = NULL \/ c[j] = p)
      <3>1. j \in 0 .. n - 1 /\ j + 1 \in i .. n
        <4>1. j # n
          BY <1>1, <1>3, <2>4, OnTheList
        <4> QED BY <1>1, <4>1
      <3>2. m[c[j]].next = c[j + 1] /\ Trail(m, h, y) \in Places(m)
        BY <3>1, TrailPlaces DEF Strung, Runs
      <3>3. g[<<c[j + 1], Trail(m, h, y)>>] = f[<<c[j + 1], Trail(m, h, y)>>]
        BY <1>3, <1>4, <3>1, <3>2
      <3> QED BY <2>1, <2>2, <2>4, <3>2, <3>3 DEF Step
    <2> QED BY <2>3, <2>4
  <1>7. \A j \in k .. n : j = k \/ j \in i .. n
    BY <1>1
  <1>8. StepsFrom(g, m, h, p, c, n, k)
    <2> HIDE DEF k
    <2> QED BY <1>5, <1>6, <1>7 DEF StepsFrom
  <1> QED BY <1>8

\* There is a walk from every block.
LEMMA StepsExist ==
    ASSUME NEW m, NEW h, NEW c, NEW n, Strung(m, h, c, n), NEW p
    PROVE  \E f : Steps(f, m, h, p)
  <1>1. n \in Nat /\ c[n] = NULL
    BY DEF Strung, Runs
  <1> DEFINE T == {k \in 0 .. n : \E f : StepsFrom(f, m, h, p, c, n, n - k)}
  <1>2. 0 \in T
    <2> DEFINE f == [x \in Places(m) \X Places(m) |-> x]
    <2>1. \A y \in Places(m) : f[<<NULL, y>>] = <<NULL, y>>
      BY DEF Places
    <2> HIDE DEF f
    <2>2. \A j \in n .. n : j = n
      BY <1>1
    <2>3. StepsFrom(f, m, h, p, c, n, n)
      BY <1>1, <2>1, <2>2 DEF StepsFrom, Step
    <2>4. n - 0 = n /\ 0 \in 0 .. n
      BY <1>1
    <2> QED BY <2>3, <2>4
  <1>3. ASSUME NEW k \in 1 .. n, k - 1 \in T PROVE k \in T
    <2>1. n - (k - 1) \in 1 .. n /\ (n - (k - 1)) - 1 = n - k /\ k \in 0 .. n
      BY <1>1
    <2>2. PICK f : StepsFrom(f, m, h, p, c, n, n - (k - 1))
      BY <1>3
    <2>3. \E g : StepsFrom(g, m, h, p, c, n, (n - (k - 1)) - 1)
      BY <2>1, <2>2, WalkStep
    <2> QED BY <2>1, <2>3
  <1>4. n \in T
    <2> HIDE DEF T
    <2>1. Climbs(T, n)
      BY <1>2, <1>3 DEF Climbs
    <2>2. \A i \in 0 .. n : i \in T
      BY <1>1, <2>1, Climb
    <2> QED BY <1>1, <2>2
  <1>5. PICK f : StepsFrom(f, m, h, p, c, n, 0)
    <2>1. n - n = 0
      BY <1>1
    <2> QED BY <1>4, <2>1
  <1> DEFINE g == [x \in Places(m) \X Places(m) |-> f[x]]
  <1>6. \A x \in Places(m) : \A y \in Places(m) : f[<<x, y>>] = Step(f, m, h, p, x, y)
    BY <1>5, OnTheList DEF StepsFrom
  <1>7. ASSUME NEW x \in Places(m), NEW y \in Places(m) PROVE g[<<x, y>>] = Step(g, m, h, p, x, y)
    <2>1. CASE x = NULL \/ x = p
      BY <1>6, <2>1 DEF Step
    <2>2. CASE ~(x = NULL \/ x = p)
      <3>1. m[x].next \in Places(m) /\ Trail(m, h, y) \in Places(m)
        BY <2>2, TrailPlaces DEF Trail
      <3>2. g[<<m[x].next, Trail(m, h, y)>>] = f[<<m[x].next, Trail(m, h, y)>>]
        BY <3>1
      <3> QED BY <1>6, <2>2, <3>2 DEF Step
    <2> QED BY <2>1, <2>2
  <1>8. g = [x \in Places(m) \X Places(m) |-> g[x]]
    OBVIOUS
  <1>9. ASSUME NEW x \in Places(m) \X Places(m)
        PROVE  g[x] = IF x[1] = NULL \/ x[1] = p THEN x ELSE g[<<m[x[1]].next, Trail(m, h, x[2])>>]
    <2>1. x = <<x[1], x[2]>> /\ x[1] \in Places(m) /\ x[2] \in Places(m)
      OBVIOUS
    <2>2. g[<<x[1], x[2]>>] = Step(g, m, h, p, x[1], x[2])
      BY <1>7, <2>1
    <2> HIDE DEF g
    <2> QED BY <2>1, <2>2 DEF Step
  <1> HIDE DEF g
  <1>10. Steps(g, m, h, p)
    BY <1>8, <1>9 DEF Steps
  <1> QED BY <1>10
-----------------------------------------------------------------------------
(* What the loop finds, and what the list looks like afterwards.           *)

\* Where the trailing pointer is when the loop has reached the j-th block.
Passed(c, p, j) == \A i \in 0 .. j - 1 : c[i] # p
Behind(c, j) == IF j = 0 THEN NULL ELSE c[j - 1]

\* The walk from the head comes to the j-th block with the trailing pointer one behind.
LEMMA WalkTo ==
    ASSUME NEW m, NEW h, NEW c, NEW n, Strung(m, h, c, n), NEW p, NEW f, Steps(f, m, h, p),
           NEW j \in 0 .. n, Passed(c, p, j)
    PROVE  f[<<h, NULL>>] = f[<<c[j], Behind(c, j)>>]
  <1>0. n \in Nat /\ j \in Nat /\ \A i \in 0 .. j : i \in 0 .. n
    BY OnTheList
  <1>1. \A x \in Places(m) : \A y \in Places(m) : f[<<x, y>>] = Step(f, m, h, p, x, y)
    BY DEF Steps, Step
  <1>2. c[0] = h /\ \A i \in 0 .. n : c[i] \in Places(m)
    BY OnTheList DEF Strung, Runs
  <1> DEFINE T == {i \in 0 .. j : f[<<h, NULL>>] = f[<<c[i], Behind(c, i)>>]}
  <1>3. 0 \in T
    BY <1>0, <1>2 DEF Behind
  <1>4. ASSUME NEW i \in 1 .. j, i - 1 \in T PROVE i \in T
    <2> DEFINE k == i - 1
    <2>1. k \in 0 .. n - 1 /\ k \in 0 .. n /\ k \in 0 .. j - 1 /\ k + 1 = i /\ i \in 0 .. j /\ i # 0 /\ k # n
      BY <1>0
    <2>2. c[k] # p /\ c[k] # NULL /\ m[c[k]].next = c[i]
      BY <2>1, OnTheList DEF Strung, Runs, Passed
    <2>3. Behind(c, k) \in Places(m) /\ Trail(m, h, Behind(c, k)) = c[k]
      <3>1. CASE k = 0
        BY <1>2, <3>1 DEF Behind, Trail, Places
      <3>2. CASE k # 0
        <4>1. k - 1 \in 0 .. n - 1 /\ k - 1 \in 0 .. n /\ (k - 1) + 1 = k /\ k - 1 # n
          BY <1>0, <2>1, <3>2
        <4>2. c[k - 1] # NULL /\ m[c[k - 1]].next = c[k] /\ c[k - 1] \in Places(m)
          BY <4>1, OnTheList DEF Strung, Runs
        <4> HIDE DEF k
        <4> QED BY <3>2, <4>2 DEF Behind, Trail
      <3> QED BY <3>1, <3>2
    <2>4. Behind(c, i) = c[k]
      BY <2>1 DEF Behind
    <2>5. f[<<h, NULL>>] = f[<<c[k], Behind(c, k)>>]
      BY <1>4
    <2>6. f[<<c[k], Behind(c, k)>>] = f[<<c[i], c[k]>>]
      <3> HIDE DEF k
      <3> QED BY <1>1, <1>2, <2>1, <2>2, <2>3 DEF Step
    <2> QED BY <2>1, <2>4, <2>5, <2>6
  <1>5. j \in T
    <2> HIDE DEF T
    <2>1. Climbs(T, j)
      BY <1>3, <1>4 DEF Climbs
    <2>2. \A i \in 0 .. j : i \in T
      BY <1>0, <2>1, Climb
    <2> QED BY <1>0, <2>2
  <1> QED BY <1>5

\* The loops at lines 87-102 and 148-164.
LEMMA FindFinds ==
    ASSUME NEW c, NEW n, Strung(mem, head, c, n), NEW p, p # NULL
    PROVE  /\ p \notin DOMAIN mem => C!Find(p)[1] = NULL
           /\ \A j \in 0 .. n - 1 : c[j] = p => C!Find(p) = <<p, Behind(c, j)>>
  <1> DEFINE f == CHOOSE g : Steps(g, mem, head, p)
  <1>1. Steps(f, mem, head, p)
    BY StepsExist
  <1>2. C!Find(p) = f[<<head, NULL>>]
    BY DEF C!Find, Steps, Trail, Places
  <1> HIDE DEF f
  <1>3. \A x \in Places(mem) : \A y \in Places(mem) : f[<<x, y>>] = Step(f, mem, head, p, x, y)
    BY <1>1 DEF Steps, Step
  <1>4. n \in Nat /\ \A j \in 0 .. n : Behind(c, j) \in Places(mem)
    <2>1. n \in Nat /\ NULL \in Places(mem) /\ \A i \in 0 .. n : c[i] \in Places(mem)
      BY OnTheList DEF Places
    <2>2. \A j \in 0 .. n : j # 0 => j - 1 \in 0 .. n
      BY <2>1
    <2> QED BY <2>1, <2>2 DEF Behind
  <1>5. ASSUME p \notin DOMAIN mem PROVE C!Find(p)[1] = NULL
    <2>1. Passed(c, p, n)
      BY <1>5 DEF Strung, Runs, Passed
    <2>2. n \in 0 .. n /\ c[n] = NULL /\ c[n] \in Places(mem)
      BY <1>4, OnTheList
    <2>3. f[<<head, NULL>>] = f[<<c[n], Behind(c, n)>>]
      BY <1>1, <2>1, <2>2, WalkTo
    <2>4. f[<<c[n], Behind(c, n)>>] = <<NULL, Behind(c, n)>>
      BY <1>3, <1>4, <2>2 DEF Step
    <2> QED BY <1>2, <2>3, <2>4
  <1>6. ASSUME NEW j \in 0 .. n - 1, c[j] = p PROVE C!Find(p) = <<p, Behind(c, j)>>
    <2>1. j \in 0 .. n /\ \A i \in 0 .. j - 1 : i \in 0 .. n - 1 /\ i # j
      BY <1>4
    <2>2. Passed(c, p, j)
      BY <1>6, <2>1 DEF Strung, Once, Passed
    <2>3. f[<<head, NULL>>] = f[<<c[j], Behind(c, j)>>]
      BY <1>1, <2>1, <2>2, WalkTo
    <2>4. c[j] \in Places(mem)
      BY <2>1, OnTheList
    <2> QED BY <1>2, <1>3, <1>4, <1>6, <2>1, <2>3, <2>4 DEF Step
  <1> QED BY <1>5, <1>6

\* The list is as long as there are blocks.
LEMMA StrungFinite ==
    ASSUME NEW m, NEW h, NEW c, NEW n, Strung(m, h, c, n)
    PROVE  IsFiniteSet(DOMAIN m) /\ Cardinality(DOMAIN m) = n
  <1> DEFINE f == [i \in 0 .. n - 1 |-> c[i]]
             S == 0 .. n - 1
  <1>1. n \in Nat /\ IsFiniteSet(S) /\ Cardinality(S) = n
    <2>1. n \in Nat
      BY DEF Strung, Runs
    <2>2. IsFiniteSet(S) /\ Cardinality(S) = IF 0 > n - 1 THEN 0 ELSE (n - 1) - 0 + 1
      BY <2>1, FS_Interval
    <2> HIDE DEF S
    <2> QED BY <2>1, <2>2
  <1>2. f \in [S -> DOMAIN m] /\ \A i \in S : f[i] = c[i]
    BY DEF Strung, Runs
  <1> HIDE DEF f
  <1>3. \A i \in S : \A j \in S : f[i] = f[j] => i = j
    BY <1>2 DEF Strung, Once
  <1>4. \A a \in DOMAIN m : \E i \in S : f[i] = a
    BY <1>2 DEF Strung, Once
  <1> HIDE DEF S
  <1>5. f \in Bijection(S, DOMAIN m)
    BY <1>2, <1>3, <1>4 DEF Bijection, Injection, IsInjective, Surjection
  <1>6. ExistsBijection(S, DOMAIN m)
    BY <1>5 DEF ExistsBijection
  <1> QED BY <1>1, <1>6, FS_Bijection

\* Following next from head, as the property does.
Follows(f, n) ==
  f = [i \in 0 .. n |-> IF i = 0 THEN head ELSE IF f[i - 1] = NULL THEN NULL ELSE mem[f[i - 1]].next]

\* The function that follows next from head goes along the list.
LEMMA ChainIs ==
    ASSUME NEW c, NEW n, Strung(mem, head, c, n)
    PROVE  LET f == CHOOSE g : Follows(g, n)
           IN  f = [i \in 0 .. n |-> f[i]] /\ \A i \in 0 .. n : f[i] = c[i]
  <1> DEFINE g == [i \in 0 .. n |-> c[i]]
             f == CHOOSE k : Follows(k, n)
  <1>0. n \in Nat
    BY OnTheList
  <1>1. ASSUME NEW i \in 1 .. n
        PROVE i - 1 \in 0 .. n - 1 /\ i - 1 \in 0 .. n /\ i \in 0 .. n /\ i # 0 /\ c[i - 1] # NULL /\ mem[c[i - 1]].next = c[i]
    <2>1. i - 1 \in 0 .. n - 1 /\ i - 1 \in 0 .. n /\ (i - 1) + 1 = i /\ i - 1 # n /\ i \in 0 .. n /\ i # 0
      BY <1>0
    <2> QED BY <2>1, OnTheList DEF Strung, Runs
  <1>2. c[0] = head /\ \A i \in 0 .. n : i = 0 \/ i \in 1 .. n
    BY <1>0 DEF Strung, Runs
  <1>3. \A i \in 0 .. n : g[i] = IF i = 0 THEN head ELSE IF g[i - 1] = NULL THEN NULL ELSE mem[g[i - 1]].next
    BY <1>1, <1>2
  <1>4. g = [i \in 0 .. n |-> g[i]]
    OBVIOUS
  <1> HIDE DEF g
  <1>5. Follows(g, n)
    BY <1>3, <1>4 DEF Follows
  <1>6. Follows(f, n)
    BY <1>5
  <1> HIDE DEF f
  <1>7. f = [i \in 0 .. n |-> f[i]]
    BY <1>6 DEF Follows
  <1> DEFINE T == {i \in 0 .. n : f[i] = c[i]}
  <1>8. 0 \in T
    BY <1>0, <1>2, <1>6 DEF Follows
  <1>9. ASSUME NEW i \in 1 .. n, i - 1 \in T PROVE i \in T
    <2>1. f[i - 1] = c[i - 1]
      BY <1>9
    <2>2. f[i] = IF f[i - 1] = NULL THEN NULL ELSE mem[f[i - 1]].next
      BY <1>1, <1>6 DEF Follows
    <2> QED BY <1>1, <2>1, <2>2
  <1>10. \A i \in 0 .. n : f[i] = c[i]
    <2> HIDE DEF T
    <2>1. Climbs(T, n)
      BY <1>8, <1>9 DEF Climbs
    <2>2. \A i \in 0 .. n : i \in T
      BY <1>0, <2>1, Climb
    <2> QED BY <2>2 DEF T
  <1> QED BY <1>7, <1>10 DEF f
\* Blocks are functions to records.
Cells(m) == /\ m = [x \in DOMAIN m |-> m[x]]
            /\ \A x \in DOMAIN m : m[x] = [request_size |-> m[x].request_size, next |-> m[x].next]

LinkedTo(u, m, h, a, size) ==
  /\ Cells(u) /\ DOMAIN u = DOMAIN m \cup {a}
  /\ u[a].next = h /\ u[a].request_size = size
  /\ \A x \in DOMAIN m : x # a => u[x] = m[x]

LEMMA LinkEffects ==
    ASSUME NEW m, NEW h, NEW a, NEW size, Cells(m)
    PROVE  LinkedTo(C!Linked(m, h, a, size), m, h, a, size)
  <1> DEFINE u == C!Linked(m, h, a, size)
             r == [request_size |-> size, next |-> h]
  <1>1. u = [x \in DOMAIN m \cup {a} |-> IF x = a THEN r ELSE m[x]]
    BY DEF C!Linked, C!With
  <1>2. r.next = h /\ r.request_size = size /\ r = [request_size |-> r.request_size, next |-> r.next]
    OBVIOUS
  <1> HIDE DEF u, r
  <1>3. /\ DOMAIN u = DOMAIN m \cup {a} /\ u[a] = r /\ \A x \in DOMAIN m : x # a => u[x] = m[x]
        /\ u = [x \in DOMAIN u |-> u[x]]
    BY <1>1
  <1>4. Cells(u)
    BY <1>2, <1>3 DEF Cells
  <1> QED BY <1>2, <1>3, <1>4 DEF u, LinkedTo

\* A new block comes first.
LEMMA StrungInsert ==
    ASSUME NEW m, NEW h, NEW c, NEW n, Strung(m, h, c, n), Cells(m), NEW a, a \notin DOMAIN m, a # NULL,
           NEW size
    PROVE  \E d : Strung(C!Linked(m, h, a, size), a, d, n + 1)
  <1> DEFINE u == C!Linked(m, h, a, size)
             d == [i \in 0 .. n + 1 |-> IF i = 0 THEN a ELSE c[i - 1]]
  <1>1. /\ DOMAIN u = DOMAIN m \cup {a} /\ u[a].next = h /\ \A x \in DOMAIN m : u[x] = m[x]
    <2>1. LinkedTo(u, m, h, a, size)
      BY LinkEffects
    <2> HIDE DEF u
    <2> QED BY <2>1 DEF LinkedTo
  <1> HIDE DEF u
  <1>2. n \in Nat /\ n + 1 \in Nat
    BY OnTheList
  <1>3. d[0] = a /\ \A i \in 1 .. n + 1 : d[i] = c[i - 1]
    BY <1>2
  <1> HIDE DEF d
  <1>4. \A i \in 0 .. n : i = 0 \/ (i \in 1 .. n + 1 /\ i - 1 \in 0 .. n - 1 /\ (i - 1) + 1 = i /\ i + 1 \in 1 .. n + 1 /\ (i + 1) - 1 = i)
    BY <1>2
  <1>5. 1 \in 1 .. n + 1 /\ n + 1 \in 1 .. n + 1 /\ (n + 1) - 1 = n /\ 0 + 1 = 1 /\ 1 - 1 = 0
    BY <1>2
  <1>6. Runs(u, a, d, n + 1)
    <2>1. ASSUME NEW i \in 0 .. n PROVE d[i] \in DOMAIN u /\ u[d[i]].next = d[i + 1]
      <3>1. CASE i = 0
        BY <1>1, <1>3, <1>5, <3>1 DEF Strung, Runs
      <3>2. CASE i # 0
        <4>1. d[i] = c[i - 1] /\ d[i + 1] = c[i] /\ i - 1 \in 0 .. n - 1 /\ (i - 1) + 1 = i
          BY <1>3, <1>4, <3>2
        <4>2. c[i - 1] \in DOMAIN m /\ m[c[i - 1]].next = c[i]
          BY <4>1 DEF Strung, Runs
        <4> QED BY <1>1, <4>1, <4>2
      <3> QED BY <3>1, <3>2
    <2>2. d[n + 1] = NULL
      BY <1>3, <1>5 DEF Strung, Runs
    <2>3. (n + 1) - 1 = n
      BY <1>2
    <2> QED BY <1>2, <1>3, <2>1, <2>2, <2>3 DEF Runs
  <1>7. Once(u, d, n + 1)
    <2>0. (n + 1) - 1 = n
      BY <1>2
    <2>1. ASSUME NEW i \in 0 .. n, NEW k \in 0 .. n, d[i] = d[k] PROVE i = k
      <3>1. CASE i = 0 \/ k = 0
        <4>1. \A l \in 0 .. n : l # 0 => d[l] # a
          BY <1>3, <1>4 DEF Strung, Runs
        <4> QED BY <1>3, <2>1, <3>1, <4>1
      <3>2. CASE i # 0 /\ k # 0
        <4>1. c[i - 1] = c[k - 1] /\ i - 1 \in 0 .. n - 1 /\ k - 1 \in 0 .. n - 1
          BY <1>3, <1>4, <2>1, <3>2
        <4>2. i - 1 = k - 1
          BY <4>1 DEF Strung, Once
        <4> QED BY <1>2, <4>2
      <3> QED BY <3>1, <3>2
    <2>2. ASSUME NEW x \in DOMAIN u PROVE \E i \in 0 .. n : d[i] = x
      <3>1. CASE x = a
        <4>1. 0 \in 0 .. n
          BY <1>2
        <4> QED BY <1>3, <3>1, <4>1
      <3>2. CASE x # a
        <4>1. PICK i \in 0 .. n - 1 : c[i] = x
          BY <1>1, <3>2 DEF Strung, Once
        <4>2. i + 1 \in 0 .. n /\ i + 1 \in 1 .. n + 1 /\ (i + 1) - 1 = i
          BY <1>2
        <4> QED BY <1>3, <4>1, <4>2
      <3> QED BY <3>1, <3>2
    <2> QED BY <2>0, <2>1, <2>2 DEF Once
  <1>8. Strung(u, a, d, n + 1)
    BY <1>1, <1>6, <1>7 DEF Strung
  <1> QED BY <1>8 DEF u

UnlinkedTo(u, hd, c, j) ==
  /\ Cells(u) /\ DOMAIN u = DOMAIN mem \ {c[j]}
  /\ \A x \in DOMAIN u : u[x].request_size = mem[x].request_size
  /\ \A x \in DOMAIN u : u[x].next = IF j # 0 /\ x = c[j - 1] THEN c[j + 1] ELSE mem[x].next
  /\ hd = IF j = 0 THEN c[1] ELSE head

\* Unlinking leaves out one block, and changes one link.
LEMMA UnlinkEffects ==
    ASSUME NEW c, NEW n, Strung(mem, head, c, n), Cells(mem), NEW j \in 0 .. n - 1
    PROVE  UnlinkedTo(C!Unlinked(<<c[j], Behind(c, j)>>), C!UnlinkedHead(<<c[j], Behind(c, j)>>), c, j)
  <1> DEFINE p == c[j]
             b == Behind(c, j)
             found == <<p, b>>
             u == C!Unlinked(found)
             hd == C!UnlinkedHead(found)
             r == [request_size |-> mem[b].request_size, next |-> c[j + 1]]
  <1>1. n \in Nat /\ j \in 0 .. n /\ 0 \in 0 .. n - 1 /\ c[0] = head /\ p \in DOMAIN mem /\ mem[p].next = c[j + 1]
    BY DEF Strung, Runs
  <1>2. p = head <=> j = 0
    BY <1>1 DEF Strung, Once
  <1>3. found[1] = p /\ found[2] = b
    OBVIOUS
  <1>4. hd = IF j = 0 THEN c[1] ELSE head
    <2>1. j = 0 => j + 1 = 1
      OBVIOUS
    <2> HIDE DEF p, found
    <2> QED BY <1>1, <1>2, <1>3, <2>1 DEF C!UnlinkedHead
  <1> HIDE DEF hd
  <1>5. ASSUME j = 0 PROVE UnlinkedTo(u, hd, c, j)
    <2>1. u = [x \in DOMAIN mem \ {p} |-> mem[x]]
      <3> HIDE DEF p, found
      <3> QED BY <1>2, <1>3, <1>5 DEF C!Unlinked, C!Without
    <2> HIDE DEF u, p
    <2>2. DOMAIN u = DOMAIN mem \ {p} /\ u = [x \in DOMAIN u |-> u[x]] /\ \A x \in DOMAIN u : u[x] = mem[x]
      BY <2>1
    <2>3. Cells(u)
      BY <2>2 DEF Cells
    <2> QED BY <1>4, <1>5, <2>2, <2>3 DEF UnlinkedTo, p
  <1>6. ASSUME j # 0 PROVE UnlinkedTo(u, hd, c, j)
    <2>1. j - 1 \in 0 .. n - 1 /\ j - 1 # j
      BY <1>1, <1>6
    <2>2. b = c[j - 1] /\ b \in DOMAIN mem /\ b # p
      BY <1>6, <2>1 DEF Behind, Strung, Runs, Once
    <2> HIDE DEF b
    <2>3. [mem EXCEPT ![b].next = c[j + 1]] = [x \in DOMAIN mem |-> IF x = b THEN r ELSE mem[x]]
      BY <2>2 DEF Cells
    <2>4. u = [x \in DOMAIN mem \ {p} |-> IF x = b THEN r ELSE mem[x]]
      <3>1. u = C!Without([mem EXCEPT ![b].next = mem[p].next], p)
        <4> HIDE DEF p, found
        <4> QED BY <1>2, <1>3, <1>6 DEF C!Unlinked
      <3> DEFINE e == [mem EXCEPT ![b].next = c[j + 1]]
      <3>2. DOMAIN e = DOMAIN mem /\ \A x \in DOMAIN mem : e[x] = IF x = b THEN r ELSE mem[x]
        BY <2>3
      <3>3. u = C!Without(e, p)
        BY <1>1, <3>1
      <3> HIDE DEF e, p, u, r
      <3> QED BY <3>2, <3>3 DEF C!Without
    <2>5. r.next = c[j + 1] /\ r.request_size = mem[b].request_size /\ r = [request_size |-> r.request_size, next |-> r.next]
      OBVIOUS
    <2> HIDE DEF u, p, r
    <2>6. /\ DOMAIN u = DOMAIN mem \ {p} /\ u = [x \in DOMAIN u |-> u[x]]
          /\ \A x \in DOMAIN u : u[x] = IF x = b THEN r ELSE mem[x]
      BY <2>4
    <2>7. Cells(u)
      BY <2>5, <2>6 DEF Cells
    <2>8. /\ \A x \in DOMAIN u : u[x].request_size = mem[x].request_size
          /\ \A x \in DOMAIN u : u[x].next = IF x = b THEN c[j + 1] ELSE mem[x].next
      BY <2>5, <2>6
    <2> QED BY <1>4, <1>6, <2>2, <2>6, <2>7, <2>8 DEF UnlinkedTo, p
  <1>7. UnlinkedTo(u, hd, c, j)
    BY <1>5, <1>6
  <1> QED BY <1>7 DEF u, hd

\* A list without its j-th block is a list.
LEMMA StrungRemove ==
    ASSUME NEW c, NEW n, Strung(mem, head, c, n), Cells(mem), NEW j \in 0 .. n - 1
    PROVE  \E d : Strung(C!Unlinked(<<c[j], Behind(c, j)>>), C!UnlinkedHead(<<c[j], Behind(c, j)>>), d, n - 1)
  <1> DEFINE found == <<c[j], Behind(c, j)>>
             u == C!Unlinked(found)
             hd == C!UnlinkedHead(found)
             d == [i \in 0 .. n - 1 |-> IF i < j THEN c[i] ELSE c[i + 1]]
  <1>1. /\ DOMAIN u = DOMAIN mem \ {c[j]}
        /\ \A x \in DOMAIN u : u[x].next = IF j # 0 /\ x = c[j - 1] THEN c[j + 1] ELSE mem[x].next
        /\ hd = IF j = 0 THEN c[1] ELSE head
    <2>1. UnlinkedTo(u, hd, c, j)
      BY UnlinkEffects
    <2> HIDE DEF u, hd
    <2> QED BY <2>1 DEF UnlinkedTo
  <1> HIDE DEF u, hd
  <1>2. n \in Nat /\ n - 1 \in Nat /\ j \in Nat /\ j <= n - 1
    BY OnTheList
  <1>3. \A i \in 0 .. n - 1 : d[i] = IF i < j THEN c[i] ELSE c[i + 1]
    OBVIOUS
  <1> HIDE DEF d
  <1>4. /\ \A i \in 0 .. n - 1 : c[i] \in DOMAIN mem /\ mem[c[i]].next = c[i + 1]
        /\ c[0] = head /\ c[n] = NULL
        /\ \A i \in 0 .. n - 1 : \A k \in 0 .. n - 1 : c[i] = c[k] => i = k
        /\ \A a \in DOMAIN mem : \E i \in 0 .. n - 1 : c[i] = a
    BY DEF Strung, Runs, Once
  <1>5. d[0] = hd
    <2>1. 0 \in 0 .. n - 1 /\ 0 + 1 = 1 /\ (0 < j <=> j # 0)
      BY <1>2
    <2> QED BY <1>1, <1>3, <1>4, <2>1
  <1>6. d[n - 1] = NULL
    <2>1. n - 1 \in 0 .. n - 1 /\ (n - 1) + 1 = n /\ ~(n - 1 < j)
      BY <1>2
    <2> QED BY <1>3, <1>4, <2>1
  <1>7. ASSUME NEW i \in 0 .. (n - 1) - 1 PROVE d[i] \in DOMAIN u /\ u[d[i]].next = d[i + 1]
    <2>1. i \in 0 .. n - 1 /\ i + 1 \in 0 .. n - 1 /\ i \in Nat
      BY <1>2
    <2>2. CASE i + 1 < j
      <3>1. i < j /\ i # j /\ j - 1 \in 0 .. n - 1 /\ i # j - 1
        BY <1>2, <2>1, <2>2
      <3>2. d[i] = c[i] /\ d[i + 1] = c[i + 1]
        BY <1>3, <2>1, <2>2, <3>1
      <3> QED BY <1>1, <1>4, <2>1, <3>1, <3>2
    <2>3. CASE i + 1 = j
      <3>1. i < j /\ i # j /\ i = j - 1 /\ ~(i + 1 < j) /\ (i + 1) + 1 = j + 1 /\ j # 0
        BY <1>2, <2>1, <2>3
      <3>2. d[i] = c[i] /\ d[i + 1] = c[j + 1]
        BY <1>3, <2>1, <2>3, <3>1
      <3> QED BY <1>1, <1>4, <2>1, <3>1, <3>2
    <2>4. CASE j <= i
      <3>1. ~(i < j) /\ ~(i + 1 < j) /\ i + 1 # j /\ (j # 0 => j - 1 \in 0 .. n - 1 /\ i + 1 # j - 1)
        BY <1>2, <2>1, <2>4
      <3>2. d[i] = c[i + 1] /\ d[i + 1] = c[(i + 1) + 1]
        BY <1>3, <2>1, <3>1
      <3> QED BY <1>1, <1>4, <2>1, <3>1, <3>2
    <2> QED BY <1>2, <2>1, <2>2, <2>3, <2>4
  <1>8. Runs(u, hd, d, n - 1)
    BY <1>2, <1>5, <1>6, <1>7 DEF Runs
  <1>9. ASSUME NEW i \in 0 .. (n - 1) - 1, NEW k \in 0 .. (n - 1) - 1, d[i] = d[k] PROVE i = k
    <2>1. /\ i \in 0 .. n - 1 /\ i + 1 \in 0 .. n - 1 /\ i \in Nat
          /\ k \in 0 .. n - 1 /\ k + 1 \in 0 .. n - 1 /\ k \in Nat
      BY <1>2
    <2>2. CASE i < j /\ k < j
      BY <1>3, <1>4, <1>9, <2>1, <2>2
    <2>3. CASE i < j /\ ~(k < j)
      <3>1. c[i] = c[k + 1]
        BY <1>3, <1>9, <2>1, <2>3
      <3>2. i = k + 1
        BY <1>4, <2>1, <3>1
      <3> QED BY <1>2, <2>1, <2>3, <3>2
    <2>4. CASE ~(i < j) /\ k < j
      <3>1. c[i + 1] = c[k]
        BY <1>3, <1>9, <2>1, <2>4
      <3>2. i + 1 = k
        BY <1>4, <2>1, <3>1
      <3> QED BY <1>2, <2>1, <2>4, <3>2
    <2>5. CASE ~(i < j) /\ ~(k < j)
      <3>1. c[i + 1] = c[k + 1]
        BY <1>3, <1>9, <2>1, <2>5
      <3>2. i + 1 = k + 1
        BY <1>4, <2>1, <3>1
      <3> QED BY <2>1, <3>2
    <2> QED BY <2>2, <2>3, <2>4, <2>5
  <1>10. ASSUME NEW x \in DOMAIN u PROVE \E i \in 0 .. (n - 1) - 1 : d[i] = x
    <2>1. PICK k \in 0 .. n - 1 : c[k] = x
      BY <1>1, <1>4
    <2>2. k # j
      BY <1>1, <2>1
    <2>3. CASE k < j
      <3>1. k \in 0 .. (n - 1) - 1
        BY <1>2, <2>3
      <3> QED BY <1>3, <2>1, <2>3, <3>1
    <2>4. CASE ~(k < j)
      <3>1. k - 1 \in 0 .. (n - 1) - 1 /\ k - 1 \in 0 .. n - 1 /\ ~(k - 1 < j) /\ (k - 1) + 1 = k
        BY <1>2, <2>2, <2>4
      <3> QED BY <1>3, <2>1, <3>1
    <2> QED BY <2>3, <2>4
  <1>11. Once(u, d, n - 1)
    BY <1>9, <1>10 DEF Once
  <1>12. Strung(u, hd, d, n - 1)
    BY <1>1, <1>8, <1>11 DEF Strung
  <1> QED BY <1>12 DEF u, hd
-----------------------------------------------------------------------------
(* The sum of a finite function of numbers, in whichever order its         *)
(* arguments are taken.                                                    *)

Numbers(f) == IsFiniteSet(DOMAIN f) /\ \A x \in DOMAIN f : f[x] \in Nat
Adds(g, f, S) == g[{}] = 0 /\ \A s \in SUBSET S : \A x \in s : g[s] = g[s \ {x}] + f[x]
AddsOne(g, f, S) == g[{}] = 0 /\ \A s \in SUBSET S : s # {} => \E x \in s : g[s] = f[x] + g[s \ {x}]

\* One argument more.
LEMMA SumStep ==
    ASSUME NEW f, NEW S, NEW x, x \notin S, f[x] \in Nat, NEW g \in [SUBSET S -> Nat], Adds(g, f, S),
           \A y \in S : f[y] \in Nat
    PROVE  \E k \in [SUBSET (S \cup {x}) -> Nat] : Adds(k, f, S \cup {x})
  <1> DEFINE U == S \cup {x}
             k == [s \in SUBSET U |-> g[s \ {x}] + (IF x \in s THEN f[x] ELSE 0)]
  <1>1. \A s \in SUBSET U : s \ {x} \in SUBSET S /\ g[s \ {x}] \in Nat
    OBVIOUS
  <1>2. /\ \A s \in SUBSET U : x \in s => k[s] = g[s \ {x}] + f[x]
        /\ \A s \in SUBSET U : x \notin s => k[s] = g[s \ {x}]
    BY <1>1
  <1>3. k \in [SUBSET U -> Nat]
    BY <1>1
  <1> HIDE DEF k
  <1>4. k[{}] = 0
    <2>1. {} \in SUBSET U /\ {} \ {x} = {}
      OBVIOUS
    <2> QED BY <1>2, <2>1 DEF Adds
  <1>5. ASSUME NEW s \in SUBSET U, NEW y \in s PROVE k[s] = k[s \ {y}] + f[y]
    <2>1. s \ {y} \in SUBSET U
      OBVIOUS
    <2>2. CASE y = x
      <3>1. (s \ {x}) \ {x} = s \ {x} /\ x \notin s \ {x}
        OBVIOUS
      <3>2. k[s \ {x}] = g[s \ {x}]
        BY <1>2, <2>1, <2>2, <3>1
      <3> QED BY <1>2, <2>2, <3>2
    <2>3. CASE y # x
      <3> DEFINE r == s \ {x}
      <3>1. r \in SUBSET S /\ y \in r /\ y \in S /\ (s \ {y}) \ {x} = r \ {y} /\ (x \in s <=> x \in s \ {y})
        BY <2>3
      <3>2. g[r] = g[r \ {y}] + f[y] /\ g[r \ {y}] \in Nat /\ f[y] \in Nat
        BY <3>1 DEF Adds
      <3>3. k[s] = g[r] + (IF x \in s THEN f[x] ELSE 0)
        BY <1>1, <1>2
      <3>4. k[s \ {y}] = g[r \ {y}] + (IF x \in s THEN f[x] ELSE 0)
        BY <1>2, <2>1, <3>1, <3>2
      <3> HIDE DEF r
      <3> QED BY <3>2, <3>3, <3>4
    <2> QED BY <2>2, <2>3
  <1>6. Adds(k, f, U)
    BY <1>4, <1>5 DEF Adds
  <1> QED BY <1>3, <1>6

\* There is a sum.
LEMMA SumExists ==
    ASSUME NEW f, Numbers(f)
    PROVE  \E g \in [SUBSET (DOMAIN f) -> Nat] : Adds(g, f, DOMAIN f)
  <1> DEFINE D == DOMAIN f
             n == Cardinality(D)
             Has(S) == \E g \in [SUBSET S -> Nat] : Adds(g, f, S)
             T == {k \in 0 .. n : \A S \in SUBSET D : Cardinality(S) = k => Has(S)}
  <1>1. IsFiniteSet(D) /\ n \in Nat /\ \A x \in D : f[x] \in Nat
    BY FS_CardinalityType DEF Numbers
  <1> HIDE DEF n
  <1>2. 0 \in T
    <2>1. ASSUME NEW S \in SUBSET D, Cardinality(S) = 0 PROVE Has(S)
      <3>1. S = {}
        BY <1>1, <2>1, FS_Subset, FS_EmptySet
      <3> DEFINE g == [s \in SUBSET S |-> 0]
      <3>2. g \in [SUBSET S -> Nat] /\ Adds(g, f, S)
        BY <3>1 DEF Adds
      <3> QED BY <3>2
    <2> HIDE DEF Has
    <2> QED BY <1>1, <2>1
  <1>3. ASSUME NEW k \in 1 .. n, k - 1 \in T PROVE k \in T
    <2>1. ASSUME NEW S \in SUBSET D, Cardinality(S) = k PROVE Has(S)
      <3>1. IsFiniteSet(S) /\ S # {}
        BY <1>1, <2>1, FS_Subset, FS_EmptySet
      <3>2. PICK x \in S : TRUE
        BY <3>1
      <3> DEFINE R == S \ {x}
      <3>3. R \in SUBSET D /\ x \notin R /\ R \cup {x} = S /\ f[x] \in Nat /\ \A y \in R : f[y] \in Nat
        BY <1>1, <3>2
      <3>4. Cardinality(R) = k - 1
        BY <2>1, <3>1, <3>2, FS_RemoveElement
      <3> HIDE DEF R
      <3>5. Has(R)
        <4> HIDE DEF Has
        <4> QED BY <1>3, <3>3, <3>4
      <3>6. PICK g \in [SUBSET R -> Nat] : Adds(g, f, R)
        BY <3>5
      <3>7. Has(R \cup {x})
        BY <3>3, <3>6, SumStep
      <3> QED BY <3>3, <3>7
    <2>2. k \in 0 .. n
      BY <1>1
    <2> HIDE DEF Has
    <2> QED BY <2>1, <2>2
  <1>4. n \in T
    <2> HIDE DEF T
    <2>1. Climbs(T, n)
      BY <1>2, <1>3 DEF Climbs
    <2>2. \A i \in 0 .. n : i \in T
      BY <1>1, <2>1, Climb
    <2> QED BY <1>1, <2>2
  <1>5. Has(D)
    <2> HIDE DEF Has
    <2> QED BY <1>4 DEF n
  <1> QED BY <1>5

Sized(k, f, S) == IsFiniteSet(S) /\ k \in [SUBSET S -> Nat] /\ \A x \in S : f[x] \in Nat

\* There is only one, whatever is taken first.
LEMMA SumUnique ==
    ASSUME NEW S, NEW f, NEW g, NEW k, AddsOne(g, f, S), Adds(k, f, S), Sized(k, f, S)
    PROVE  g[S] = k[S]
  <1>0. IsFiniteSet(S) /\ k \in [SUBSET S -> Nat] /\ \A x \in S : f[x] \in Nat
    BY DEF Sized
  <1> DEFINE n == Cardinality(S)
             T == {i \in 0 .. n : \A s \in SUBSET S : Cardinality(s) = i => g[s] = k[s]}
  <1>1. n \in Nat
    BY <1>0, FS_CardinalityType
  <1> HIDE DEF n
  <1>2. 0 \in T
    <2>1. ASSUME NEW s \in SUBSET S, Cardinality(s) = 0 PROVE g[s] = k[s]
      <3>1. s = {}
        BY <1>0, <2>1, FS_Subset, FS_EmptySet
      <3> QED BY <3>1 DEF Adds, AddsOne
    <2> QED BY <1>1, <2>1
  <1>3. ASSUME NEW i \in 1 .. n, i - 1 \in T PROVE i \in T
    <2>1. ASSUME NEW s \in SUBSET S, Cardinality(s) = i PROVE g[s] = k[s]
      <3>1. IsFiniteSet(s) /\ s # {}
        BY <1>0, <1>1, <2>1, FS_Subset, FS_EmptySet
      <3>2. PICK x \in s : g[s] = f[x] + g[s \ {x}]
        BY <3>1 DEF AddsOne
      <3>3. k[s] = k[s \ {x}] + f[x]
        BY <3>2 DEF Adds
      <3>4. Cardinality(s \ {x}) = i - 1 /\ s \ {x} \in SUBSET S
        BY <2>1, <3>1, <3>2, FS_RemoveElement
      <3>5. g[s \ {x}] = k[s \ {x}]
        BY <1>3, <3>4
      <3>6. k[s \ {x}] \in Nat /\ f[x] \in Nat
        BY <1>0, <3>2, <3>4
      <3> QED BY <3>2, <3>3, <3>5, <3>6
    <2>2. i \in 0 .. n
      BY <1>1
    <2> QED BY <2>1, <2>2
  <1>4. n \in T
    <2> HIDE DEF T
    <2>1. Climbs(T, n)
      BY <1>2, <1>3 DEF Climbs
    <2>2. \A i \in 0 .. n : i \in T
      BY <1>1, <2>1, Climb
    <2> QED BY <1>1, <2>2
  <1> QED BY <1>4 DEF n

\* The sum as MapThenSumSet computes it.
Sums(g, f) == g = [s \in SUBSET (DOMAIN f) |->
                     IF s = {} THEN 0 ELSE f[CHOOSE x \in s : TRUE] + g[s \ {CHOOSE x \in s : TRUE}]]
Total(f) == (CHOOSE g : Sums(g, f))[DOMAIN f]

LEMMA TotalIs ==
    ASSUME NEW f, Numbers(f), NEW k \in [SUBSET (DOMAIN f) -> Nat], Adds(k, f, DOMAIN f)
    PROVE  Total(f) = k[DOMAIN f]
  <1> DEFINE D == DOMAIN f
             first(s) == CHOOSE x \in s : TRUE
             g == CHOOSE j : Sums(j, f)
  <1>1. \A s \in SUBSET D : s # {} => first(s) \in s
    OBVIOUS
  <1>2. ASSUME NEW s \in SUBSET D, s # {} PROVE k[s] = f[first(s)] + k[s \ {first(s)}]
    <2>1. first(s) \in s
      BY <1>1, <1>2
    <2> HIDE DEF first
    <2>2. k[s] = k[s \ {first(s)}] + f[first(s)]
      BY <2>1 DEF Adds
    <2>3. k[s \ {first(s)}] \in Nat /\ f[first(s)] \in Nat
      BY <2>1 DEF Numbers
    <2> QED BY <2>2, <2>3
  <1>3. Sums(k, f)
    <2>1. k[{}] = 0 /\ k = [s \in SUBSET D |-> k[s]]
      BY DEF Adds
    <2>2. \A s \in SUBSET D : k[s] = IF s = {} THEN 0 ELSE f[first(s)] + k[s \ {first(s)}]
      BY <1>2, <2>1
    <2> QED BY <2>1, <2>2 DEF Sums
  <1>4. Sums(g, f)
    BY <1>3
  <1> HIDE DEF g
  <1>5. AddsOne(g, f, D)
    <2>1. g[{}] = 0 /\ \A s \in SUBSET D : s # {} => g[s] = f[first(s)] + g[s \ {first(s)}]
      BY <1>4 DEF Sums
    <2> QED BY <1>1, <2>1 DEF AddsOne
  <1>6. Sized(k, f, D)
    BY DEF Numbers, Sized
  <1> QED BY <1>5, <1>6, SumUnique DEF Total, g
OneMore(g, f, a) == /\ a \notin DOMAIN f /\ DOMAIN g = DOMAIN f \cup {a} /\ g[a] \in Nat
                    /\ \A x \in DOMAIN f : g[x] = f[x]

LEMMA TotalInsert ==
    ASSUME NEW f, NEW g, NEW a, Numbers(f), OneMore(g, f, a)
    PROVE  Numbers(g) /\ Total(f) \in Nat /\ Total(g) = Total(f) + g[a]
  <1>0. /\ a \notin DOMAIN f /\ DOMAIN g = DOMAIN f \cup {a} /\ g[a] \in Nat
        /\ \A x \in DOMAIN f : g[x] = f[x]
    BY DEF OneMore
  <1> DEFINE D == DOMAIN f
             U == DOMAIN g
  <1>1. Numbers(g)
    BY <1>0, FS_AddElement DEF Numbers
  <1>2. PICK k \in [SUBSET D -> Nat] : Adds(k, f, D)
    BY SumExists
  <1>3. PICK r \in [SUBSET U -> Nat] : Adds(r, g, U)
    BY <1>1, SumExists
  <1>4. Total(f) = k[D] /\ Total(g) = r[U] /\ k[D] \in Nat
    BY <1>1, <1>2, <1>3, TotalIs
  <1>5. r[U] = r[D] + g[a]
    <2>1. U \in SUBSET U /\ a \in U /\ U \ {a} = D
      BY <1>0
    <2> HIDE DEF U, D
    <2> QED BY <1>3, <2>1 DEF Adds
  <1>6. AddsOne(r, f, D)
    <2>1. r[{}] = 0
      BY <1>3 DEF Adds
    <2>2. ASSUME NEW s \in SUBSET D, s # {} PROVE \E x \in s : r[s] = f[x] + r[s \ {x}]
      <3>1. PICK x \in s : TRUE
        BY <2>2
      <3>2. s \in SUBSET U /\ s \ {x} \in SUBSET U /\ g[x] = f[x] /\ f[x] \in Nat
        BY <1>0, <3>1 DEF Numbers
      <3>3. r[s] = r[s \ {x}] + f[x] /\ r[s \ {x}] \in Nat
        BY <1>3, <3>1, <3>2 DEF Adds
      <3>4. r[s] = f[x] + r[s \ {x}]
        BY <3>2, <3>3
      <3> QED BY <3>1, <3>4
    <2> QED BY <2>1, <2>2 DEF AddsOne
  <1>7. r[D] = k[D]
    <2>1. Sized(k, f, D)
      BY <1>2 DEF Numbers, Sized
    <2> HIDE DEF D
    <2> QED BY <1>2, <1>6, <2>1, SumUnique
  <1> QED BY <1>1, <1>4, <1>5, <1>7

LEMMA TotalEmpty ==
    ASSUME NEW f, DOMAIN f = {}
    PROVE  Numbers(f) /\ Total(f) = 0
  <1>1. Numbers(f)
    BY FS_EmptySet DEF Numbers
  <1>2. PICK k \in [SUBSET (DOMAIN f) -> Nat] : Adds(k, f, DOMAIN f)
    BY <1>1, SumExists
  <1> QED BY <1>1, <1>2, TotalIs DEF Adds

-----------------------------------------------------------------------------
(* The blocks, the list through them, and what the clients have.           *)

Requested(m) == [a \in DOMAIN m |-> m[a].request_size]
OnList(m, h) == \E c : \E n : Strung(m, h, c, n)
Recorded(m, h, o) ==
  /\ Cells(m) /\ OnList(m, h) /\ o = Requested(m) /\ \A a \in DOMAIN m : m[a].request_size \in Nat

LEMMA RecordedNumbers ==
    ASSUME NEW m, NEW h, NEW o, Recorded(m, h, o)
    PROVE  Numbers(o) /\ DOMAIN o = DOMAIN m /\ \A a \in DOMAIN m : o[a] = m[a].request_size
  <1>1. IsFiniteSet(DOMAIN m)
    BY StrungFinite DEF Recorded, OnList
  <1>2. DOMAIN o = DOMAIN m /\ \A a \in DOMAIN m : o[a] = m[a].request_size
    BY DEF Recorded, Requested
  <1> QED BY <1>1, <1>2 DEF Numbers, Recorded

Grown(o2, o, size) == Numbers(o2) /\ Total(o) \in Nat /\ Total(o2) = Total(o) + size

\* Lines 27-37, 59-69, 129-139.
LEMMA RecordedInsert ==
    ASSUME NEW m, NEW h, NEW o, Recorded(m, h, o), NEW a, a \notin DOMAIN m, a # NULL, NEW size \in Nat
    PROVE  Recorded(C!Linked(m, h, a, size), a, C!With(o, a, size)) /\ Grown(C!With(o, a, size), o, size)
  <1> DEFINE u == C!Linked(m, h, a, size)
             v == C!With(o, a, size)
  <1>1. PICK c : \E n : Strung(m, h, c, n)
    BY DEF Recorded, OnList
  <1>2. PICK n : Strung(m, h, c, n)
    BY <1>1
  <1>3. OnList(u, a)
    BY <1>2, StrungInsert DEF Recorded, OnList
  <1>4. LinkedTo(u, m, h, a, size)
    BY LinkEffects DEF Recorded
  <1>5. /\ Numbers(o) /\ DOMAIN o = DOMAIN m /\ \A x \in DOMAIN m : o[x] = m[x].request_size
    BY RecordedNumbers
  <1>6. v = [x \in DOMAIN o \cup {a} |-> IF x = a THEN size ELSE o[x]]
    BY DEF C!With
  <1> HIDE DEF u, v
  <1>7. DOMAIN v = DOMAIN o \cup {a} /\ v[a] = size /\ \A x \in DOMAIN o : v[x] = o[x]
    BY <1>5, <1>6
  <1>8. \A x \in DOMAIN u : u[x].request_size = v[x] /\ u[x].request_size \in Nat
    BY <1>4, <1>5, <1>7 DEF LinkedTo, Recorded
  <1>9. v = Requested(u)
    <2>1. DOMAIN u = DOMAIN v
      BY <1>4, <1>5, <1>7 DEF LinkedTo
    <2>2. v = [x \in DOMAIN v |-> v[x]]
      BY <1>6
    <2> QED BY <1>8, <2>1, <2>2 DEF Requested
  <1>10. Recorded(u, a, v)
    BY <1>3, <1>4, <1>8, <1>9 DEF Recorded, LinkedTo
  <1>11. Grown(v, o, size)
    <2>1. OneMore(v, o, a)
      BY <1>5, <1>7 DEF OneMore
    <2> QED BY <1>5, <1>7, <2>1, TotalInsert DEF Grown
  <1> QED BY <1>10, <1>11 DEF u, v

\* What the loop has found, and what is left without it.
FoundIn(found, p) == found[1] = p /\ p # NULL
Lost(u, hd, o2, p) == /\ Recorded(u, hd, o2) /\ DOMAIN u = DOMAIN mem \ {p}
                      /\ Grown(owned, o2, mem[p].request_size) /\ mem[p].request_size \in Nat

\* Lines 115-121 and 169-177.
LEMMA RecordedRemove ==
    ASSUME Recorded(mem, head, owned), NEW p \in DOMAIN mem
    PROVE  /\ FoundIn(C!Find(p), p)
           /\ Lost(C!Unlinked(C!Find(p)), C!UnlinkedHead(C!Find(p)), C!Without(owned, p), p)
  <1>1. PICK c : \E n : Strung(mem, head, c, n)
    BY DEF Recorded, OnList
  <1>2. PICK n : Strung(mem, head, c, n)
    BY <1>1
  <1>3. p # NULL
    BY <1>2 DEF Strung
  <1>4. PICK j \in 0 .. n - 1 : c[j] = p
    BY <1>2 DEF Strung, Once
  <1>5. C!Find(p) = <<p, Behind(c, j)>>
    BY <1>2, <1>3, <1>4, FindFinds
  <1> DEFINE found == <<p, Behind(c, j)>>
             u == C!Unlinked(found)
             hd == C!UnlinkedHead(found)
             v == C!Without(owned, p)
  <1>6. UnlinkedTo(u, hd, c, j)
    BY <1>2, <1>4, UnlinkEffects DEF Recorded
  <1>7. OnList(u, hd)
    BY <1>2, <1>4, StrungRemove DEF Recorded, OnList
  <1>8. v = [x \in DOMAIN owned \ {p} |-> owned[x]]
    BY DEF C!Without
  <1>9. FoundIn(found, p)
    BY <1>3 DEF FoundIn
  <1> HIDE DEF u, hd, v, found
  <1>10. /\ Numbers(owned) /\ DOMAIN owned = DOMAIN mem /\ \A x \in DOMAIN mem : owned[x] = mem[x].request_size
    BY RecordedNumbers
  <1>11. /\ DOMAIN v = DOMAIN owned \ {p} /\ \A x \in DOMAIN v : v[x] = owned[x]
         /\ v = [x \in DOMAIN v |-> v[x]]
    BY <1>8
  <1>12. /\ Cells(u) /\ DOMAIN u = DOMAIN mem \ {p}
         /\ \A x \in DOMAIN u : u[x].request_size = mem[x].request_size
    BY <1>4, <1>6 DEF UnlinkedTo
  <1>13. v = Requested(u)
    BY <1>10, <1>11, <1>12 DEF Requested
  <1>14. Recorded(u, hd, v)
    BY <1>7, <1>12, <1>13 DEF Recorded
  <1>15. Grown(owned, v, mem[p].request_size)
    <2>1. Numbers(v)
      BY <1>14, RecordedNumbers
    <2>2. p \notin DOMAIN v /\ DOMAIN owned = DOMAIN v \cup {p} /\ owned[p] = mem[p].request_size /\ owned[p] \in Nat
      BY <1>10, <1>11 DEF Numbers
    <2>3. OneMore(owned, v, p)
      BY <1>11, <2>2 DEF OneMore
    <2> QED BY <2>1, <2>2, <2>3, TotalInsert DEF Grown
  <1>16. mem[p].request_size \in Nat
    BY DEF Recorded
  <1> QED BY <1>5, <1>9, <1>12, <1>14, <1>15, <1>16 DEF Lost, u, hd, v, found

\* A pointer that nobody has is not found, and no other.
LEMMA NotFound ==
    ASSUME Recorded(mem, head, owned), NEW p \in Address
    PROVE  p \notin DOMAIN mem <=> C!Find(p)[1] = NULL
  <1>1. PICK c : \E n : Strung(mem, head, c, n)
    BY DEF Recorded, OnList
  <1>2. PICK n : Strung(mem, head, c, n)
    BY <1>1
  <1>3. p # NULL
    BY Requests
  <1>4. p \notin DOMAIN mem => C!Find(p)[1] = NULL
    BY <1>2, <1>3, FindFinds
  <1>5. p \in DOMAIN mem => C!Find(p)[1] = p
    BY RecordedRemove DEF FoundIn
  <1> QED BY <1>3, <1>4, <1>5
-----------------------------------------------------------------------------
(* The invariant.                                                          *)

Balance(o, r, f) == r \in Nat /\ f \in Nat /\ r = f + Total(o)
Ledger == /\ Recorded(mem, head, owned)
          /\ Balance(owned, total_memory_requested, total_memory_freed)
          /\ invalid_addresses = misused
LedgerInv == ~crashed => Ledger

\* The invariant implies the property.
LEMMA LedgerRight ==
    ASSUME LedgerInv
    PROVE  LedgerExact
  <1> SUFFICES ASSUME ~crashed PROVE LedgerExact
    BY DEF LedgerExact, C!LedgerExact
  <1>0. \A X : C!Cardinality(X) = Cardinality(X)
    BY DEF C!Cardinality, C!IsFiniteSet, Cardinality, IsFiniteSet
  <1>1. /\ Recorded(mem, head, owned) /\ invalid_addresses = misused
        /\ total_memory_requested = total_memory_freed + Total(owned)
    BY DEF LedgerInv, Ledger, Balance
  <1>2. PICK c : \E n : Strung(mem, head, c, n)
    BY <1>1 DEF Recorded, OnList
  <1>3. PICK n : Strung(mem, head, c, n)
    BY <1>2
  <1>4. C!Cardinality(DOMAIN mem) = n /\ n \in Nat
    BY <1>0, <1>3, StrungFinite, OnTheList
  <1> DEFINE f == CHOOSE g : Follows(g, n)
  <1>5. f = [i \in 0 .. n |-> f[i]] /\ \A i \in 0 .. n : f[i] = c[i]
    BY <1>3, ChainIs
  <1> HIDE DEF f
  <1>6. {f[i] : i \in DOMAIN f} = DOMAIN mem \cup {NULL}
    <2>1. DOMAIN f = 0 .. n
      BY <1>5
    <2>2. \A i \in 0 .. n : f[i] \in Places(mem)
      BY <1>3, <1>5, OnTheList
    <2>3. \A x \in Places(mem) : \E i \in 0 .. n : f[i] = x
      BY <1>3, <1>5, OnTheList
    <2> QED BY <2>1, <2>2, <2>3 DEF Places
  <1>7. f[n] = NULL
    BY <1>3, <1>4, <1>5, OnTheList
  <1>8. owned = [a \in DOMAIN mem |-> mem[a].request_size]
    BY <1>1 DEF Recorded, Requested
  <1> DEFINE size(a) == owned[a]
  <1>9. C!MapThenSumSet(size, DOMAIN owned) = Total(owned)
    BY DEF C!MapThenSumSet, C!MapThenFoldSet, Total, Sums
  <1> DEFINE chain == CHOOSE g : Follows(g, C!Cardinality(DOMAIN mem))
  <1>10. /\ {chain[i] : i \in DOMAIN chain} = DOMAIN mem \cup {NULL}
         /\ chain[C!Cardinality(DOMAIN mem)] = NULL
    <2>1. chain = f
      BY <1>4 DEF f
    <2> HIDE DEF chain
    <2> QED BY <1>4, <1>6, <1>7, <2>1
  <1>11. total_memory_requested = total_memory_freed + C!MapThenSumSet(size, DOMAIN owned)
    BY <1>1, <1>9
  <1> QED BY ONLY <1>1, <1>8, <1>10, <1>11 DEF LedgerExact, C!LedgerExact, chain, Follows, size

LEMMA LedgerInit == C!Init => LedgerInv
  <1> SUFFICES ASSUME C!Init PROVE LedgerInv
    OBVIOUS
  <1>1. /\ head = NULL /\ total_memory_requested = 0 /\ total_memory_freed = 0 /\ invalid_addresses = 0
        /\ mem = << >> /\ owned = << >> /\ misused = 0 /\ crashed = FALSE
    BY DEF C!Init
  <1>2. DOMAIN mem = {} /\ DOMAIN owned = {}
    BY <1>1
  <1>3. Cells(mem) /\ owned = Requested(mem)
    BY <1>1, <1>2 DEF Cells, Requested
  <1> DEFINE c == [i \in 0 .. 0 |-> NULL]
  <1>4. c[0] = NULL /\ \A i \in 0 .. 0 - 1 : FALSE
    OBVIOUS
  <1> HIDE DEF c
  <1>5. Strung(mem, head, c, 0)
    BY <1>1, <1>2, <1>4 DEF Strung, Runs, Once
  <1>6. Recorded(mem, head, owned)
    BY <1>2, <1>3, <1>5 DEF Recorded, OnList
  <1>7. Total(owned) = 0
    BY <1>2, TotalEmpty
  <1>8. Ledger
    BY <1>1, <1>6, <1>7 DEF Ledger, Balance
  <1> QED BY <1>8 DEF LedgerInv

LEMMA LedgerSame ==
    ASSUME Ledger, UNCHANGED <<mem, head, owned, total_memory_requested, total_memory_freed>>,
           invalid_addresses' = misused'
    PROVE  LedgerInv'
  <1>1. Recorded(mem, head, owned)' /\ Balance(owned, total_memory_requested, total_memory_freed)'
    BY DEF Ledger, Recorded, OnList, Balance
  <1>2. Ledger'
    BY <1>1 DEF Ledger
  <1> QED BY <1>2 DEF LedgerInv

LEMMA MallocKeeps ==
    ASSUME Ledger, ~crashed, NEW size \in Nat, C!mini_malloc(size)
    PROVE  LedgerInv'
  <1>1. UNCHANGED <<total_memory_freed, invalid_addresses, misused, crashed>>
    BY DEF C!mini_malloc
  <1>2. CASE UNCHANGED <<mem, head, owned, total_memory_requested>>
    BY <1>1, <1>2, LedgerSame DEF Ledger
  <1>3. CASE ~UNCHANGED <<mem, head, owned, total_memory_requested>>
    <2>1. PICK a \in Address \ DOMAIN mem :
            /\ mem' = C!Linked(mem, head, a, size) /\ head' = a /\ owned' = C!With(owned, a, size)
            /\ total_memory_requested' = total_memory_requested + size
      BY <1>3 DEF C!mini_malloc
    <2>2. a # NULL
      BY Requests
    <2>3. Recorded(mem', a, owned') /\ Grown(owned', owned, size)
      BY <2>1, <2>2, RecordedInsert DEF Ledger
    <2>4. Recorded(mem, head, owned)'
      BY <2>1, <2>3 DEF Recorded, OnList
    <2>5. Balance(owned, total_memory_requested, total_memory_freed)'
      BY <1>1, <2>1, <2>3 DEF Ledger, Balance, Grown
    <2>6. Ledger'
      BY <1>1, <2>4, <2>5 DEF Ledger
    <2> QED BY <2>6 DEF LedgerInv
  <1> QED BY <1>2, <1>3

LEMMA InvalidKeeps ==
    ASSUME Ledger, ~crashed, NEW p \in Address, C!Find(p)[1] = NULL, C!Invalid(p)
    PROVE  LedgerInv'
  <1>1. p \notin DOMAIN owned
    BY NotFound, RecordedNumbers DEF Ledger
  <1>2. /\ UNCHANGED <<head, total_memory_requested, total_memory_freed, mem, owned, crashed>>
        /\ invalid_addresses' = invalid_addresses + 1 /\ misused' = misused + 1
    BY <1>1 DEF C!Invalid
  <1>3. invalid_addresses' = misused'
    BY <1>2 DEF Ledger
  <1> QED BY <1>2, <1>3, LedgerSame

LEMMA FreeKeeps ==
    ASSUME Ledger, ~crashed, NEW p \in Address, C!mini_free(p)
    PROVE  LedgerInv'
  <1>1. CASE C!Find(p)[1] = NULL
    BY <1>1, InvalidKeeps DEF C!mini_free
  <1>2. CASE C!Find(p)[1] # NULL
    <2>1. /\ head' = C!UnlinkedHead(C!Find(p)) /\ mem' = C!Unlinked(C!Find(p)) /\ owned' = C!Without(owned, p)
          /\ total_memory_freed' = total_memory_freed + mem[p].request_size
          /\ UNCHANGED <<total_memory_requested, invalid_addresses, misused, crashed>>
      BY <1>2 DEF C!mini_free
    <2>2. p \in DOMAIN mem
      BY <1>2, NotFound DEF Ledger
    <2>3. Lost(mem', head', owned', p)
      BY <2>1, <2>2, RecordedRemove DEF Ledger
    <2>4. Recorded(mem, head, owned)'
      BY <2>3 DEF Lost, Recorded, OnList
    <2>5. Balance(owned, total_memory_requested, total_memory_freed)'
      BY <2>1, <2>3 DEF Lost, Grown, Ledger, Balance
    <2>6. Ledger'
      BY <2>1, <2>4, <2>5 DEF Ledger
    <2> QED BY <2>6 DEF LedgerInv
  <1> QED BY <1>1, <1>2

\* Growing and shrinking are booked as what they add or give back.
LEMMA Booked ==
    ASSUME NEW r \in Nat, NEW f \in Nat, NEW t \in Nat, NEW old \in Nat, NEW new \in Nat, r = f + (t + old)
    PROVE  /\ r + (IF old < new THEN new - old ELSE 0) \in Nat
           /\ f + (IF old > new THEN old - new ELSE 0) \in Nat
           /\ r + (IF old < new THEN new - old ELSE 0) = (f + (IF old > new THEN old - new ELSE 0)) + (t + new)
  OBVIOUS

LEMMA ResizeKeeps ==
    ASSUME Ledger, ~crashed, NEW p \in DOMAIN mem, NEW size \in Nat, C!Resize(C!Find(p), size)
    PROVE  LedgerInv'
  <1> DEFINE found == C!Find(p)
             old == mem[p].request_size
             u == C!Unlinked(found)
             hd == C!UnlinkedHead(found)
             v == C!Without(owned, p)
  <1>1. found[1] = p /\ Lost(u, hd, v, p)
    BY RecordedRemove DEF Ledger, FoundIn
  <1> HIDE DEF found
  <1>2. /\ total_memory_requested' = total_memory_requested + (IF old < size THEN size - old ELSE 0)
        /\ total_memory_freed' = total_memory_freed + (IF old > size THEN old - size ELSE 0)
        /\ UNCHANGED <<invalid_addresses, misused>>
    BY <1>1 DEF C!Resize, found
  <1>3. CASE crashed'
    BY <1>3 DEF LedgerInv, C!Resize
  <1>4. CASE ~crashed'
    <2>1. PICK a \in Address \ DOMAIN u :
            /\ mem' = C!Linked(u, hd, a, size) /\ head' = a /\ owned' = C!With(v, a, size) /\ crashed' = crashed
      BY <1>1, <1>4 DEF C!Resize, found
    <2>2. a # NULL
      BY Requests
    <2> HIDE DEF u, hd, v
    <2>3. Recorded(mem', a, owned') /\ Grown(owned', v, size)
      BY <1>1, <2>1, <2>2, RecordedInsert DEF Lost
    <2>4. Recorded(mem, head, owned)'
      BY <2>1, <2>3 DEF Recorded, OnList
    <2>5. /\ total_memory_requested \in Nat /\ total_memory_freed \in Nat /\ Total(v) \in Nat /\ old \in Nat
          /\ total_memory_requested = total_memory_freed + (Total(v) + old)
          /\ Total(owned') = Total(v) + size
      BY <1>1, <2>3 DEF Lost, Grown, Ledger, Balance
    <2> HIDE DEF old
    <2>6. Balance(owned', total_memory_requested', total_memory_freed')
      BY <1>2, <2>5, Booked DEF Balance
    <2>7. Balance(owned, total_memory_requested, total_memory_freed)'
      BY <2>6
    <2>8. Ledger'
      BY <1>2, <2>4, <2>7 DEF Ledger
    <2> QED BY <2>8 DEF LedgerInv
  <1> QED BY <1>3, <1>4

LEMMA ReallocKeeps ==
    ASSUME Ledger, ~crashed, NEW p \in Address, NEW size \in Nat, C!mini_realloc(p, size)
    PROVE  LedgerInv'
  <1>1. CASE C!Find(p)[1] = NULL
    BY <1>1, InvalidKeeps DEF C!mini_realloc
  <1>2. CASE C!Find(p)[1] # NULL
    <2>1. p \in DOMAIN mem
      BY <1>2, NotFound DEF Ledger
    <2>2. CASE UNCHANGED C!vars
      BY <2>2, LedgerSame DEF C!vars, Ledger
    <2>3. CASE C!Resize(C!Find(p), size)
      BY <2>1, <2>3, ResizeKeeps
    <2> QED BY <1>2, <2>2, <2>3 DEF C!mini_realloc
  <1> QED BY <1>1, <1>2

LEMMA LedgerNext == LedgerInv /\ [C!Next]_(C!vars) => LedgerInv'
  <1> SUFFICES ASSUME LedgerInv, [C!Next]_(C!vars) PROVE LedgerInv'
    OBVIOUS
  <1>1. CASE UNCHANGED C!vars
    <2>1. crashed' = crashed /\ UNCHANGED <<mem, head, owned, total_memory_requested, total_memory_freed,
                                            invalid_addresses, misused>>
      BY <1>1 DEF C!vars
    <2>2. CASE crashed
      BY <2>1, <2>2 DEF LedgerInv
    <2>3. CASE ~crashed
      BY <2>1, <2>3, LedgerSame DEF LedgerInv, Ledger
    <2> QED BY <2>2, <2>3
  <1>2. CASE C!Next
    <2>1. ~crashed /\ Ledger
      BY <1>2 DEF C!Next, LedgerInv
    <2>2. ASSUME NEW num \in BlockSizes, NEW size \in BlockSizes, C!mini_calloc(num, size) PROVE LedgerInv'
      <3>1. num * size \in Nat
        BY Requests
      <3> QED BY <2>1, <2>2, <3>1, MallocKeeps DEF C!mini_calloc
    <2>3. ASSUME NEW size \in BlockSizes, C!mini_malloc(size) PROVE LedgerInv'
      BY <2>1, <2>3, Requests, MallocKeeps
    <2>4. ASSUME NEW p \in Address, C!mini_free(p) PROVE LedgerInv'
      BY <2>1, <2>4, FreeKeeps
    <2>5. ASSUME NEW p \in Address, NEW size \in BlockSizes, C!mini_realloc(p, size) PROVE LedgerInv'
      BY <2>1, <2>5, Requests, ReallocKeeps
    <2> QED BY <1>2, <2>2, <2>3, <2>4, <2>5 DEF C!Next
  <1> QED BY <1>1, <1>2

\* mini_memcheck.c, for any addresses, sizes and sequence of calls, on valid, stale
\* and wild pointers: until a failed malloc in mini_realloc is written through, the
\* list from head has every live block once and with the size last asked for, the
\* two totals differ by what is live, and exactly the calls with a pointer that no
\* client has are counted invalid.
THEOREM LeaksReported == C!Spec => []LedgerExact
  <1>1. LedgerInv => LedgerExact
    BY LedgerRight
  <1> QED BY <1>1, LedgerInit, LedgerNext, PTL DEF C!Spec
=============================================================================
