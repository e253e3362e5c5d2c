------------------------------- MODULE Minixfs -------------------------------
(***************************************************************************)
(* finding_filesystems/minixfs.c: files created and written in one         *)
(* directory, and what reading them returns.  A file's blocks are numbered *)
(* by NUM_DIRECT_BLOCKS entries of its inode and then by the entries of    *)
(* one indirect block.  minixfs_utils.c is not in the repository: block    *)
(* allocation is modelled from its use.                                    *)
(*                                                                         *)
(* A byte is <<w, k>>: the k-th byte of the w-th write.  Times, modes and  *)
(* owners are left out.  There are inodes for all Names.                   *)
(***************************************************************************)
EXTENDS Integers, Sequences, FiniteSets, FiniteSetsExt, Functions

CONSTANTS Names,                             \* the files of the directory
          BlockSize, NUM_DIRECT_BLOCKS, NUM_INDIRECT_BLOCKS,
          EntriesPerBlock,                   \* directory entries in a data block
          DataBlocks,                        \* 1 .. n, the blocks of the disk
          Offsets, Counts,                   \* bounds: where and how much is written,
          MaxWrites                          \* and how often

UNASSIGNED == 0        \* the code's -1: no block

ASSUME SizesOK == /\ {BlockSize, NUM_DIRECT_BLOCKS, NUM_INDIRECT_BLOCKS, EntriesPerBlock}
                       \subseteq Nat \ {0}
                  /\ DataBlocks \subseteq Nat \ {UNASSIGNED}
                  /\ Offsets \subseteq Nat /\ Counts \subseteq Nat \ {0}

VARIABLES inode,       \* name -> inode, for the names in the directory
          parent,      \* the directory's inode
          data,        \* block -> its bytes, block numbers or directory entries
          writes,      \* successful writes so far
          written,     \* name -> offset -> the last byte written there
          appended,    \* the names only ever written at their end
          stray        \* something was written outside the blocks of the disk;
                       \* nothing is known after that

vars == <<inode, parent, data, writes, written, appended, stray>>

NoBlocks == [direct |-> [i \in 0 .. NUM_DIRECT_BLOCKS - 1 |-> UNASSIGNED],
             indirect |-> UNASSIGNED, size |-> 0]

Init == /\ inode = <<>> /\ parent = NoBlocks /\ data = <<>>
        /\ writes = 0 /\ written = <<>> /\ appended = Names /\ stray = FALSE

With(f, x, v) == [y \in DOMAIN f \cup {x} |-> IF y = x THEN v ELSE f[y]]

-----------------------------------------------------------------------------
(* minixfs_utils.c.  A file system is [node, data]: the inode worked on    *)
(* and the blocks in use.                                                  *)

Full(d) == DOMAIN d = DataBlocks
Unused(d) == Min(DataBlocks \ DOMAIN d)

EmptyBlock == [i \in 0 .. BlockSize - 1 |-> <<0, 0>>]
EmptyIndirect == [i \in 0 .. NUM_INDIRECT_BLOCKS - 1 |-> UNASSIGNED]

\* The number of the i-th block of a file: lines 180, 227, 241.
BlockOf(node, d, i) == IF i < NUM_DIRECT_BLOCKS THEN node.direct[i]
                       ELSE d[node.indirect][i - NUM_DIRECT_BLOCKS]

Has(node, d, i) == IF i < NUM_DIRECT_BLOCKS THEN node.direct[i] # UNASSIGNED
                   ELSE /\ node.indirect # UNASSIGNED
                        /\ d[node.indirect][i - NUM_DIRECT_BLOCKS] # UNASSIGNED

\* add_data_block_to_inode(), add_single_indirect_block() and
\* add_data_block_to_indirect_block(): the i-th block, if there is room.
AddDirect(fs, i, block) ==
  IF Full(fs.data) THEN fs
  ELSE [node |-> [fs.node EXCEPT !.direct[i] = Unused(fs.data)],
        data |-> With(fs.data, Unused(fs.data), block)]

AddIndirect(fs) ==
  IF Full(fs.data) \/ fs.node.indirect # UNASSIGNED THEN fs
  ELSE [node |-> [fs.node EXCEPT !.indirect = Unused(fs.data)],
        data |-> With(fs.data, Unused(fs.data), EmptyIndirect)]

AddToIndirect(fs, i, block) ==
  IF Full(fs.data) \/ fs.node.indirect = UNASSIGNED THEN fs
  ELSE [fs EXCEPT !.data = With([fs.data EXCEPT ![fs.node.indirect][i - NUM_DIRECT_BLOCKS]
                                                  = Unused(fs.data)],
                                Unused(fs.data), block)]

AddBlock(fs, i, block) ==
  IF Has(fs.node, fs.data, i) THEN fs
  ELSE IF i < NUM_DIRECT_BLOCKS THEN AddDirect(fs, i, block)
  ELSE AddToIndirect(AddIndirect(fs), i, block)

\* minixfs_min_blockcount(): as many of the blocks as there is room for.
MinBlockcount(fs, total) ==
  LET grown[i \in 0 .. total] == IF i = 0 THEN fs ELSE AddBlock(grown[i - 1], i - 1, EmptyBlock)
  IN  grown[total]

-----------------------------------------------------------------------------
(* minixfs_create_inode_for_path(), lines 88-127: the directory gets a new *)
(* entry, in a new block when the last one is full.                        *)

MaxEntries == EntriesPerBlock * (NUM_DIRECT_BLOCKS + NUM_INDIRECT_BLOCKS)

\* Lines 94-110: only for an indirect block is the want of space an error.
\* MUTANT: for none.
CreateFailsNever(i, got) == FALSE
CreateFails(i, got) == ~got /\ i >= NUM_DIRECT_BLOCKS

Created(name) ==
  LET i == parent.size \div EntriesPerBlock
      dir == [node |-> parent, data |-> data]
      fs == IF parent.size % EntriesPerBlock = 0 THEN AddBlock(dir, i, <<>>) ELSE dir
      got == Has(fs.node, fs.data, i)
  IN  [ok |-> ~CreateFails(i, got),
       parent |-> IF CreateFails(i, got) THEN fs.node ELSE [fs.node EXCEPT !.size = @ + 1],
       data |-> IF got THEN [fs.data EXCEPT ![BlockOf(fs.node, fs.data, i)] = Append(@, name)]
                ELSE fs.data,
       stray |-> ~got /\ i < NUM_DIRECT_BLOCKS]   \* line 120: block -1

-----------------------------------------------------------------------------
(* The loops of memcpy() calls that minixfs_write and minixfs_read share:  *)
(* block i gets or gives n bytes, from its byte "at" and the buffer's byte *)
(* "from" on.  The three cases of the code (all blocks direct, all         *)
(* indirect, and from direct to indirect) differ in where a block's number *)
(* is looked up, see BlockOf.                                              *)

Blocks(n) == n \div BlockSize + (IF n % BlockSize = 0 THEN 0 ELSE 1)

\* MUTANT: the first chunk takes a whole block, wherever it starts.
FirstChunkWhole(off, count) == [at |-> off % BlockSize, from |-> 0, n |-> Min({count, BlockSize})]
FirstChunk(off, count) ==
  [at |-> off % BlockSize, from |-> 0, n |-> Min({count, BlockSize - (off % BlockSize)})]

Chunks(off, count) ==
  LET blockstart == off \div BlockSize
      chunk[i \in blockstart .. Blocks(off + count) - 1] ==
        IF i = blockstart THEN FirstChunk(off, count)
        ELSE LET from == chunk[i - 1].from + chunk[i - 1].n
             IN  [at |-> 0, from |-> from, n |-> Min({count - from, BlockSize})]
  IN  chunk

\* The blocks after the w-th write.
Copied(node, d, off, count, w) ==
  LET chunks == Chunks(off, count)
  IN  [blk \in DOMAIN d |->
         IF \E i \in DOMAIN chunks : BlockOf(node, d, i) = blk
         THEN LET c == chunks[CHOOSE i \in DOMAIN chunks : BlockOf(node, d, i) = blk]
              IN  [x \in 0 .. BlockSize - 1 |->
                     IF x \in c.at .. c.at + c.n - 1 THEN <<w, c.from + x - c.at>> ELSE d[blk][x]]
         ELSE d[blk]]

minixfs_write(name, off, count) ==
  /\ writes < MaxWrites
  /\ LET isnew == name \notin DOMAIN inode
         made == Created(name)
         d == IF isnew THEN made.data ELSE data
         total == Blocks(off + count)
         old == IF isnew THEN NoBlocks ELSE inode[name]
         fits == total <= NUM_DIRECT_BLOCKS + NUM_INDIRECT_BLOCKS
         fs == IF fits THEN MinBlockcount([node |-> old, data |-> d], total)
               ELSE [node |-> old, data |-> d]
         enough == fits /\ Has(fs.node, fs.data, total - 1)
     IN  /\ isnew => parent.size < MaxEntries /\ ~made.stray
         /\ parent' = IF isnew THEN made.parent ELSE parent
         /\ UNCHANGED stray
         /\ \/ \* No inode: minixfs_min_blockcount() fails.
               /\ isnew /\ ~made.ok
               /\ data' = d
               /\ UNCHANGED <<inode, writes, written, appended>>
            \/ \* Lines 174-178: ENOSPC.
               /\ isnew => made.ok
               /\ ~enough
               /\ data' = fs.data /\ inode' = With(inode, name, fs.node)
               /\ written' = IF isnew THEN With(written, name, <<>>) ELSE written
               /\ UNCHANGED <<writes, appended>>
            \/ \* Lines 179-272.
               /\ isnew => made.ok
               /\ enough
               /\ data' = Copied(fs.node, fs.data, off, count, writes + 1)
               /\ inode' = With(inode, name, [fs.node EXCEPT !.size = @ + count])
               /\ writes' = writes + 1
               /\ written' = LET past == IF isnew THEN <<>> ELSE written[name]
                                 range == off .. off + count - 1
                             IN  With(written, name,
                                      [b \in DOMAIN past \cup range |->
                                         IF b \in range THEN <<writes + 1, b - off>>
                                         ELSE past[b]])
               /\ appended' = IF off = old.size THEN appended ELSE appended \ {name}

\* A write to a new file that has the directory's entry written to block -1,
\* which is the memory just before data_root, where the inodes are.  What is
\* there afterwards, and what this call and later ones make of it, is not
\* followed.
WriteAstray(name) ==
  /\ writes < MaxWrites
  /\ name \notin DOMAIN inode /\ parent.size < MaxEntries /\ Created(name).stray
  /\ stray' = TRUE
  /\ UNCHANGED <<inode, parent, data, writes, written, appended>>

\* minixfs_read(): the bytes it returns.
minixfs_read(name, off, count) ==
  LET node == inode[name]
      n == IF off + count > node.size THEN node.size - off ELSE count
      chunks == Chunks(off, n)
      Give(i, k) == data[BlockOf(node, data, i)][chunks[i].at + k - chunks[i].from]
  IN  IF node.size <= off THEN <<>>
      ELSE [k \in 1 .. n |->
              Give(CHOOSE i \in DOMAIN chunks :
                     k - 1 \in chunks[i].from .. chunks[i].from + chunks[i].n - 1, k - 1)]

Next == /\ ~stray
        /\ \E name \in Names, count \in Counts :
             \/ \E off \in Offsets : minixfs_write(name, off, count)
             \/ name \in DOMAIN inode /\ minixfs_write(name, inode[name].size, count)
             \/ WriteAstray(name)

Spec == Init /\ [][Next]_vars

-----------------------------------------------------------------------------
\* Until an entry of the directory is written to block -1: a file that was only
\* ever appended to reads back as it was written, from any offset and across the
\* boundary between direct and indirect blocks; and of any other file, each byte
\* on the disk is the last one written there.  (After an overwrite line 269 has
\* added the bytes to the size again.)
ReadsBack ==
  \/ stray
  \/ \A name \in DOMAIN inode :
       LET node == inode[name]
           last == DOMAIN written[name]
       IN  /\ \A b \in last : data[BlockOf(node, data, b \div BlockSize)][b % BlockSize]
                                = written[name][b]
           /\ name \in appended =>
                \A off \in 0 .. node.size + 1, count \in Counts :
                  minixfs_read(name, off, count) =
                    [k \in 1 .. Cardinality(last \cap (off .. off + count - 1)) |->
                       written[name][off + k - 1]]

\* The directory has one entry for every file, in the blocks its size covers,
\* also when a creation or a write ran out of space halfway, until line 94 has
\* ignored that there is no block for an entry.
EntryBlocks == {i \in 0 .. NUM_DIRECT_BLOCKS + NUM_INDIRECT_BLOCKS - 1 :
                  i * EntriesPerBlock < parent.size /\ Has(parent, data, i)}
DirectoryListsFiles ==
  \/ stray
  \/ /\ parent.size = Cardinality(DOMAIN inode)
     /\ DOMAIN inode = UNION {Range(data[BlockOf(parent, data, i)]) : i \in EntryBlocks}
=============================================================================
