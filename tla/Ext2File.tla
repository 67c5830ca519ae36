------------------------------ MODULE Ext2File ------------------------------
(***************************************************************************)
(* ext2_readfile() of fs/ext2.c: which block of the disk goes to which     *)
(* place in memory, through the direct blocks, the index block and the     *)
(* double index block.  A block is named by the path of indices to it.     *)
(* n_block is tested at the end of the loop only, and nothing is read for  *)
(* the triple index block: an empty file, and one that reaches the triple  *)
(* index, are read as the code reads them.                                 *)
(***************************************************************************)
EXTENDS Integers

CONSTANTS
    DirectBlocks,           \* EXT2_NDIR_BLOCKS: 12
    PerBlock,               \* blk_size / sizeof(u32)
    WordSize,               \* n_block is a u32: 2^32
    MaxFileBlocks           \* bound on the length of files

ASSUME FileAssumption ==
    /\ DirectBlocks \in Nat \ {0} /\ PerBlock \in Nat \ {0}
    /\ WordSize \in Nat /\ WordSize > DirectBlocks + PerBlock + 2 * (PerBlock * PerBlock)
    /\ MaxFileBlocks \in Nat /\ MaxFileBlocks < WordSize

VARIABLES
    fileBlocks, blocksLeft, \* the length of the file; the local n_block
    fileSlot,               \* the i of ext2_readfile()
    fileAddr,               \* how many blocks addr has moved
    indIdx, indLeft,        \* the idx and count of ext2_readfile_dind()
    fileMem,                \* the blocks in memory
    fileFate                \* "reading", "done", or "assert" at ext2.c:512

fileVars == <<fileBlocks, blocksLeft, fileSlot, fileAddr, indIdx, indLeft, fileMem, fileFate>>

\* EXT2_IND_BLOCK and the slots that follow it, EXT2_N_BLOCKS the last.
IndSlot    == DirectBlocks
DindSlot   == DirectBlocks + 1
TindSlot    == DirectBlocks + 2
SlotsEnd   == DirectBlocks + 3

AtMost(n, bound) == IF n > bound THEN bound ELSE n

\* ext2_load_block() for some blocks, read to the places from base.
Loaded(mem, base, blocks) ==
    [a \in DOMAIN mem \union {base + k : k \in DOMAIN blocks} |->
        IF a - base \in DOMAIN blocks THEN blocks[a - base] ELSE mem[a]]

\* A u32 that went below zero.
Wrapped(n) == IF n < 0 THEN n + WordSize ELSE n

\* The end of the body: the loop is left when no block is left, and the
\* assertion behind it fails when it has run out of slots.
Advance(n) ==
    /\ fileAddr' = fileAddr + n
    /\ blocksLeft' = Wrapped(blocksLeft - n)
    /\ fileSlot' = IF blocksLeft' = 0 THEN fileSlot ELSE fileSlot + 1
    /\ fileFate' = IF blocksLeft' = 0 THEN "done"
                   ELSE IF fileSlot + 1 = SlotsEnd THEN "assert" ELSE "reading"

ReadDirect ==
    /\ fileFate = "reading" /\ fileSlot < IndSlot
    /\ fileMem' = Loaded(fileMem, fileAddr, [k \in {0} |-> <<fileSlot>>])
    /\ Advance(1)
    /\ UNCHANGED <<fileBlocks, indIdx, indLeft>>

\* ext2_readfile_ind() for the index block.
ReadIndirect ==
    /\ fileFate = "reading" /\ fileSlot = IndSlot
    /\ LET n == AtMost(blocksLeft, PerBlock)
       IN  /\ fileMem' = Loaded(fileMem, fileAddr, [k \in 0 .. n - 1 |-> <<fileSlot, k>>])
           /\ Advance(n)
    /\ indIdx' = 0
    /\ indLeft' = AtMost(blocksLeft', PerBlock * PerBlock)
    /\ UNCHANGED fileBlocks

\* Mutant: mem moves by one block for each index block.
DindAddrShort == fileAddr + indIdx

\* mem moves by a whole index block in every turn.
DindAddr == fileAddr + indIdx * PerBlock

\* ext2_readfile_dind(): one turn of the loop over its index blocks, ...
ReadDouble ==
    /\ fileFate = "reading" /\ fileSlot = DindSlot /\ indLeft # 0
    /\ LET n == AtMost(indLeft, PerBlock)
       IN  /\ fileMem' = Loaded(fileMem, DindAddr,
                              [k \in 0 .. n - 1 |-> <<fileSlot, indIdx, k>>])
           /\ indLeft' = indLeft - n
    /\ indIdx' = indIdx + 1
    /\ UNCHANGED <<fileBlocks, blocksLeft, fileSlot, fileAddr, fileFate>>

\* ... and its return.
ReadDoubleEnd ==
    /\ fileFate = "reading" /\ fileSlot = DindSlot /\ indLeft = 0
    /\ Advance(AtMost(blocksLeft, PerBlock * PerBlock))
    /\ UNCHANGED <<fileBlocks, indIdx, indLeft, fileMem>>

\* Nothing is read for the triple index, but tmp still holds what the double
\* index block gave, which was full, and n_block and addr move by that.
ReadTriple ==
    /\ fileFate = "reading" /\ fileSlot = TindSlot
    /\ Advance(PerBlock * PerBlock)
    /\ UNCHANGED <<fileBlocks, indIdx, indLeft, fileMem>>

FileInit ==
    /\ fileBlocks \in 0 .. MaxFileBlocks
    /\ blocksLeft = fileBlocks
    /\ fileSlot = 0 /\ fileAddr = 0
    /\ indIdx = 0 /\ indLeft = 0
    /\ fileMem = [a \in {} |-> <<0>>]
    /\ fileFate = "reading"

FileNext == ReadDirect \/ ReadIndirect \/ ReadDouble \/ ReadDoubleEnd \/ ReadTriple

FileSpec == FileInit /\ [][FileNext]_fileVars
-----------------------------------------------------------------------------
\* Where block n of a file lies on the disk.
BlockPath(n) ==
    IF n < DirectBlocks THEN <<n>>
    ELSE IF n < DirectBlocks + PerBlock THEN <<DirectBlocks, n - DirectBlocks>>
    ELSE LET m == n - DirectBlocks - PerBlock
         IN  <<DirectBlocks + 1, m \div PerBlock, m % PerBlock>>

\* What the direct, the index and the double index blocks reach.
Reachable == DirectBlocks + PerBlock + PerBlock * PerBlock

\* What memory holds when ext2_readfile() returns: the blocks of the file,
\* each at its place, wherever in the indices the file ends - but for a file
\* of one length, which loses its last blocks.  Nothing is ever written behind
\* a file that has a block.  The assertion behind the loop fails for the empty
\* file, when all slots have been read over memory, and for a file that
\* reaches the triple index, and for no other.
FileWhole ==
    /\ fileFate = "done" /\ fileBlocks # Reachable + PerBlock * PerBlock =>
          fileMem = [n \in 0 .. fileBlocks - 1 |-> BlockPath(n)]
    /\ fileBlocks # 0 => DOMAIN fileMem \subseteq 0 .. fileBlocks - 1
    /\ fileFate = "assert" => fileBlocks = 0 \/ fileBlocks > Reachable
=============================================================================
