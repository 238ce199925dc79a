----------------------------- MODULE FileSystem -----------------------------
(* The file system of MP7: file_system.C and file.C. Block 0 of the disk    *)
(* holds the inodes and block 1 the free list; both are cached in memory    *)
(* and written back as a whole. A file has an index block and up to         *)
(* MaxBlocks data blocks. A handle caches the index block and one data      *)
(* block. The kernel calls one operation after the other; Read and Write    *)
(* are loops over bytes, one step each. Callers open files that exist, have *)
(* one handle per file and close it before they delete the file.            *)
EXTENDS Integers, FiniteSets, Sequences

CONSTANTS
  Ids,        \* file ids
  NInodes,    \* MAX_INODES
  NBlocks,    \* entries of the free list
  PerBlock,   \* bytes in a data block
  MaxBlocks,  \* data blocks in a file (FILE_SIZE / BLOCK_SIZE)
  Values,     \* what callers write
  Blank,      \* a byte its file was never given, whatever the block held before
  MaxCount    \* bound on the length of a Read or Write

ASSUME SizeAssumption ==
  /\ NInodes \in Nat /\ NBlocks \in Nat /\ NBlocks >= 2
  /\ PerBlock \in Nat \ {0} /\ MaxBlocks \in Nat \ {0} /\ MaxCount \in Nat

ASSUME BlankAssumption == Blank \notin Values

Blocks == 0..(NBlocks - 1)
Reserved == {0, 1}       \* INODES_BLOCK_NO and FREELIST_BLOCK_NO
Junk == -1               \* an index entry that was never set
FileSize == PerBlock * MaxBlocks
Slots == 1..NInodes

VARIABLES
  inodes,       \* the inode list in memory
  free_blocks,  \* the blocks marked 'F' in memory
  disk_inodes,  \* block 0
  disk_free,    \* block 1
  disk,         \* the other blocks: index blocks and data blocks
  handle,       \* the File object of every file, Closed if there is none
  call,         \* the Read or Write under way
  written,      \* what callers have written to every file
  dropped,      \* files whose handle has dropped a modified block in Read
  wild          \* a block was written at an index entry that was never set

vars == <<inodes, free_blocks, disk_inodes, disk_free, disk, handle, call,
          written, dropped, wild>>

Closed == [inode |-> 0]
NoCall == [op |-> "none"]
Nothing == [k \in 0..(PerBlock - 1) |-> Blank]

IsOpen(f) == handle[f] # Closed
Exists(f) == \E i \in Slots : inodes[i].id = f /\ ~inodes[i].is_free
LookupFile(f) == CHOOSE i \in Slots : inodes[i].id = f /\ ~inodes[i].is_free

\* main() has formatted and mounted the disk.
NoInode == [id |-> Junk, is_free |-> TRUE, size |-> 0, num_block |-> 0, index |-> Junk]

Init ==
  /\ inodes = [i \in Slots |-> NoInode]
  /\ free_blocks = Blocks \ Reserved
  /\ disk_inodes = inodes
  /\ disk_free = free_blocks
  /\ disk = [b \in Blocks |-> Nothing]
  /\ handle = [f \in Ids |-> Closed]
  /\ call = NoCall
  /\ written = [f \in Ids |-> <<>>]
  /\ dropped = {}
  /\ wild = FALSE

----------------------------------------------------------------------------
(* FileSystem.                                                              *)

Idle == call = NoCall /\ ~wild

\* GetFreeInode, and GetFreeBlock called twice, find the first free ones.
IsFirst(x, S) == x \in S /\ \A y \in S : x <= y
FreeInodes == {i \in Slots : inodes[i].is_free}

CreateFile(f) ==
  /\ Idle /\ ~Exists(f)
  /\ \E i \in Slots, b, d \in Blocks :
       /\ IsFirst(i, FreeInodes)
       /\ IsFirst(b, free_blocks) /\ IsFirst(d, free_blocks \ {b})
       /\ inodes' = [inodes EXCEPT ![i] = [id |-> f, is_free |-> FALSE, size |-> 0,
                                           num_block |-> 1, index |-> b]]
       /\ free_blocks' = free_blocks \ {b, d}
       /\ disk' = [disk EXCEPT ![b] = [k \in 0..(MaxBlocks - 1) |->
                                         IF k = 0 THEN d ELSE Junk]]
  /\ disk_inodes' = inodes'
  /\ disk_free' = free_blocks'
  /\ UNCHANGED <<handle, call, written, dropped, wild>>

\* Slip: the index block is not given back.
GiveBack_data(taken) == {b \in taken : \E c \in taken : c < b}

GiveBack(taken) == taken

\* When one of the three is missing, CreateFile gives back the others, in
\* memory; the disk was not touched.
CreateFails(f) ==
  /\ Idle /\ ~Exists(f)
  /\ FreeInodes = {} \/ Cardinality(free_blocks) < 2
  /\ \E taken \in SUBSET free_blocks :
       /\ Cardinality(taken) = IF Cardinality(free_blocks) < 2
                                 THEN Cardinality(free_blocks) ELSE 2
       /\ \A b \in taken, c \in free_blocks \ taken : b < c
       /\ free_blocks' = (free_blocks \ taken) \union GiveBack(taken)
  /\ UNCHANGED <<inodes, disk_inodes, disk_free, disk, handle, call, written, dropped, wild>>

\* The index block of inode i and the data blocks the disk lists in it.
Owned(i) ==
  {inodes[i].index} \union {disk[inodes[i].index][k] : k \in 0..(inodes[i].num_block - 1)}

\* What the blocks held no longer belongs to a file.
DeleteFile(f) ==
  /\ Idle /\ Exists(f) /\ ~IsOpen(f)
  /\ LET i == LookupFile(f)
     IN  /\ inodes' = [inodes EXCEPT ![i].is_free = TRUE]
         /\ free_blocks' = free_blocks \union Owned(i)
         /\ disk' = [b \in Blocks |-> IF b \in Owned(i) THEN Nothing ELSE disk[b]]
  /\ disk_inodes' = inodes'
  /\ disk_free' = free_blocks'
  /\ written' = [written EXCEPT ![f] = <<>>]
  /\ dropped' = dropped \ {f}
  /\ UNCHANGED <<handle, call, wild>>

----------------------------------------------------------------------------
(* File: open, close and Reset.                                             *)

Open(f) ==
  /\ Idle /\ Exists(f) /\ ~IsOpen(f)
  /\ LET i == LookupFile(f)
         index == disk[inodes[i].index]
     IN  handle' = [handle EXCEPT ![f] =
           [inode |-> i, pos |-> 0, block |-> 0, index |-> index,
            cache |-> disk[index[0]], dirty |-> FALSE]]
  /\ UNCHANGED <<inodes, free_blocks, disk_inodes, disk_free, disk, call,
                 written, dropped, wild>>

\* The disk after the cached block of handle h is written back, unless its
\* index entry was never set.
Astray(h) == h.index[h.block] = Junk
Flushed(h) == IF Astray(h) THEN disk ELSE [disk EXCEPT ![h.index[h.block]] = h.cache]

\* Slip: the inode list is not saved.
Close_without_update(f) ==
  /\ Idle /\ IsOpen(f)
  /\ LET h == handle[f]
     IN  /\ disk' = [Flushed(h) EXCEPT ![inodes[h.inode].index] = h.index]
         /\ wild' = Astray(h)
  /\ handle' = [handle EXCEPT ![f] = Closed]
  /\ UNCHANGED <<inodes, free_blocks, disk_inodes, disk_free, call, written, dropped>>

\* The destructor saves the inode list, the cached block and the index block.
Close(f) ==
  /\ Idle /\ IsOpen(f)
  /\ LET h == handle[f]
     IN  /\ disk' = [Flushed(h) EXCEPT ![inodes[h.inode].index] = h.index]
         /\ wild' = Astray(h)
  /\ disk_inodes' = inodes
  /\ handle' = [handle EXCEPT ![f] = Closed]
  /\ UNCHANGED <<inodes, free_blocks, disk_free, call, written, dropped>>

\* Slip: the block is reloaded but not written back.
Reset_unsaved(f) ==
  /\ Idle /\ IsOpen(f)
  /\ LET h == handle[f]
     IN  handle' = [handle EXCEPT ![f] =
           [h EXCEPT !.pos = 0, !.block = 0, !.dirty = FALSE, !.cache = disk[h.index[0]]]]
  /\ UNCHANGED <<inodes, free_blocks, disk_inodes, disk_free, disk, call, written,
                 dropped, wild>>

\* Reset goes back to the first block, after writing back another one.
Reset(f) ==
  /\ Idle /\ IsOpen(f)
  /\ LET h == handle[f]
     IN  IF h.block = 0
           THEN handle' = [handle EXCEPT ![f].pos = 0] /\ UNCHANGED <<disk, wild>>
         ELSE /\ disk' = Flushed(h)
              /\ wild' = Astray(h)
              /\ handle' = [handle EXCEPT ![f] =
                   [h EXCEPT !.pos = 0, !.block = 0, !.dirty = FALSE,
                             !.cache = disk'[h.index[0]]]]
  /\ UNCHANGED <<inodes, free_blocks, disk_inodes, disk_free, call, written, dropped>>

----------------------------------------------------------------------------
(* File::Write.                                                             *)

Start(op, f, n) ==
  /\ Idle /\ IsOpen(f)
  /\ call' = [op |-> op, file |-> f, left |-> n]
  /\ UNCHANGED <<inodes, free_blocks, disk_inodes, disk_free, disk, handle,
                 written, dropped, wild>>

In(op) == call.op = op /\ ~wild
Byte(h) == h.pos % PerBlock
Turning(h) == h.pos \div PerBlock > h.block

More(h) == call.left > 0 /\ h.pos < FileSize

\* The position has left the cached block: it is written back and the next
\* block of the file is read.
TurnToNext ==
  /\ In("write")
  /\ LET f == call.file
         h == handle[f]
     IN  /\ More(h) /\ Turning(h) /\ h.block + 1 < inodes[h.inode].num_block
         /\ disk' = Flushed(h)
         /\ wild' = Astray(h)
         /\ handle' = [handle EXCEPT ![f] =
              [h EXCEPT !.block = @ + 1, !.cache = disk[h.index[h.block + 1]],
                        !.dirty = FALSE]]
  /\ UNCHANGED <<inodes, free_blocks, disk_inodes, disk_free, call, written, dropped>>

\* There is none: a block is allocated and recorded in the free list, the
\* index block and the inode, all on disk. The cache keeps its contents.
TurnToNew ==
  /\ In("write")
  /\ LET f == call.file
         h == handle[f]
         i == h.inode
     IN  /\ More(h) /\ Turning(h) /\ h.block + 1 >= inodes[i].num_block
         /\ \E b \in Blocks :
              /\ IsFirst(b, free_blocks)
              /\ free_blocks' = free_blocks \ {b}
              /\ handle' = [handle EXCEPT ![f] =
                   [h EXCEPT !.block = @ + 1, !.index[h.block + 1] = b, !.dirty = FALSE]]
         /\ disk' = [Flushed(h) EXCEPT ![inodes[i].index] = handle'[f].index]
         /\ wild' = Astray(h)
         /\ inodes' = [inodes EXCEPT ![i].num_block = @ + 1]
  /\ disk_free' = free_blocks'
  /\ disk_inodes' = inodes'
  /\ UNCHANGED <<call, written, dropped>>

\* No block is left: Write returns at once. The handle already stands on the
\* block it did not get, and the size does not count what was written.
TurnFails ==
  /\ In("write")
  /\ LET f == call.file
         h == handle[f]
     IN  /\ More(h) /\ Turning(h) /\ h.block + 1 >= inodes[h.inode].num_block
         /\ free_blocks = {}
         /\ disk' = Flushed(h)
         /\ wild' = Astray(h)
         /\ handle' = [handle EXCEPT ![f] = [h EXCEPT !.block = @ + 1]]
  /\ call' = NoCall
  /\ UNCHANGED <<inodes, free_blocks, disk_inodes, disk_free, written, dropped>>

Put(v) ==
  /\ In("write")
  /\ LET f == call.file
         h == handle[f]
     IN  /\ More(h) /\ ~Turning(h)
         /\ handle' = [handle EXCEPT ![f] =
              [h EXCEPT !.cache[Byte(h)] = v, !.pos = @ + 1, !.dirty = TRUE]]
         /\ written' = [written EXCEPT ![f] =
              IF h.pos < Len(@) THEN [@ EXCEPT ![h.pos + 1] = v] ELSE Append(@, v)]
  /\ call' = [call EXCEPT !.left = @ - 1]
  /\ UNCHANGED <<inodes, free_blocks, disk_inodes, disk_free, disk, dropped, wild>>

EndWrite ==
  /\ In("write")
  /\ LET h == handle[call.file]
     IN  /\ ~More(h)
         /\ inodes' = [inodes EXCEPT ![h.inode].size = IF h.pos > @ THEN h.pos ELSE @]
  /\ call' = NoCall
  /\ UNCHANGED <<free_blocks, disk_inodes, disk_free, disk, handle, written, dropped, wild>>

----------------------------------------------------------------------------
(* File::Read.                                                              *)

\* Slip: the end of the file is one byte late.
EoF_late(h) == h.pos = inodes[h.inode].size + 1

EoF(h) == h.pos = inodes[h.inode].size

\* One byte is copied; the next block replaces the cached one without writing
\* it back.
Get ==
  /\ In("read")
  /\ LET f == call.file
         h == handle[f]
         next == h.pos \div PerBlock
     IN  /\ call.left > 0 /\ ~EoF(h)
         /\ IF ~Turning(h)
              THEN handle' = [handle EXCEPT ![f].pos = @ + 1] /\ UNCHANGED <<dropped, wild>>
            ELSE IF next >= MaxBlocks \/ h.index[next] = Junk
              THEN wild' = TRUE /\ UNCHANGED <<handle, dropped>>
            ELSE /\ handle' = [handle EXCEPT ![f] =
                      [h EXCEPT !.block = next, !.cache = disk[h.index[next]],
                                !.dirty = FALSE, !.pos = @ + 1]]
                 /\ dropped' = (IF h.dirty THEN dropped \union {f} ELSE dropped)
                 /\ wild' = wild
  /\ call' = [call EXCEPT !.left = @ - 1]
  /\ UNCHANGED <<inodes, free_blocks, disk_inodes, disk_free, disk, written>>

EndRead ==
  /\ In("read")
  /\ call.left = 0 \/ EoF(handle[call.file])
  /\ call' = NoCall
  /\ UNCHANGED <<inodes, free_blocks, disk_inodes, disk_free, disk, handle,
                 written, dropped, wild>>

Next ==
  \/ \E f \in Ids :
       \/ CreateFile(f) \/ CreateFails(f) \/ DeleteFile(f)
       \/ Open(f) \/ Close(f) \/ Reset(f)
       \/ \E op \in {"read", "write"}, n \in 1..MaxCount : Start(op, f, n)
  \/ TurnToNext \/ TurnToNew \/ TurnFails \/ EndWrite
  \/ \E v \in Values : Put(v)
  \/ Get \/ EndRead

Spec == Init /\ [][Next]_vars

----------------------------------------------------------------------------
Live == {i \in Slots : ~inodes[i].is_free}

\* Every block has exactly one use: reserved, free, or part of exactly one
\* file. Creation that fails, growth and deletion neither share a block
\* between files nor lose one, until a handle that a failed Write has left on
\* a block it did not get writes that block back.
BlocksAccounted ==
  ~wild => \A b \in Blocks :
    Cardinality({i \in Live : b \in Owned(i)})
      + (IF b \in free_blocks THEN 1 ELSE 0) + (IF b \in Reserved THEN 1 ELSE 0) = 1

\* The free list on disk is the one in memory, and the inodes on disk differ
\* from those in memory at most in the size of a file that is open: whatever
\* mounts the disk between two calls finds the same files and blocks.
SavedInode(i) ==
  \/ disk_inodes[i] = inodes[i]
  \/ /\ \E f \in Ids : IsOpen(f) /\ handle[f].inode = i
     /\ disk_inodes[i] = [inodes[i] EXCEPT !.size = disk_inodes[i].size]

DiskFollowsMemory == disk_free = free_blocks /\ \A i \in Slots : SavedInode(i)

\* The byte at offset k of file f, as a handle sees it.
Stored(f, k) ==
  LET b == k \div PerBlock
  IN  IF IsOpen(f) /\ handle[f].block = b THEN handle[f].cache[k % PerBlock]
      ELSE disk[disk[inodes[LookupFile(f)].index][b]][k % PerBlock]

Failed(f) == IsOpen(f) /\ handle[f].block >= inodes[handle[f].inode].num_block

Kept(f) ==
  \A k \in 0..(inodes[LookupFile(f)].size - 1) : Stored(f, k) = written[f][k + 1]

\* Every byte of every file is the one that was written to it last, whatever
\* happened to other files, unless a handle of the file has read on from a
\* block it had modified, or a Write has run out of blocks.
WritesKept ==
  ~wild => \A f \in Ids : Exists(f) /\ f \notin dropped /\ ~Failed(f) => Kept(f)

\* Every byte that Read hands out is the one that was last written at that
\* position, by whatever calls and through whatever handles, and none is
\* handed out beyond the last one written. The exceptions are those of
\* WritesKept: a file that has lost a modified block, and a handle that a
\* failed Write has left on a block it did not get (see ReadStaysInside).
Reads(f) == call.op = "read" /\ call.file = f /\ handle'[f].pos = handle[f].pos + 1

ReadsReturnWrites ==
  [][\A f \in Ids : Reads(f) /\ f \notin dropped' /\ ~Failed(f) =>
       LET h == handle[f]
       IN  /\ h.pos < Len(written[f])
           /\ handle'[f].cache[Byte(h)] = written[f][h.pos + 1]]_vars

\* file.H: Read does not read beyond the end of the file. A Read that EoF does
\* not stop has a byte of the file to read.
ReadStaysInside ==
  call.op = "read" => LET h == handle[call.file]
                      IN  call.left > 0 /\ ~EoF(h) => h.pos < inodes[h.inode].size

\* file.H: Write writes its characters to the file at the current position.
WritesReachFile == ~wild => \A f \in Ids : Exists(f) /\ ~Failed(f) => Kept(f)
=============================================================================
