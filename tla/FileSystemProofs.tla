--------------------------- MODULE FileSystemProofs ---------------------------
(* The file system of MP7, for any number of files, inodes and blocks, any   *)
(* block size and any sequence of calls: no block is shared or lost, the     *)
(* disk follows the memory, and a byte that was written stays.               *)
EXTENDS FileSystem, FiniteSetTheorems, SequenceTheorems, TLAPS

Bytes == 0..(PerBlock - 1)
Entries == 0..(MaxBlocks - 1)
IndexBlock == [Entries -> Blocks \union {Junk}]
DataBlock == [Bytes -> Values \union {Blank}]

Inode == [id : Ids \union {Junk}, is_free : BOOLEAN, size : Nat, num_block : Nat,
          index : Blocks \union {Junk}]
Handle == [inode : Slots, pos : Nat, block : Entries, index : IndexBlock,
           cache : DataBlock, dirty : BOOLEAN]
Call == [op : {"read", "write"}, file : Ids, left : Nat]

TypeOK ==
  /\ inodes \in [Slots -> Inode] /\ disk_inodes \in [Slots -> Inode]
  /\ free_blocks \subseteq Blocks \ Reserved /\ disk_free \subseteq Blocks
  /\ DOMAIN disk = Blocks
  /\ handle \in [Ids -> Handle \union {Closed}]
  /\ call \in Call \union {NoCall}
  /\ written \in [Ids -> Seq(Values)]
  /\ dropped \subseteq Ids /\ wild \in BOOLEAN

----------------------------------------------------------------------------
\* The blocks of a file: its index block, and a data block for each of the
\* first num_block entries of it.
Ix(i) == inodes[i].index
Entry(i, k) == disk[inodes[i].index][k]
Parts(i) == 0..(inodes[i].num_block - 1)

FileShaped(i) ==
  /\ inodes[i].id \in Ids /\ inodes[i].num_block \in 1..MaxBlocks
  /\ Ix(i) \in Blocks \ Reserved /\ disk[Ix(i)] \in IndexBlock
  /\ \A k \in Parts(i) : Entry(i, k) \in Blocks \ Reserved /\ Entry(i, k) # Ix(i)
                         /\ disk[Entry(i, k)] \in DataBlock
  /\ \A k \in Entries \ Parts(i) : Entry(i, k) = Junk
  /\ \A k, l \in Parts(i) : Entry(i, k) = Entry(i, l) => k = l

BlocksInv ==
  /\ \A i \in Live : FileShaped(i)
  /\ \A i \in Live : Owned(i) \intersect free_blocks = {}
  /\ \A i, j \in Live : i # j => Owned(i) \intersect Owned(j) = {}
  /\ \A b \in free_blocks : disk[b] \in DataBlock
  /\ \A b \in Blocks : b \in Reserved \union free_blocks \/ \E i \in Live : b \in Owned(i)

NamesInv == \A i, j \in Live : inodes[i].id = inodes[j].id => i = j

----------------------------------------------------------------------------
\* A handle knows its file, holds a copy of the index block as it is on disk,
\* and stands in the block it has cached or at its end.
HandleFits(f) ==
  LET h == handle[f]
  IN  /\ h.inode \in Live /\ inodes[h.inode].id = f
      /\ h.index = disk[Ix(h.inode)]
      /\ PerBlock * h.block <= h.pos /\ h.pos <= PerBlock * h.block + PerBlock

HandlesInv ==
  /\ \A f \in Ids : IsOpen(f) => HandleFits(f)
  /\ call # NoCall => IsOpen(call.file)

----------------------------------------------------------------------------
\* How much of a file was written, and where its bytes are.
Writing(f) == call # NoCall /\ call.op = "write" /\ call.file = f
Larger(m, n) == IF m > n THEN m ELSE n

LengthFits(i) ==
  LET f == inodes[i].id
  IN  /\ inodes[i].size <= PerBlock * inodes[i].num_block
      /\ Len(written[f]) = IF Writing(f) THEN Larger(inodes[i].size, handle[f].pos)
                                         ELSE inodes[i].size
      /\ IsOpen(f) => handle[f].pos <= Len(written[f])

LengthsInv ==
  /\ \A i \in Live : ~Failed(inodes[i].id) => LengthFits(i)
  /\ \A f \in Ids : ~Exists(f) => written[f] = <<>>

InCache(f, k) == IsOpen(f) /\ handle[f].block = k \div PerBlock
OnDisk(i, k) == disk[Entry(i, k \div PerBlock)][k % PerBlock]

BytesKept(i) ==
  LET f == inodes[i].id
  IN  \A k \in 0..(Len(written[f]) - 1) :
        /\ InCache(f, k) => handle[f].cache[k % PerBlock] = written[f][k + 1]
        /\ ~(InCache(f, k) /\ handle[f].dirty) => OnDisk(i, k) = written[f][k + 1]

ContentInv ==
  \A i \in Live : inodes[i].id \notin dropped /\ ~Failed(inodes[i].id) => BytesKept(i)

Sound == BlocksInv /\ NamesInv /\ HandlesInv /\ LengthsInv /\ ContentInv

\* Once a block was written astray, nothing is known of the blocks any more.
IInv == TypeOK /\ DiskFollowsMemory /\ (~wild => Sound)

----------------------------------------------------------------------------
\* Positions, blocks and bytes.
LEMMA Division ==
  ASSUME NEW k \in Nat
  PROVE  /\ k \div PerBlock \in Nat /\ k % PerBlock \in Bytes
         /\ PerBlock * (k \div PerBlock) \in Nat
         /\ k = PerBlock * (k \div PerBlock) + (k % PerBlock)
<1> DEFINE q == k \div PerBlock
           r == k % PerBlock
<1>1. PerBlock \in Nat \ {0}
  BY SizeAssumption
<1>2. q \in Int /\ r \in 0..(PerBlock - 1) /\ k = PerBlock * q + r
  BY <1>1
<1> HIDE DEF q, r
<1>3. q < 0 => PerBlock * q <= -PerBlock
  BY <1>1, <1>2
<1>4. PerBlock * q \in Int
  BY <1>1, <1>2
<1>5. q >= 0
  BY <1>1, <1>2, <1>3, <1>4
<1>6. PerBlock * q >= 0
  BY <1>1, <1>2, <1>5
<1>7. q \in Nat /\ r \in Bytes /\ PerBlock * q \in Nat /\ k = PerBlock * q + r
  BY <1>1, <1>2, <1>4, <1>5, <1>6 DEF Bytes
<1> QED BY <1>7 DEF q, r

\* Blocks lie one behind the other.
LEMMA BlocksInOrder ==
  ASSUME NEW b \in Nat, NEW c \in Nat
  PROVE  /\ PerBlock * b \in Nat /\ PerBlock * c \in Nat
         /\ b < c => PerBlock * b + PerBlock <= PerBlock * c
         /\ b <= c => PerBlock * b <= PerBlock * c
         /\ PerBlock * (b + 1) = PerBlock * b + PerBlock
<1>1. PerBlock \in Nat \ {0} /\ PerBlock * b \in Nat /\ PerBlock * c \in Nat
  BY SizeAssumption
<1>2. PerBlock * (b + 1) = PerBlock * b + PerBlock
  BY <1>1
<1>3. ASSUME b < c PROVE PerBlock * b + PerBlock <= PerBlock * c
  <2>1. c - b - 1 \in Nat /\ c = (b + 1) + (c - b - 1)
    BY <1>3
  <2>2. PerBlock * (c - b - 1) \in Nat
    BY <1>1, <2>1
  <2>3. PerBlock * c = PerBlock * (b + 1) + PerBlock * (c - b - 1)
    BY <1>1, <2>1
  <2> QED BY <1>1, <1>2, <2>2, <2>3
<1>4. b <= c => PerBlock * b <= PerBlock * c
  BY <1>1, <1>3
<1> QED BY <1>1, <1>2, <1>3, <1>4

LEMMA BlockOf ==
  ASSUME NEW k \in Nat, NEW b \in Nat
  PROVE  k \div PerBlock = b <=> PerBlock * b <= k /\ k < PerBlock * b + PerBlock
<1> DEFINE q == k \div PerBlock
<1>1. /\ q \in Nat /\ PerBlock \in Nat \ {0} /\ PerBlock * q \in Nat
      /\ PerBlock * q <= k /\ k < PerBlock * q + PerBlock
  BY Division, SizeAssumption DEF Bytes
<1> HIDE DEF q
<1>2. /\ PerBlock * b \in Nat
      /\ b < q => PerBlock * b + PerBlock <= PerBlock * q
      /\ q < b => PerBlock * q + PerBlock <= PerBlock * b
  BY <1>1, BlocksInOrder
<1> QED BY <1>1, <1>2 DEF q

LEMMA BytesDiffer ==
  ASSUME NEW k \in Nat, NEW l \in Nat, k \div PerBlock = l \div PerBlock,
         k % PerBlock = l % PerBlock
  PROVE  k = l
<1>1. /\ k = PerBlock * (k \div PerBlock) + (k % PerBlock)
      /\ l = PerBlock * (l \div PerBlock) + (l % PerBlock)
  BY Division
<1> QED BY <1>1, Zenon

\* The file of a name is the one live inode with it.
LEMMA LookupIs ==
  ASSUME NamesInv, NEW i \in Live
  PROVE  Exists(inodes[i].id) /\ LookupFile(inodes[i].id) = i
<1> DEFINE f == inodes[i].id
<1>1. i \in Slots /\ inodes[i].id = f /\ ~inodes[i].is_free
  BY DEF Live
<1>2. \A j \in Slots : inodes[j].id = f /\ ~inodes[j].is_free => j = i
  BY <1>1 DEF NamesInv, Live
<1> HIDE DEF f
<1>3. (CHOOSE j \in Slots : inodes[j].id = f /\ ~inodes[j].is_free) = i
  BY <1>1, <1>2
<1> QED BY <1>1, <1>3 DEF Exists, LookupFile

LEMMA ExistsIs ==
  ASSUME NamesInv, NEW f, Exists(f)
  PROVE  LookupFile(f) \in Live /\ inodes[LookupFile(f)].id = f
<1>1. PICK i \in Slots : inodes[i].id = f /\ ~inodes[i].is_free
  BY DEF Exists
<1> QED BY <1>1, LookupIs DEF Live

----------------------------------------------------------------------------
\* The fields of inodes and handles.
LEMMA InodeFields ==
  ASSUME TypeOK, NEW i \in Slots
  PROVE  /\ inodes[i] \in Inode /\ inodes[i].is_free \in BOOLEAN
         /\ inodes[i].size \in Nat /\ inodes[i].num_block \in Nat
BY DEF TypeOK, Inode

LEMMA HandleFields ==
  ASSUME TypeOK, NEW f \in Ids
  PROVE  /\ IsOpen(f) <=> handle[f] \in Handle
         /\ IsOpen(f) => /\ handle[f].inode \in Slots /\ handle[f].pos \in Nat
                         /\ handle[f].block \in Entries /\ handle[f].index \in IndexBlock
                         /\ handle[f].cache \in DataBlock /\ handle[f].dirty \in BOOLEAN
<1>1. handle[f] \in Handle \union {Closed}
  BY DEF TypeOK
<1>2. Closed \notin Handle
  <2>1. 0 \notin Slots
    BY DEF Slots
  <2>2. \A h \in Handle : h.inode # 0
    BY <2>1 DEF Handle
  <2>3. Closed.inode = 0
    BY DEF Closed
  <2> QED BY <2>2, <2>3
<1>3. IsOpen(f) <=> handle[f] \in Handle
  BY <1>1, <1>2 DEF IsOpen
<1>4. ASSUME handle[f] \in Handle
      PROVE  /\ handle[f].inode \in Slots /\ handle[f].pos \in Nat
             /\ handle[f].block \in Entries /\ handle[f].index \in IndexBlock
             /\ handle[f].cache \in DataBlock /\ handle[f].dirty \in BOOLEAN
  BY <1>4 DEF Handle
<1> QED BY <1>3, <1>4

LEMMA CallFields ==
  ASSUME TypeOK, call # NoCall
  PROVE  call \in Call /\ call.op \in {"read", "write"} /\ call.file \in Ids /\ call.left \in Nat
BY DEF TypeOK, Call

LEMMA CallsAreOpen ==
  ASSUME TypeOK, HandlesInv, NEW op \in {"read", "write"}, call.op = op
  PROVE  call # NoCall /\ call.file \in Ids /\ IsOpen(call.file)
<1>1. call # NoCall
  BY DEF NoCall
<1> QED BY <1>1, CallFields DEF HandlesInv

----------------------------------------------------------------------------
\* What an open handle shows of its file.
LEMMA OpenFile ==
  ASSUME TypeOK, Sound, NEW f \in Ids, IsOpen(f)
  PROVE  LET h == handle[f]
             i == h.inode
         IN  /\ h \in Handle /\ i \in Live /\ i \in Slots /\ inodes[i].id = f /\ FileShaped(i)
             /\ h.index \in IndexBlock /\ h.block \in Entries /\ h.pos \in Nat
             /\ h.cache \in DataBlock /\ h.index = disk[Ix(i)]
             /\ \A k \in Entries : h.index[k] = Entry(i, k)
             /\ \A k \in Entries : h.index[k] # Junk => k \in Parts(i)
             /\ 0 \in Entries /\ 0 \in Parts(i) /\ h.index[0] # Junk
             /\ Failed(f) <=> h.block \notin Parts(i)
             /\ Parts(i) \subseteq Entries
             /\ \A k \in Parts(i) : h.index[k] \in Blocks \ Reserved /\ h.index[k] # Junk
                                    /\ disk[h.index[k]] \in DataBlock
<1> DEFINE h == handle[f]
           i == h.inode
<1>1. /\ h \in Handle /\ i \in Slots /\ h.index \in IndexBlock /\ h.block \in Entries
      /\ h.pos \in Nat /\ h.cache \in DataBlock
  BY HandleFields
<1>2. i \in Live /\ inodes[i].id = f /\ h.index = disk[Ix(i)]
  BY DEF Sound, HandlesInv, HandleFits
<1>3. FileShaped(i)
  BY <1>2 DEF Sound, BlocksInv
<1>4. \A k \in Entries : h.index[k] = Entry(i, k)
  BY <1>2 DEF Entry, Ix
<1>5. inodes[i].num_block \in 1..MaxBlocks /\ MaxBlocks \in Nat \ {0}
  BY <1>3, SizeAssumption DEF FileShaped
<1>6. 0 \in Entries /\ 0 \in Parts(i) /\ Parts(i) \subseteq Entries
  BY <1>5 DEF Entries, Parts
<1>7. \A k \in Parts(i) : Entry(i, k) \in Blocks \ Reserved /\ disk[Entry(i, k)] \in DataBlock
  BY <1>3 DEF FileShaped
<1>8. \A k \in Entries : k \notin Parts(i) => Entry(i, k) = Junk
  BY <1>3 DEF FileShaped
<1>9. Junk \notin Blocks
  BY SizeAssumption DEF Junk, Blocks
<1>10. Failed(f) <=> h.block \notin Parts(i)
  <2>1. h.block \in Nat
    BY <1>1 DEF Entries
  <2> HIDE DEF h, i
  <2>2. Failed(f) <=> h.block >= inodes[i].num_block
    BY DEF Failed, h, i
  <2> QED BY <1>5, <2>1, <2>2 DEF Parts
<1> HIDE DEF h, i
<1>11. \A k \in Entries : h.index[k] # Junk => k \in Parts(i)
  BY <1>4, <1>8
<1>12. \A k \in Parts(i) : h.index[k] \in Blocks \ Reserved /\ h.index[k] # Junk
                           /\ disk[h.index[k]] \in DataBlock
  BY <1>4, <1>6, <1>7, <1>9
<1> QED BY <1>1, <1>2, <1>3, <1>4, <1>6, <1>10, <1>11, <1>12 DEF h, i

\* The cached block is written back to a data block of the file, or nowhere.
LEMMA FlushedBlock ==
  ASSUME TypeOK, Sound, NEW f \in Ids, IsOpen(f)
  PROVE  LET h == handle[f]
         IN  /\ DOMAIN Flushed(h) = Blocks
             /\ Astray(h) => Flushed(h) = disk
             /\ ~Astray(h) => /\ h.block \in Parts(h.inode) /\ h.index[h.block] \in Blocks
                              /\ \A b \in Blocks : Flushed(h)[b] =
                                   IF b = h.index[h.block] THEN h.cache ELSE disk[b]
<1> DEFINE h == handle[f]
<1>1. /\ h.block \in Entries
      /\ \A k \in Entries : h.index[k] # Junk => k \in Parts(h.inode)
      /\ \A k \in Parts(h.inode) : h.index[k] \in Blocks \ Reserved
  BY OpenFile
<1>2. DOMAIN disk = Blocks
  BY DEF TypeOK
<1> HIDE DEF h
<1> QED BY <1>1, <1>2 DEF Flushed, Astray, h

----------------------------------------------------------------------------
\* What every action does, variable by variable.
Others(f) == \A g \in Ids : g # f => handle'[g] = handle[g]

LEMMA CreateEffect ==
  ASSUME TypeOK, NEW f \in Ids, CreateFile(f)
  PROVE  /\ TypeOK' /\ ~wild /\ ~wild' /\ call = NoCall /\ ~Exists(f)
         /\ UNCHANGED <<handle, call, written, dropped>>
         /\ disk_inodes' = inodes' /\ disk_free' = free_blocks'
         /\ \E i \in Slots, b, d \in free_blocks :
              /\ b # d /\ inodes[i].is_free
              /\ \A j \in Slots : j # i => inodes'[j] = inodes[j]
              /\ inodes'[i].id = f /\ ~inodes'[i].is_free /\ inodes'[i].size = 0
              /\ inodes'[i].num_block = 1 /\ inodes'[i].index = b
              /\ free_blocks' = free_blocks \ {b, d}
              /\ \A c \in Blocks : c # b => disk'[c] = disk[c]
              /\ disk'[b] \in IndexBlock /\ disk'[b][0] = d
              /\ \A k \in Entries : k # 0 => disk'[b][k] = Junk
<1> DEFINE idx(d) == [k \in 0..(MaxBlocks - 1) |-> IF k = 0 THEN d ELSE Junk]
           new(b) == [id |-> f, is_free |-> FALSE, size |-> 0, num_block |-> 1, index |-> b]
<1>1. PICK i \in Slots, b, d \in Blocks :
        /\ IsFirst(i, FreeInodes)
        /\ IsFirst(b, free_blocks) /\ IsFirst(d, free_blocks \ {b})
        /\ inodes' = [inodes EXCEPT ![i] = new(b)]
        /\ free_blocks' = free_blocks \ {b, d}
        /\ disk' = [disk EXCEPT ![b] = idx(d)]
  BY DEF CreateFile
<1>2. /\ b \in free_blocks /\ d \in free_blocks /\ b # d /\ inodes[i].is_free
      /\ b \in Blocks /\ d \in Blocks
  BY <1>1 DEF IsFirst, FreeInodes
<1>3. idx(d) \in IndexBlock /\ idx(d)[0] = d /\ \A k \in Entries : k # 0 => idx(d)[k] = Junk
  BY <1>2, SizeAssumption DEF IndexBlock, Entries
<1>4. new(b) \in Inode
  BY <1>2 DEF Inode
<1>5. new(b).id = f /\ new(b).is_free = FALSE /\ new(b).size = 0 /\ new(b).num_block = 1
      /\ new(b).index = b
  OBVIOUS
<1> HIDE DEF idx, new
<1>6. /\ inodes' \in [Slots -> Inode] /\ inodes'[i] = new(b)
      /\ \A j \in Slots : j # i => inodes'[j] = inodes[j]
  BY <1>1, <1>4 DEF TypeOK
<1>7. /\ DOMAIN disk' = Blocks /\ disk'[b] = idx(d)
      /\ \A c \in Blocks : c # b => disk'[c] = disk[c]
  BY <1>1, <1>2 DEF TypeOK
<1>8. /\ ~wild /\ wild' = wild /\ call = NoCall /\ ~Exists(f)
      /\ UNCHANGED <<handle, call, written, dropped>>
      /\ disk_inodes' = inodes' /\ disk_free' = free_blocks'
  BY DEF CreateFile, Idle
<1>9. TypeOK'
  BY <1>1, <1>6, <1>7, <1>8 DEF TypeOK
<1> QED BY <1>1, <1>2, <1>3, <1>5, <1>6, <1>7, <1>8, <1>9

LEMMA CreateFailsEffect ==
  ASSUME TypeOK, NEW f \in Ids, CreateFails(f)
  PROVE  UNCHANGED vars /\ ~wild
<1>1. PICK taken \in SUBSET free_blocks :
        free_blocks' = (free_blocks \ taken) \union GiveBack(taken)
  BY DEF CreateFails
<1>2. free_blocks' = free_blocks
  BY <1>1 DEF GiveBack
<1> QED BY <1>2 DEF CreateFails, vars, Idle

LEMMA DeleteEffect ==
  ASSUME TypeOK, Sound, NEW f \in Ids, DeleteFile(f)
  PROVE  /\ TypeOK' /\ ~wild /\ ~wild' /\ call = NoCall /\ ~IsOpen(f)
         /\ UNCHANGED <<handle, call>>
         /\ disk_inodes' = inodes' /\ disk_free' = free_blocks'
         /\ written'[f] = <<>> /\ \A g \in Ids : g # f => written'[g] = written[g]
         /\ dropped' = dropped \ {f}
         /\ \E i \in Live :
              /\ inodes[i].id = f
              /\ \A j \in Slots : j # i => inodes'[j] = inodes[j]
              /\ inodes'[i].is_free /\ inodes'[i].id = f
              /\ free_blocks' = free_blocks \union Owned(i)
              /\ \A b \in Blocks : disk'[b] = IF b \in Owned(i) THEN Nothing ELSE disk[b]
<1> DEFINE i == LookupFile(f)
<1>1. i \in Live /\ i \in Slots /\ inodes[i].id = f
  BY ExistsIs DEF DeleteFile, Sound, Live
<1>2. /\ inodes' = [inodes EXCEPT ![i].is_free = TRUE]
      /\ free_blocks' = free_blocks \union Owned(i)
      /\ disk' = [b \in Blocks |-> IF b \in Owned(i) THEN Nothing ELSE disk[b]]
      /\ written' = [written EXCEPT ![f] = <<>>] /\ dropped' = dropped \ {f}
      /\ disk_inodes' = inodes' /\ disk_free' = free_blocks'
      /\ UNCHANGED <<handle, call, wild>> /\ ~wild /\ call = NoCall /\ ~IsOpen(f)
  BY DEF DeleteFile, Idle
<1> HIDE DEF i
<1>3. inodes[i] \in Inode
  BY <1>1, InodeFields
<1>4. /\ [inodes[i] EXCEPT !.is_free = TRUE] \in Inode
      /\ [inodes[i] EXCEPT !.is_free = TRUE].is_free = TRUE
      /\ [inodes[i] EXCEPT !.is_free = TRUE].id = inodes[i].id
  BY <1>3 DEF Inode
<1>5. /\ inodes' \in [Slots -> Inode] /\ inodes'[i] = [inodes[i] EXCEPT !.is_free = TRUE]
      /\ \A j \in Slots : j # i => inodes'[j] = inodes[j]
  BY <1>1, <1>2, <1>4 DEF TypeOK
<1>6. Owned(i) \subseteq Blocks \ Reserved
  BY <1>1 DEF Sound, BlocksInv, FileShaped, Owned, Ix, Entry, Parts
<1>7. /\ free_blocks' \subseteq Blocks \ Reserved /\ disk_free' \subseteq Blocks
  BY <1>2, <1>6 DEF TypeOK
<1>8. /\ written' \in [Ids -> Seq(Values)] /\ written'[f] = <<>>
      /\ \A g \in Ids : g # f => written'[g] = written[g]
  BY <1>2 DEF TypeOK
<1>9. TypeOK'
  BY <1>2, <1>5, <1>7, <1>8 DEF TypeOK
<1> QED BY <1>1, <1>2, <1>4, <1>5, <1>8, <1>9

LEMMA HandleSet ==
  ASSUME TypeOK, NEW f \in Ids, NEW d \in Handle \union {Closed},
         handle' = [handle EXCEPT ![f] = d]
  PROVE  /\ handle' \in [Ids -> Handle \union {Closed}] /\ handle'[f] = d /\ Others(f)
BY DEF TypeOK, Others

LEMMA HandlesAreOpen == \A d \in Handle : d # Closed
<1> SUFFICES ASSUME NEW d \in Handle PROVE d # Closed
  OBVIOUS
<1>1. d.inode \in Slots /\ 0 \notin Slots /\ Closed.inode = 0
  BY DEF Handle, Slots, Closed
<1> QED BY <1>1

LEMMA OpenEffect ==
  ASSUME TypeOK, Sound, NEW f \in Ids, Open(f)
  PROVE  /\ TypeOK' /\ ~wild /\ ~wild' /\ call = NoCall /\ ~IsOpen(f)
         /\ UNCHANGED <<inodes, free_blocks, disk_inodes, disk_free, disk, call, written, dropped>>
         /\ Others(f) /\ handle'[f] \in Handle
         /\ \E i \in Live :
              /\ inodes[i].id = f /\ handle'[f].inode = i /\ handle'[f].pos = 0
              /\ handle'[f].block = 0 /\ handle'[f].index = disk[Ix(i)]
              /\ handle'[f].cache = disk[Entry(i, 0)] /\ handle'[f].dirty = FALSE
<1> DEFINE i == LookupFile(f)
           index == disk[inodes[i].index]
           new == [inode |-> i, pos |-> 0, block |-> 0, index |-> index,
                   cache |-> disk[index[0]], dirty |-> FALSE]
<1>1. i \in Live /\ i \in Slots /\ inodes[i].id = f
  BY ExistsIs DEF Open, Sound, Live
<1>2. /\ handle' = [handle EXCEPT ![f] = new] /\ ~wild /\ call = NoCall /\ ~IsOpen(f)
      /\ UNCHANGED <<inodes, free_blocks, disk_inodes, disk_free, disk, call, written,
                     dropped, wild>>
  BY DEF Open, Idle
<1>3. /\ index \in IndexBlock /\ index = disk[Ix(i)] /\ index[0] = Entry(i, 0)
      /\ 0 \in Entries /\ disk[index[0]] \in DataBlock
  <2>1. FileShaped(i)
    BY <1>1 DEF Sound, BlocksInv
  <2>2. 0 \in Parts(i) /\ 0 \in Entries
    BY <2>1, SizeAssumption DEF FileShaped, Parts, Entries
  <2> QED BY <2>1, <2>2 DEF FileShaped, Ix, Entry
<1> HIDE DEF i, index
<1>4. new \in Handle
  BY <1>1, <1>3 DEF Handle
<1>5. /\ new.inode = i /\ new.pos = 0 /\ new.block = 0 /\ new.index = index
      /\ new.cache = disk[index[0]] /\ new.dirty = FALSE
  OBVIOUS
<1> HIDE DEF new
<1>6. /\ handle' \in [Ids -> Handle \union {Closed}] /\ handle'[f] = new /\ Others(f)
  BY <1>2, <1>4, HandleSet
<1>7. TypeOK'
  BY <1>2, <1>6 DEF TypeOK
<1> QED BY <1>1, <1>2, <1>3, <1>4, <1>5, <1>6, <1>7

\* The cached block of h is on disk, as the only thing that has changed there.
WroteBack(h) ==
  /\ h.block \in Parts(h.inode)
  /\ \A b \in Blocks : disk'[b] = IF b = h.index[h.block] THEN h.cache ELSE disk[b]

LEMMA CloseEffect ==
  ASSUME TypeOK, Sound, NEW f \in Ids, Close(f)
  PROVE  /\ TypeOK' /\ ~wild /\ call = NoCall /\ IsOpen(f)
         /\ UNCHANGED <<inodes, free_blocks, disk_free, call, written, dropped>>
         /\ disk_inodes' = inodes
         /\ Others(f) /\ handle'[f] = Closed
         /\ ~wild' => WroteBack(handle[f])
<1> DEFINE h == handle[f]
<1>1. /\ disk' = [Flushed(h) EXCEPT ![inodes[h.inode].index] = h.index]
      /\ wild' = Astray(h) /\ ~wild /\ call = NoCall /\ IsOpen(f)
      /\ handle' = [handle EXCEPT ![f] = Closed] /\ disk_inodes' = inodes
      /\ UNCHANGED <<inodes, free_blocks, disk_free, call, written, dropped>>
  BY DEF Close, Idle
<1>2. /\ h.inode \in Live /\ FileShaped(h.inode) /\ h.index = disk[Ix(h.inode)]
      /\ \A k \in Entries : h.index[k] = Entry(h.inode, k)
      /\ Parts(h.inode) \subseteq Entries
  BY <1>1, OpenFile
<1>3. /\ DOMAIN Flushed(h) = Blocks
      /\ ~Astray(h) => /\ h.block \in Parts(h.inode) /\ h.index[h.block] \in Blocks
                       /\ \A b \in Blocks : Flushed(h)[b] =
                            IF b = h.index[h.block] THEN h.cache ELSE disk[b]
  BY <1>1, FlushedBlock
<1> HIDE DEF h
<1>4. /\ handle' \in [Ids -> Handle \union {Closed}] /\ handle'[f] = Closed /\ Others(f)
  BY <1>1, HandleSet
<1>5. DOMAIN disk' = Blocks /\ wild' \in BOOLEAN
  BY <1>1, <1>3 DEF Astray
<1>6. TypeOK'
  BY <1>1, <1>4, <1>5 DEF TypeOK
<1>7. ASSUME ~wild' PROVE WroteBack(h)
  <2>1. /\ h.block \in Parts(h.inode)
        /\ \A b \in Blocks : Flushed(h)[b] = IF b = h.index[h.block] THEN h.cache ELSE disk[b]
    BY <1>1, <1>3, <1>7
  <2>2. Ix(h.inode) \in Blocks /\ h.index[h.block] # Ix(h.inode)
    BY <1>2, <2>1 DEF FileShaped
  <2>3. \A b \in Blocks : disk'[b] = IF b = Ix(h.inode) THEN h.index ELSE Flushed(h)[b]
    BY <1>1, <1>3 DEF Ix
  <2> QED BY <1>2, <2>1, <2>2, <2>3 DEF WroteBack
<1> QED BY <1>1, <1>4, <1>6, <1>7 DEF h

LEMMA ResetEffect ==
  ASSUME TypeOK, Sound, NEW f \in Ids, Reset(f)
  PROVE  /\ TypeOK' /\ ~wild /\ call = NoCall /\ IsOpen(f)
         /\ UNCHANGED <<inodes, free_blocks, disk_inodes, disk_free, call, written, dropped>>
         /\ Others(f) /\ handle'[f] \in Handle /\ handle'[f].inode = handle[f].inode
         /\ handle'[f].index = handle[f].index
         /\ handle'[f].pos = 0 /\ handle'[f].block = 0
         /\ \/ /\ handle[f].block = 0 /\ disk' = disk /\ wild' = wild
               /\ handle'[f].cache = handle[f].cache /\ handle'[f].dirty = handle[f].dirty
            \/ /\ handle[f].block # 0 /\ handle'[f].dirty = FALSE
               /\ handle'[f].cache = disk'[handle[f].index[0]]
               /\ ~wild' => WroteBack(handle[f])
<1> DEFINE h == handle[f]
<1>1. /\ ~wild /\ call = NoCall /\ IsOpen(f)
      /\ UNCHANGED <<inodes, free_blocks, disk_inodes, disk_free, call, written, dropped>>
  BY DEF Reset, Idle
<1>2. /\ h \in Handle /\ h.inode \in Live /\ FileShaped(h.inode)
      /\ 0 \in Entries /\ 0 \in Parts(h.inode) /\ h.block \in Entries
      /\ \A k \in Parts(h.inode) : h.index[k] \in Blocks \ Reserved /\ h.index[k] # Junk
                                   /\ disk[h.index[k]] \in DataBlock
      /\ h.cache \in DataBlock
  BY <1>1, OpenFile
<1>3. CASE h.block = 0
  <2> DEFINE d == [h EXCEPT !.pos = 0]
  <2>1. handle' = [handle EXCEPT ![f] = d] /\ UNCHANGED <<disk, wild>>
    BY <1>3 DEF Reset
  <2>2. /\ d \in Handle /\ d.inode = h.inode /\ d.index = h.index /\ d.pos = 0 /\ d.block = 0
        /\ d.cache = h.cache /\ d.dirty = h.dirty
    BY <1>2, <1>3 DEF Handle
  <2> HIDE DEF d
  <2>3. handle' \in [Ids -> Handle \union {Closed}] /\ handle'[f] = d /\ Others(f)
    BY <2>1, <2>2, HandleSet
  <2>4. TypeOK'
    BY <1>1, <2>1, <2>3 DEF TypeOK
  <2> QED BY <1>1, <1>3, <2>1, <2>2, <2>3, <2>4
<1>4. CASE h.block # 0
  <2> DEFINE d == [h EXCEPT !.pos = 0, !.block = 0, !.dirty = FALSE,
                            !.cache = disk'[h.index[0]]]
  <2>1. /\ disk' = Flushed(h) /\ wild' = Astray(h)
        /\ handle' = [handle EXCEPT ![f] = d]
    BY <1>4 DEF Reset
  <2>2. /\ DOMAIN Flushed(h) = Blocks
        /\ Astray(h) => Flushed(h) = disk
        /\ ~Astray(h) => /\ h.block \in Parts(h.inode) /\ h.index[h.block] \in Blocks
                         /\ \A b \in Blocks : Flushed(h)[b] =
                              IF b = h.index[h.block] THEN h.cache ELSE disk[b]
    BY <1>1, FlushedBlock
  <2>3. disk'[h.index[0]] \in DataBlock
    BY <1>2, <2>1, <2>2
  <2>4. ~wild' => WroteBack(h)
    BY <2>1, <2>2 DEF WroteBack
  <2>5. /\ d \in Handle /\ d.inode = h.inode /\ d.index = h.index /\ d.pos = 0 /\ d.block = 0
        /\ d.cache = disk'[h.index[0]] /\ d.dirty = FALSE
    <3> DEFINE c == disk'[h.index[0]]
    <3>1. c \in DataBlock /\ 0 \in Nat /\ h \in Handle /\ 0 \in Entries
      BY <1>2, <2>3
    <3> HIDE DEF h, c
    <3>2. LET e == [h EXCEPT !.pos = 0, !.block = 0, !.dirty = FALSE, !.cache = c]
          IN  /\ e \in Handle /\ e.inode = h.inode /\ e.index = h.index /\ e.pos = 0
              /\ e.block = 0 /\ e.cache = c /\ e.dirty = FALSE
      BY <3>1 DEF Handle
    <3> QED BY <3>2 DEF c
  <2> HIDE DEF d
  <2>6. handle' \in [Ids -> Handle \union {Closed}] /\ handle'[f] = d /\ Others(f)
    BY <2>1, <2>5, HandleSet
  <2>7. TypeOK'
    BY <1>1, <2>1, <2>2, <2>6 DEF TypeOK, Astray
  <2> QED BY <1>1, <1>4, <2>1, <2>4, <2>5, <2>6, <2>7
<1> QED BY <1>3, <1>4

LEMMA StartEffect ==
  ASSUME TypeOK, NEW f \in Ids, NEW op \in {"read", "write"}, NEW n \in 1..MaxCount,
         Start(op, f, n)
  PROVE  /\ TypeOK' /\ ~wild /\ ~wild' /\ call = NoCall /\ IsOpen(f)
         /\ UNCHANGED <<inodes, free_blocks, disk_inodes, disk_free, disk, handle, written,
                        dropped>>
         /\ call' = [op |-> op, file |-> f, left |-> n] /\ call' # NoCall
         /\ call'.op = op /\ call'.file = f
<1>1. call' = [op |-> op, file |-> f, left |-> n]
  BY DEF Start
<1>2. call' \in Call /\ call'.op = op /\ call'.file = f
  BY <1>1, SizeAssumption DEF Call
<1>3. call' # NoCall
  BY <1>2 DEF NoCall
<1> QED BY <1>1, <1>2, <1>3 DEF Start, Idle, TypeOK

LEMMA InWrite ==
  ASSUME TypeOK, Sound, In("write")
  PROVE  /\ call.file \in Ids /\ IsOpen(call.file) /\ ~wild /\ call # NoCall
         /\ Writing(call.file) /\ \A g \in Ids : Writing(g) <=> g = call.file
BY CallsAreOpen DEF Sound, In, Writing

LEMMA InRead ==
  ASSUME TypeOK, Sound, In("read")
  PROVE  /\ call.file \in Ids /\ IsOpen(call.file) /\ ~wild /\ call # NoCall
         /\ \A g \in Ids : ~Writing(g)
BY CallsAreOpen DEF Sound, In, Writing

\* Where the position is when the loop turns to the next block: at its first byte.
LEMMA Turned ==
  ASSUME TypeOK, Sound, NEW f \in Ids, IsOpen(f), Turning(handle[f])
  PROVE  /\ handle[f].pos = PerBlock * (handle[f].block + 1)
         /\ handle[f].pos \div PerBlock = handle[f].block + 1
         /\ handle[f].pos < FileSize => handle[f].block + 1 \in Entries
<1> DEFINE p == handle[f].pos
           b == handle[f].block
<1>1. p \in Nat /\ b \in Nat
  BY HandleFields DEF Entries
<1>2. PerBlock * b <= p /\ p <= PerBlock * b + PerBlock
  BY DEF Sound, HandlesInv, HandleFits
<1>3. p \div PerBlock > b
  BY DEF Turning
<1> HIDE DEF p, b
<1>4. ~(p < PerBlock * b + PerBlock)
  BY <1>1, <1>2, <1>3, BlockOf
<1>5. /\ PerBlock * (b + 1) = PerBlock * b + PerBlock /\ PerBlock * b \in Nat
      /\ PerBlock * (b + 1) \in Nat /\ PerBlock \in Nat \ {0}
  BY <1>1, BlocksInOrder, SizeAssumption
<1>6. p = PerBlock * (b + 1)
  BY <1>1, <1>2, <1>4, <1>5
<1>7. p \div PerBlock = b + 1
  BY <1>1, <1>5, <1>6, BlockOf
<1>8. p < FileSize => b + 1 \in Entries
  <2>1. MaxBlocks \in Nat \ {0} /\ FileSize = PerBlock * MaxBlocks
    BY SizeAssumption DEF FileSize
  <2>2. MaxBlocks <= b + 1 => PerBlock * MaxBlocks <= PerBlock * (b + 1)
    BY <1>1, <2>1, BlocksInOrder
  <2>3. PerBlock * MaxBlocks \in Nat
    BY <2>1, SizeAssumption
  <2> QED BY <1>1, <1>5, <1>6, <2>1, <2>2, <2>3 DEF Entries
<1> QED BY <1>6, <1>7, <1>8 DEF p, b

LEMMA TurnToNextEffect ==
  ASSUME TypeOK, Sound, TurnToNext
  PROVE  LET f == call.file
             h == handle[f]
         IN  /\ TypeOK' /\ f \in Ids /\ IsOpen(f) /\ ~wild /\ call # NoCall /\ Writing(f)
             /\ UNCHANGED <<inodes, free_blocks, disk_inodes, disk_free, call, written, dropped>>
             /\ Others(f) /\ handle'[f] \in Handle /\ handle'[f].inode = h.inode
             /\ handle'[f].index = h.index /\ handle'[f].pos = h.pos
             /\ h.pos = PerBlock * (h.block + 1)
             /\ handle'[f].block = h.block + 1 /\ h.block + 1 \in Parts(h.inode)
             /\ handle'[f].cache = disk[h.index[h.block + 1]] /\ handle'[f].dirty = FALSE
             /\ h.block \in Parts(h.inode)
             /\ WroteBack(h)
<1> DEFINE f == call.file
           h == handle[f]
           d == [h EXCEPT !.block = @ + 1, !.cache = disk[h.index[h.block + 1]], !.dirty = FALSE]
<1>1. f \in Ids /\ IsOpen(f) /\ ~wild /\ call # NoCall /\ Writing(f)
  BY InWrite DEF TurnToNext
<1>2. /\ More(h) /\ Turning(h) /\ h.block + 1 < inodes[h.inode].num_block
      /\ disk' = Flushed(h) /\ wild' = Astray(h)
      /\ handle' = [handle EXCEPT ![f] = d]
      /\ UNCHANGED <<inodes, free_blocks, disk_inodes, disk_free, call, written, dropped>>
  BY DEF TurnToNext
<1>3. /\ h \in Handle /\ h.inode \in Live /\ FileShaped(h.inode) /\ h.block \in Entries
      /\ Parts(h.inode) \subseteq Entries
      /\ \A k \in Parts(h.inode) : h.index[k] \in Blocks \ Reserved /\ h.index[k] # Junk
                                   /\ disk[h.index[k]] \in DataBlock
  BY <1>1, OpenFile
<1>4. h.block \in Parts(h.inode) /\ h.block + 1 \in Parts(h.inode)
  <2>1. h.block \in Nat /\ inodes[h.inode].num_block \in Nat
    BY <1>3, SizeAssumption DEF Entries, FileShaped
  <2> HIDE DEF h
  <2> QED BY <1>2, <2>1 DEF Parts
<1>5. ~Astray(h)
  BY <1>3, <1>4 DEF Astray
<1>6. DOMAIN disk' = Blocks /\ WroteBack(h) /\ wild' \in BOOLEAN
  BY <1>1, <1>2, <1>4, <1>5, FlushedBlock DEF WroteBack, Astray
<1>7. h.pos = PerBlock * (h.block + 1)
  BY <1>1, <1>2, Turned
<1>8. /\ d \in Handle /\ d.inode = h.inode /\ d.pos = h.pos /\ d.block = h.block + 1
      /\ d.index = h.index /\ d.cache = disk[h.index[h.block + 1]] /\ d.dirty = FALSE
  <2>1. h.block + 1 \in Entries /\ disk[h.index[h.block + 1]] \in DataBlock
    BY <1>3, <1>4
  <2> HIDE DEF h
  <2> QED BY <1>3, <2>1 DEF Handle
<1> HIDE DEF d
<1>9. handle' \in [Ids -> Handle \union {Closed}] /\ handle'[f] = d /\ Others(f)
  BY <1>1, <1>2, <1>8, HandleSet
<1>10. TypeOK'
  BY <1>2, <1>6, <1>9 DEF TypeOK
<1> QED BY <1>1, <1>2, <1>4, <1>6, <1>7, <1>8, <1>9, <1>10

\* The block that a file gets when it grows. Nothing is cached of it yet.
LEMMA TurnToNewEffect ==
  ASSUME TypeOK, Sound, TurnToNew
  PROVE  LET f == call.file
             h == handle[f]
             i == h.inode
             m == h.block + 1
         IN  /\ TypeOK' /\ f \in Ids /\ IsOpen(f) /\ ~wild /\ call # NoCall /\ Writing(f)
             /\ UNCHANGED <<call, written, dropped>>
             /\ disk_inodes' = inodes' /\ disk_free' = free_blocks'
             /\ Others(f) /\ handle'[f] \in Handle /\ handle'[f].inode = i
             /\ handle'[f].pos = h.pos /\ h.pos = PerBlock * m
             /\ handle'[f].block = m /\ m \in Entries
             /\ handle'[f].cache = h.cache /\ handle'[f].dirty = FALSE
             /\ \A j \in Slots : j # i => inodes'[j] = inodes[j]
             /\ inodes'[i].id = inodes[i].id /\ inodes'[i].is_free = inodes[i].is_free
             /\ inodes'[i].size = inodes[i].size /\ inodes'[i].index = inodes[i].index
             /\ inodes'[i].num_block = inodes[i].num_block + 1
             /\ \E b \in free_blocks :
                  /\ free_blocks' = free_blocks \ {b}
                  /\ handle'[f].index = [h.index EXCEPT ![m] = b]
                  /\ ~wild' => /\ m = inodes[i].num_block /\ h.block \in Parts(i)
                               /\ \A c \in Blocks : disk'[c] =
                                    IF c = Ix(i) THEN handle'[f].index
                                    ELSE IF c = h.index[h.block] THEN h.cache ELSE disk[c]
<1> DEFINE f == call.file
           h == handle[f]
           i == h.inode
           m == h.block + 1
           d(b) == [h EXCEPT !.block = @ + 1, !.index[h.block + 1] = b, !.dirty = FALSE]
<1>1. f \in Ids /\ IsOpen(f) /\ ~wild /\ call # NoCall /\ Writing(f)
  BY InWrite DEF TurnToNew
<1>2. /\ More(h) /\ Turning(h) /\ h.block + 1 >= inodes[i].num_block
      /\ disk' = [Flushed(h) EXCEPT ![inodes[i].index] = handle'[f].index]
      /\ wild' = Astray(h)
      /\ inodes' = [inodes EXCEPT ![i].num_block = @ + 1]
      /\ disk_free' = free_blocks' /\ disk_inodes' = inodes'
      /\ UNCHANGED <<call, written, dropped>>
  BY DEF TurnToNew
<1>3. PICK b \in Blocks : /\ IsFirst(b, free_blocks) /\ free_blocks' = free_blocks \ {b}
                          /\ handle' = [handle EXCEPT ![f] = d(b)]
  BY DEF TurnToNew
<1>4. /\ h \in Handle /\ i \in Live /\ i \in Slots /\ FileShaped(i) /\ h.block \in Entries
      /\ h.index \in IndexBlock
  BY <1>1, OpenFile
<1>5. b \in free_blocks
  BY <1>3 DEF IsFirst
<1>6. h.pos = PerBlock * m /\ m \in Entries
  BY <1>1, <1>2, Turned DEF More
<1>7. /\ d(b) \in Handle /\ d(b).inode = i /\ d(b).pos = h.pos /\ d(b).block = m
      /\ d(b).index = [h.index EXCEPT ![m] = b] /\ d(b).cache = h.cache /\ d(b).dirty = FALSE
  <2>1. [h.index EXCEPT ![m] = b] \in IndexBlock
    BY <1>3, <1>4 DEF IndexBlock
  <2> HIDE DEF h
  <2> QED BY <1>4, <1>6, <2>1 DEF Handle
<1> HIDE DEF d
<1>8. handle' \in [Ids -> Handle \union {Closed}] /\ handle'[f] = d(b) /\ Others(f)
  BY <1>1, <1>3, <1>7, HandleSet
<1>9. /\ inodes' \in [Slots -> Inode] /\ \A j \in Slots : j # i => inodes'[j] = inodes[j]
      /\ inodes'[i].id = inodes[i].id /\ inodes'[i].is_free = inodes[i].is_free
      /\ inodes'[i].size = inodes[i].size /\ inodes'[i].index = inodes[i].index
      /\ inodes'[i].num_block = inodes[i].num_block + 1
  <2>1. inodes[i] \in Inode
    BY <1>4, InodeFields
  <2> DEFINE n == [inodes[i] EXCEPT !.num_block = @ + 1]
  <2> HIDE DEF i
  <2>2. /\ n \in Inode /\ n.id = inodes[i].id /\ n.is_free = inodes[i].is_free
        /\ n.size = inodes[i].size /\ n.index = inodes[i].index
        /\ n.num_block = inodes[i].num_block + 1
    BY <2>1 DEF Inode
  <2> HIDE DEF n
  <2>3. inodes' = [inodes EXCEPT ![i] = n]
    BY <1>2 DEF n
  <2> QED BY <1>4, <2>2, <2>3 DEF TypeOK
<1>10. /\ DOMAIN Flushed(h) = Blocks
       /\ ~Astray(h) => /\ h.block \in Parts(i) /\ h.index[h.block] \in Blocks
                        /\ \A c \in Blocks : Flushed(h)[c] =
                             IF c = h.index[h.block] THEN h.cache ELSE disk[c]
  BY <1>1, FlushedBlock
<1>11. DOMAIN disk' = Blocks /\ wild' \in BOOLEAN
  BY <1>2, <1>10 DEF Astray
<1>12. TypeOK'
  BY <1>2, <1>3, <1>8, <1>9, <1>11 DEF TypeOK
<1>13. ASSUME ~wild'
       PROVE  /\ m = inodes[i].num_block /\ h.block \in Parts(i)
              /\ \A c \in Blocks : disk'[c] =
                   IF c = Ix(i) THEN handle'[f].index
                   ELSE IF c = h.index[h.block] THEN h.cache ELSE disk[c]
  <2>1. /\ h.block \in Parts(i)
        /\ \A c \in Blocks : Flushed(h)[c] = IF c = h.index[h.block] THEN h.cache ELSE disk[c]
    BY <1>2, <1>10, <1>13
  <2>2. m = inodes[i].num_block
    <3>1. h.block \in Nat /\ inodes[i].num_block \in Nat
      BY <1>4, SizeAssumption DEF Entries, FileShaped
    <3> HIDE DEF h, i
    <3> QED BY <1>2, <2>1, <3>1 DEF Parts
  <2>3. \A c \in Blocks : disk'[c] = IF c = Ix(i) THEN handle'[f].index ELSE Flushed(h)[c]
    BY <1>2, <1>10 DEF Ix
  <2> QED BY <2>1, <2>2, <2>3
<1> QED BY <1>1, <1>2, <1>3, <1>5, <1>6, <1>7, <1>8, <1>9, <1>12, <1>13

\* A Write that gets no block leaves its handle behind the last one.
LEMMA TurnFailsEffect ==
  ASSUME TypeOK, Sound, TurnFails
  PROVE  LET f == call.file
             h == handle[f]
         IN  /\ TypeOK' /\ f \in Ids /\ IsOpen(f) /\ ~wild /\ call # NoCall
             /\ UNCHANGED <<inodes, free_blocks, disk_inodes, disk_free, written, dropped>>
             /\ call' = NoCall
             /\ Others(f) /\ handle'[f] \in Handle /\ handle'[f].inode = h.inode
             /\ handle'[f].index = h.index /\ handle'[f].pos = h.pos
             /\ h.pos = PerBlock * (h.block + 1)
             /\ handle'[f].block = h.block + 1 /\ h.block + 1 >= inodes[h.inode].num_block
             /\ ~wild' => WroteBack(h)
<1> DEFINE f == call.file
           h == handle[f]
           d == [h EXCEPT !.block = @ + 1]
<1>1. f \in Ids /\ IsOpen(f) /\ ~wild /\ call # NoCall
  BY InWrite DEF TurnFails
<1>2. /\ More(h) /\ Turning(h) /\ h.block + 1 >= inodes[h.inode].num_block
      /\ disk' = Flushed(h) /\ wild' = Astray(h) /\ call' = NoCall
      /\ handle' = [handle EXCEPT ![f] = d]
      /\ UNCHANGED <<inodes, free_blocks, disk_inodes, disk_free, written, dropped>>
  BY DEF TurnFails
<1>3. h \in Handle
  BY <1>1, OpenFile
<1>4. h.pos = PerBlock * (h.block + 1) /\ h.block + 1 \in Entries
  BY <1>1, <1>2, Turned DEF More
<1>5. /\ d \in Handle /\ d.inode = h.inode /\ d.pos = h.pos /\ d.block = h.block + 1
      /\ d.index = h.index
  <2> HIDE DEF h
  <2> QED BY <1>3, <1>4 DEF Handle
<1> HIDE DEF d
<1>6. handle' \in [Ids -> Handle \union {Closed}] /\ handle'[f] = d /\ Others(f)
  BY <1>1, <1>2, <1>5, HandleSet
<1>7. DOMAIN disk' = Blocks /\ wild' \in BOOLEAN /\ (~wild' => WroteBack(h))
  BY <1>1, <1>2, FlushedBlock DEF WroteBack, Astray
<1>8. TypeOK'
  BY <1>2, <1>6, <1>7 DEF TypeOK
<1> QED BY <1>1, <1>2, <1>4, <1>5, <1>6, <1>7, <1>8

\* One byte goes to the cached block.
LEMMA PutEffect ==
  ASSUME TypeOK, Sound, NEW v \in Values, Put(v)
  PROVE  LET f == call.file
             h == handle[f]
         IN  /\ TypeOK' /\ f \in Ids /\ IsOpen(f) /\ ~wild /\ ~wild' /\ call # NoCall
             /\ Writing(f)
             /\ UNCHANGED <<inodes, free_blocks, disk_inodes, disk_free, disk, dropped>>
             /\ call' # NoCall /\ call'.op = "write" /\ call'.file = f
             /\ Others(f) /\ handle'[f] \in Handle /\ handle'[f].inode = h.inode
             /\ handle'[f].index = h.index /\ handle'[f].pos = h.pos + 1
             /\ h.pos < PerBlock * h.block + PerBlock
             /\ h.pos \div PerBlock = h.block
             /\ handle'[f].block = h.block /\ handle'[f].dirty = TRUE
             /\ h.pos % PerBlock \in Bytes
             /\ handle'[f].cache = [h.cache EXCEPT ![h.pos % PerBlock] = v]
             /\ \A g \in Ids : g # f => written'[g] = written[g]
             /\ written'[f] = IF h.pos < Len(written[f])
                                THEN [written[f] EXCEPT ![h.pos + 1] = v]
                                ELSE Append(written[f], v)
<1> DEFINE f == call.file
           h == handle[f]
           w == IF h.pos < Len(written[f]) THEN [written[f] EXCEPT ![h.pos + 1] = v]
                                           ELSE Append(written[f], v)
           c == [h.cache EXCEPT ![h.pos % PerBlock] = v]
           d == [h EXCEPT !.cache[Byte(h)] = v, !.pos = @ + 1, !.dirty = TRUE]
<1>1. f \in Ids /\ IsOpen(f) /\ ~wild /\ call # NoCall /\ Writing(f)
  BY InWrite DEF Put
<1>2. /\ More(h) /\ ~Turning(h)
      /\ handle' = [handle EXCEPT ![f] = d]
      /\ written' = [written EXCEPT ![f] = w]
      /\ call' = [call EXCEPT !.left = @ - 1]
      /\ UNCHANGED <<inodes, free_blocks, disk_inodes, disk_free, disk, dropped, wild>>
  BY DEF Put
<1>3. /\ h \in Handle /\ h.pos \in Nat /\ h.block \in Nat /\ h.cache \in DataBlock
  BY <1>1, OpenFile DEF Entries
<1>4. /\ PerBlock * h.block <= h.pos /\ h.pos <= PerBlock * h.block + PerBlock
  BY <1>1 DEF Sound, HandlesInv, HandleFits
<1>5. h.pos % PerBlock \in Bytes /\ h.pos \div PerBlock \in Nat
  BY <1>3, Division
<1>6. h.pos \div PerBlock = h.block
  <2> HIDE DEF h
  <2>1. ~(h.pos \div PerBlock > h.block)
    BY <1>2 DEF Turning
  <2>2. /\ PerBlock * (h.pos \div PerBlock) <= h.pos
        /\ h.pos < PerBlock * (h.pos \div PerBlock) + PerBlock
    BY <1>3, <1>5, BlockOf
  <2>3. h.pos \div PerBlock < h.block
          => PerBlock * (h.pos \div PerBlock) + PerBlock <= PerBlock * h.block
    BY <1>3, <1>5, BlocksInOrder
  <2> DEFINE q == h.pos \div PerBlock
  <2>4. PerBlock * q \in Nat /\ PerBlock * h.block \in Nat /\ PerBlock \in Nat
    BY <1>3, <1>5, BlocksInOrder, SizeAssumption
  <2> HIDE DEF q
  <2>5. ~(q < h.block) /\ ~(q > h.block)
    BY <1>3, <1>4, <2>1, <2>2, <2>3, <2>4 DEF q
  <2> QED BY <1>3, <1>5, <2>5 DEF q
<1>7. h.pos < PerBlock * h.block + PerBlock
  <2> HIDE DEF h
  <2> QED BY <1>3, <1>6, BlockOf
<1>8. c \in DataBlock
  <2> HIDE DEF h
  <2> QED BY <1>3, <1>5 DEF DataBlock
<1>9. /\ d \in Handle /\ d.inode = h.inode /\ d.pos = h.pos + 1 /\ d.block = h.block
      /\ d.index = h.index /\ d.cache = c /\ d.dirty = TRUE
  <2> DEFINE n == h.pos + 1
  <2>1. [h.cache EXCEPT ![Byte(h)] = v] = c /\ n \in Nat
    BY <1>3 DEF Byte
  <2>2. d = [h EXCEPT !.cache[Byte(h)] = v, !.pos = n, !.dirty = TRUE]
    OBVIOUS
  <2> HIDE DEF h, c, d, n
  <2>3. /\ d \in Handle /\ d.inode = h.inode /\ d.pos = n /\ d.block = h.block
        /\ d.index = h.index /\ d.cache = c /\ d.dirty = TRUE
    BY <1>3, <1>8, <2>1, <2>2 DEF Handle
  <2> QED BY <2>3 DEF n
<1> HIDE DEF d
<1>10. handle' \in [Ids -> Handle \union {Closed}] /\ handle'[f] = d /\ Others(f)
  BY <1>1, <1>2, <1>9, HandleSet
<1>11. w \in Seq(Values)
  <2>1. written[f] \in Seq(Values)
    BY <1>1 DEF TypeOK
  <2> HIDE DEF f, h
  <2>2. h.pos < Len(written[f]) => h.pos + 1 \in 1..Len(written[f])
    BY <1>3, <2>1
  <2>3. h.pos < Len(written[f]) => [written[f] EXCEPT ![h.pos + 1] = v] \in Seq(Values)
    BY <2>1, <2>2, ExceptSeq
  <2> QED BY <2>1, <2>3
<1>12. /\ written' \in [Ids -> Seq(Values)] /\ written'[f] = w
       /\ \A g \in Ids : g # f => written'[g] = written[g]
  <2> HIDE DEF w
  <2> QED BY <1>1, <1>2, <1>11 DEF TypeOK
<1>13. /\ call' \in Call /\ call' # NoCall /\ call'.op = "write" /\ call'.file = f
  <2>1. call \in Call /\ call.op = "write" /\ call.left \in Nat /\ call.left > 0
    BY <1>1, <1>2, CallFields DEF Writing, More
  <2>2. call' \in Call /\ call'.op = call.op /\ call'.file = call.file
    BY <1>2, <2>1 DEF Call
  <2> QED BY <2>1, <2>2 DEF NoCall
<1>14. TypeOK'
  BY <1>1, <1>2, <1>10, <1>12, <1>13 DEF TypeOK
<1> QED BY <1>1, <1>2, <1>5, <1>6, <1>7, <1>9, <1>10, <1>12, <1>13, <1>14

LEMMA EndWriteEffect ==
  ASSUME TypeOK, Sound, EndWrite
  PROVE  LET f == call.file
             h == handle[f]
             i == h.inode
         IN  /\ TypeOK' /\ f \in Ids /\ IsOpen(f) /\ ~wild /\ ~wild' /\ call # NoCall
             /\ Writing(f) /\ i \in Live /\ inodes[i].id = f
             /\ UNCHANGED <<free_blocks, disk_inodes, disk_free, disk, handle, written, dropped>>
             /\ call' = NoCall
             /\ \A j \in Slots : j # i => inodes'[j] = inodes[j]
             /\ inodes'[i] = [inodes[i] EXCEPT !.size = Larger(h.pos, inodes[i].size)]
             /\ inodes'[i].id = inodes[i].id /\ inodes'[i].is_free = inodes[i].is_free
             /\ inodes'[i].num_block = inodes[i].num_block
             /\ inodes'[i].index = inodes[i].index
             /\ inodes'[i].size = Larger(h.pos, inodes[i].size)
<1> DEFINE f == call.file
           h == handle[f]
           i == h.inode
           n == [inodes[i] EXCEPT !.size = Larger(h.pos, inodes[i].size)]
<1>1. f \in Ids /\ IsOpen(f) /\ ~wild /\ call # NoCall /\ Writing(f)
  BY InWrite DEF EndWrite
<1>2. /\ inodes' = [inodes EXCEPT ![i] = n] /\ call' = NoCall
      /\ UNCHANGED <<free_blocks, disk_inodes, disk_free, disk, handle, written, dropped, wild>>
  BY DEF EndWrite, Larger
<1>3. h.pos \in Nat /\ i \in Live /\ i \in Slots /\ inodes[i].id = f
  BY <1>1, OpenFile
<1>4. inodes[i] \in Inode /\ inodes[i].size \in Nat
  BY <1>3, InodeFields
<1>5. /\ n \in Inode /\ n.id = inodes[i].id /\ n.is_free = inodes[i].is_free
      /\ n.num_block = inodes[i].num_block /\ n.index = inodes[i].index
      /\ n.size = Larger(h.pos, inodes[i].size)
  <2>1. Larger(h.pos, inodes[i].size) \in Nat
    BY <1>3, <1>4 DEF Larger
  <2> HIDE DEF h, i
  <2> QED BY <1>4, <2>1 DEF Inode
<1> HIDE DEF n
<1>6. /\ inodes' \in [Slots -> Inode] /\ inodes'[i] = n
      /\ \A j \in Slots : j # i => inodes'[j] = inodes[j]
  BY <1>2, <1>3, <1>5 DEF TypeOK
<1>7. TypeOK'
  BY <1>2, <1>6 DEF TypeOK
<1> QED BY <1>1, <1>2, <1>3, <1>5, <1>6, <1>7 DEF n

\* One byte is read, of the cached block or of the next one.
LEMMA GetEffect ==
  ASSUME TypeOK, Sound, Get
  PROVE  LET f == call.file
             h == handle[f]
         IN  /\ TypeOK' /\ f \in Ids /\ IsOpen(f) /\ ~wild /\ call # NoCall
             /\ \A g \in Ids : ~Writing(g)
             /\ UNCHANGED <<inodes, free_blocks, disk_inodes, disk_free, disk, written>>
             /\ call' # NoCall /\ call'.op = "read" /\ call'.file = f
             /\ h.pos # inodes[h.inode].size
             /\ wild' => handle' = handle
             /\ ~wild' => /\ Others(f) /\ handle'[f] \in Handle /\ handle'[f].inode = h.inode
                          /\ handle'[f].index = h.index /\ handle'[f].pos = h.pos + 1
             /\ ~wild' => \/ /\ ~Turning(h) /\ dropped' = dropped
                             /\ handle'[f].block = h.block /\ handle'[f].cache = h.cache
                             /\ handle'[f].dirty = h.dirty
                          \/ /\ Turning(h) /\ h.pos = PerBlock * (h.block + 1)
                             /\ handle'[f].block = h.block + 1
                             /\ h.block + 1 \in Parts(h.inode)
                             /\ handle'[f].cache = disk[h.index[h.block + 1]]
                             /\ handle'[f].dirty = FALSE
                             /\ dropped' = IF h.dirty THEN dropped \union {f} ELSE dropped
<1> DEFINE f == call.file
           h == handle[f]
           next == h.pos \div PerBlock
<1>1. f \in Ids /\ IsOpen(f) /\ ~wild /\ call # NoCall /\ \A g \in Ids : ~Writing(g)
  BY InRead DEF Get
<1>2. /\ call' = [call EXCEPT !.left = @ - 1] /\ call.left > 0 /\ ~EoF(h) /\ call.op = "read"
      /\ UNCHANGED <<inodes, free_blocks, disk_inodes, disk_free, disk, written>>
  BY DEF Get, In
<1>3. call' \in Call /\ call' # NoCall /\ call'.op = "read" /\ call'.file = f
  <2>1. call \in Call /\ call.left \in Nat
    BY <1>1, CallFields
  <2>2. call' \in Call /\ call'.op = call.op /\ call'.file = call.file
    BY <1>2, <2>1 DEF Call
  <2> QED BY <1>2, <2>1, <2>2 DEF NoCall
<1>4. /\ h \in Handle /\ h.inode \in Live /\ h.block \in Entries /\ h.pos \in Nat
      /\ Parts(h.inode) \subseteq Entries
      /\ \A k \in Entries : h.index[k] # Junk => k \in Parts(h.inode)
      /\ \A k \in Parts(h.inode) : disk[h.index[k]] \in DataBlock
  BY <1>1, OpenFile
<1>5. h.pos # inodes[h.inode].size
  BY <1>2 DEF EoF
<1>6. CASE ~Turning(h)
  <2> DEFINE n == h.pos + 1
             d == [h EXCEPT !.pos = n]
  <2>1. /\ handle' = [handle EXCEPT ![f] = d] /\ UNCHANGED <<dropped, wild>>
    BY <1>6 DEF Get
  <2>2. n \in Nat
    BY <1>4
  <2> HIDE DEF n
  <2>3. /\ d \in Handle /\ d.inode = h.inode /\ d.pos = n /\ d.block = h.block
        /\ d.index = h.index /\ d.cache = h.cache /\ d.dirty = h.dirty
    <3> HIDE DEF h
    <3> QED BY <1>4, <2>2 DEF Handle
  <2> HIDE DEF d
  <2>4. handle' \in [Ids -> Handle \union {Closed}] /\ handle'[f] = d /\ Others(f)
    BY <1>1, <2>1, <2>3, HandleSet
  <2>5. TypeOK'
    BY <1>2, <1>3, <2>1, <2>4 DEF TypeOK
  <2> QED BY <1>1, <1>2, <1>3, <1>5, <1>6, <2>1, <2>3, <2>4, <2>5 DEF n
<1>7. CASE Turning(h) /\ (next >= MaxBlocks \/ h.index[next] = Junk)
  <2>1. wild' = TRUE /\ UNCHANGED <<handle, dropped>>
    BY <1>7 DEF Get
  <2>2. TypeOK'
    BY <1>2, <1>3, <2>1 DEF TypeOK
  <2> QED BY <1>1, <1>2, <1>3, <1>5, <2>1, <2>2
<1>8. CASE Turning(h) /\ ~(next >= MaxBlocks \/ h.index[next] = Junk)
  <2> DEFINE n == h.pos + 1
             c == disk[h.index[next]]
             d == [h EXCEPT !.block = next, !.cache = c, !.dirty = FALSE, !.pos = n]
  <2>1. /\ handle' = [handle EXCEPT ![f] = d] /\ wild' = wild
        /\ dropped' = IF h.dirty THEN dropped \union {f} ELSE dropped
    BY <1>8 DEF Get
  <2>2. n \in Nat
    BY <1>4
  <2>3. h.pos = PerBlock * (h.block + 1) /\ next = h.block + 1
    BY <1>1, <1>8, Turned
  <2>4. next \in Entries /\ next \in Parts(h.inode) /\ c \in DataBlock
    <3>1. h.block \in Nat /\ MaxBlocks \in Nat /\ ~(next >= MaxBlocks) /\ h.index[next] # Junk
      BY <1>4, <1>8, SizeAssumption DEF Entries
    <3> HIDE DEF h, next
    <3>2. next \in Entries
      BY <2>3, <3>1 DEF Entries
    <3> QED BY <1>4, <3>1, <3>2
  <2> HIDE DEF n, c, next
  <2>5. /\ d \in Handle /\ d.inode = h.inode /\ d.pos = n /\ d.block = next
        /\ d.index = h.index /\ d.cache = c /\ d.dirty = FALSE
    <3> HIDE DEF h
    <3> QED BY <1>4, <2>2, <2>4 DEF Handle
  <2> HIDE DEF d
  <2>6. handle' \in [Ids -> Handle \union {Closed}] /\ handle'[f] = d /\ Others(f)
    BY <1>1, <2>1, <2>5, HandleSet
  <2>7. TypeOK'
    BY <1>1, <1>2, <1>3, <2>1, <2>6 DEF TypeOK
  <2> QED BY <1>1, <1>2, <1>3, <1>5, <1>8, <2>1, <2>3, <2>4, <2>5, <2>6, <2>7 DEF n, c
<1> QED BY <1>6, <1>7, <1>8

LEMMA EndReadEffect ==
  ASSUME TypeOK, Sound, EndRead
  PROVE  /\ TypeOK' /\ ~wild /\ ~wild' /\ call' = NoCall /\ \A g \in Ids : ~Writing(g)
         /\ UNCHANGED <<inodes, free_blocks, disk_inodes, disk_free, disk, handle, written,
                        dropped>>
<1>1. ~wild /\ \A g \in Ids : ~Writing(g)
  BY InRead DEF EndRead
<1> QED BY <1>1 DEF EndRead, In, TypeOK

----------------------------------------------------------------------------
\* Steps that leave the shape of the files alone, and write data at most.
SameShape ==
  /\ free_blocks' = free_blocks
  /\ \A i \in Slots : /\ inodes'[i].is_free = inodes[i].is_free
                      /\ inodes'[i].id = inodes[i].id
                      /\ inodes'[i].num_block = inodes[i].num_block
                      /\ inodes'[i].index = inodes[i].index

DataWritten ==
  \A b \in Blocks :
    disk'[b] = disk[b] \/ (disk'[b] \in DataBlock /\ \E i \in Live : \E k \in Parts(i) : b = Entry(i, k))

LEMMA OwnedBlocks ==
  ASSUME NEW i \in Live
  PROVE  Ix(i) \in Owned(i) /\ \A k \in Parts(i) : Entry(i, k) \in Owned(i)
BY DEF Owned, Ix, Entry, Parts

LEMMA IndexIsNoData ==
  ASSUME BlocksInv, NEW i \in Live, NEW j \in Live, NEW k \in Parts(j)
  PROVE  Ix(i) # Entry(j, k)
<1>1. CASE i = j
  BY <1>1 DEF BlocksInv, FileShaped
<1>2. CASE i # j
  BY <1>2, OwnedBlocks DEF BlocksInv
<1> QED BY <1>1, <1>2

LEMMA ShapeKept ==
  ASSUME TypeOK, BlocksInv, NamesInv, SameShape, DataWritten
  PROVE  /\ BlocksInv' /\ NamesInv' /\ Live' = Live
         /\ \A i \in Live : /\ Ix(i)' = Ix(i) /\ disk'[Ix(i)] = disk[Ix(i)]
                            /\ Parts(i)' = Parts(i)
<1>1. Live' = Live
  BY DEF Live, SameShape
<1>2. \A i \in Live : i \in Slots /\ FileShaped(i)
  BY DEF Live, BlocksInv
<1>3. \A i \in Live : Ix(i)' = Ix(i) /\ Parts(i)' = Parts(i)
  BY <1>2 DEF SameShape, Ix, Parts
<1>4. \A i \in Live : Ix(i) \in Blocks /\ disk'[Ix(i)] = disk[Ix(i)]
  BY <1>2, IndexIsNoData DEF DataWritten, FileShaped
<1>5. \A i \in Live : Owned(i)' = Owned(i)
  <2> SUFFICES ASSUME NEW i \in Live PROVE Owned(i)' = Owned(i)
    OBVIOUS
  <2>1. /\ inodes'[i].index = inodes[i].index /\ inodes'[i].num_block = inodes[i].num_block
        /\ disk'[inodes[i].index] = disk[inodes[i].index]
    BY <1>2, <1>4 DEF SameShape, Ix
  <2> QED BY <2>1 DEF Owned
<1>6. \A b \in Blocks : disk[b] \in DataBlock => disk'[b] \in DataBlock
  BY DEF DataWritten
<1>7. \A i \in Live : FileShaped(i)'
  <2> SUFFICES ASSUME NEW i \in Live PROVE FileShaped(i)'
    OBVIOUS
  <2>1. /\ inodes'[i].id = inodes[i].id /\ inodes'[i].num_block = inodes[i].num_block
        /\ inodes'[i].index = inodes[i].index
        /\ disk'[inodes[i].index] = disk[inodes[i].index]
    BY <1>2, <1>4 DEF SameShape, Ix
  <2>2. FileShaped(i)
    BY <1>2
  <2>3. \A k \in Parts(i) : Entry(i, k) \in Blocks /\ disk'[Entry(i, k)] \in DataBlock
    BY <1>6, <2>2 DEF FileShaped
  <2> QED BY <2>1, <2>2, <2>3 DEF FileShaped, Ix, Entry, Parts
<1>8. \A b \in free_blocks' : disk'[b] \in DataBlock
  <2> SUFFICES ASSUME NEW b \in free_blocks PROVE disk'[b] \in DataBlock
    BY DEF SameShape
  <2>1. disk[b] \in DataBlock
    BY DEF BlocksInv
  <2>2. b \in Blocks
    BY DEF TypeOK
  <2> QED BY <1>6, <2>1, <2>2
<1>9. NamesInv'
  BY <1>1, <1>2 DEF NamesInv, SameShape
<1>10. BlocksInv'
  BY <1>1, <1>5, <1>7, <1>8 DEF BlocksInv, SameShape
<1> QED BY <1>1, <1>3, <1>4, <1>9, <1>10

----------------------------------------------------------------------------
\* The bytes of a file lie in its blocks.
LEMMA FileLength ==
  ASSUME TypeOK, Sound, NEW i \in Live, ~Failed(inodes[i].id)
  PROVE  LET f == inodes[i].id
         IN  /\ f \in Ids /\ Len(written[f]) \in Nat /\ LengthFits(i)
             /\ Len(written[f]) <= PerBlock * inodes[i].num_block
             /\ IsOpen(f) => handle[f].inode = i
<1> DEFINE f == inodes[i].id
           h == handle[f]
           s == inodes[i].size
           n == inodes[i].num_block
           w == Len(written[f])
<1>1. i \in Slots /\ FileShaped(i)
  BY DEF Live, Sound, BlocksInv
<1>2. f \in Ids /\ n \in Nat /\ s \in Nat
  BY <1>1, InodeFields DEF FileShaped
<1>3. LengthFits(i) /\ written[f] \in Seq(Values)
  BY <1>2 DEF Sound, LengthsInv, TypeOK
<1>4. w \in Nat
  BY <1>3
<1>5. IsOpen(f) => handle[f].inode = i
  BY <1>2 DEF Sound, HandlesInv, HandleFits, NamesInv
<1>6. s <= PerBlock * n /\ w = IF Writing(f) THEN Larger(s, h.pos) ELSE s
  BY <1>3 DEF LengthFits
<1>7. IsOpen(f) => h.pos \in Nat /\ h.pos <= PerBlock * n
  <2> SUFFICES ASSUME IsOpen(f) PROVE h.pos \in Nat /\ h.pos <= PerBlock * n
    OBVIOUS
  <2>1. h.pos \in Nat /\ h.block \in Nat
    BY <1>2, HandleFields DEF Entries
  <2>2. ~(h.block >= n)
    BY <1>5 DEF Failed
  <2>3. h.pos <= PerBlock * h.block + PerBlock
    BY <1>2 DEF Sound, HandlesInv, HandleFits
  <2> HIDE DEF h, n
  <2>4. /\ PerBlock * h.block \in Nat /\ PerBlock * n \in Nat
        /\ h.block < n => PerBlock * h.block + PerBlock <= PerBlock * n
    BY <1>2, <2>1, BlocksInOrder
  <2> QED BY <1>2, <2>1, <2>2, <2>3, <2>4, SizeAssumption
<1>8. Writing(f) => IsOpen(f)
  BY DEF Writing, Sound, HandlesInv
<1> HIDE DEF h, s, n, w, f
<1>9. w <= PerBlock * n
  BY <1>6, <1>7, <1>8 DEF Larger
<1> QED BY <1>2, <1>3, <1>4, <1>5, <1>9 DEF h, s, n, w, f

LEMMA BlockOfByte ==
  ASSUME NEW k \in Nat, NEW n \in Nat, k < PerBlock * n
  PROVE  k \div PerBlock \in 0..(n - 1)
<1> DEFINE q == k \div PerBlock
<1>1. q \in Nat /\ PerBlock * q \in Nat /\ PerBlock * q <= k
  BY Division, BlockOf
<1> HIDE DEF q
<1>2. PerBlock * n \in Nat /\ (n <= q => PerBlock * n <= PerBlock * q)
  BY <1>1, BlocksInOrder
<1> QED BY <1>1, <1>2 DEF q

LEMMA ByteInFile ==
  ASSUME TypeOK, Sound, NEW i \in Live, ~Failed(inodes[i].id),
         NEW k \in 0..(Len(written[inodes[i].id]) - 1)
  PROVE  /\ k \in Nat /\ k \div PerBlock \in Parts(i) /\ k \div PerBlock \in Entries
         /\ k % PerBlock \in Bytes
<1> DEFINE n == inodes[i].num_block
           w == Len(written[inodes[i].id])
<1>1. FileShaped(i)
  BY DEF Sound, BlocksInv
<1>2. n \in 1..MaxBlocks /\ MaxBlocks \in Nat
  BY <1>1, SizeAssumption DEF FileShaped
<1>3. w \in Nat /\ w <= PerBlock * n
  BY FileLength
<1> HIDE DEF n, w
<1>4. k \in Nat /\ k < w
  BY <1>3 DEF w
<1>5. PerBlock * n \in Nat
  BY <1>2, SizeAssumption
<1>6. k \div PerBlock \in 0..(n - 1)
  BY <1>2, <1>3, <1>4, <1>5, BlockOfByte
<1>7. k % PerBlock \in Bytes /\ k \div PerBlock \in Nat
  BY <1>4, Division
<1>8. k \div PerBlock \in Entries
  <2> DEFINE q == k \div PerBlock
  <2> HIDE DEF q
  <2>1. q \in 0..(n - 1) => q \in 0..(MaxBlocks - 1)
    BY <1>2
  <2> QED BY <1>6, <2>1 DEF q, Entries
<1> QED BY <1>4, <1>6, <1>7, <1>8 DEF n, Parts

----------------------------------------------------------------------------
\* Sound, file by file.
FileSound(i) ==
  LET f == inodes[i].id
  IN  /\ IsOpen(f) => HandleFits(f)
      /\ ~Failed(f) => LengthFits(i)
      /\ f \notin dropped /\ ~Failed(f) => BytesKept(i)

\* A file that a step does not touch stays sound.
LEMMA OtherFile ==
  ASSUME TypeOK, Sound, NEW j \in Live, inodes'[j] = inodes[j],
         handle'[inodes[j].id] = handle[inodes[j].id],
         written'[inodes[j].id] = written[inodes[j].id],
         Writing(inodes[j].id)' <=> Writing(inodes[j].id),
         inodes[j].id \in dropped => inodes[j].id \in dropped',
         \A b \in Owned(j) : disk'[b] = disk[b]
  PROVE  FileSound(j)'
<1> DEFINE g == inodes[j].id
<1>1. j \in Slots /\ FileShaped(j) /\ g \in Ids
  BY DEF Live, Sound, BlocksInv, FileShaped
<1>2. j \in Live'
  BY DEF Live
<1>3. IsOpen(g) => HandleFits(g) /\ handle[g].inode = j
  BY <1>1 DEF Sound, HandlesInv, HandleFits, NamesInv
<1>4. inodes'[j].id = g
  OBVIOUS
<1>5. Ix(j)' = Ix(j) /\ disk'[Ix(j)] = disk[Ix(j)]
  BY OwnedBlocks DEF Ix
<1> HIDE DEF g
<1>6. IsOpen(g)' <=> IsOpen(g)
  BY DEF IsOpen, g
<1>7. IsOpen(g) => HandleFits(g)'
  BY <1>2, <1>3, <1>4, <1>5, <1>6 DEF HandleFits, g
<1>8. Failed(g)' <=> Failed(g)
  BY <1>3, <1>6 DEF Failed, g
<1>9. ~Failed(g) => LengthFits(j)'
  <2>1. ~Failed(g) => LengthFits(j)
    BY FileLength DEF g
  <2> QED BY <1>4, <1>6, <2>1 DEF LengthFits, g
<1>10. ASSUME g \notin dropped, ~Failed(g) PROVE BytesKept(j)'
  <2>1. BytesKept(j)
    BY <1>10 DEF Sound, ContentInv, g
  <2>2. \A k \in 0..(Len(written[g]) - 1) : OnDisk(j, k)' = OnDisk(j, k)
    <3> SUFFICES ASSUME NEW k \in 0..(Len(written[g]) - 1)
                 PROVE  OnDisk(j, k)' = OnDisk(j, k)
      OBVIOUS
    <3>1. k \div PerBlock \in Parts(j)
      BY <1>10, ByteInFile DEF g
    <3>2. Entry(j, k \div PerBlock)' = Entry(j, k \div PerBlock)
      BY <1>5 DEF Entry, Ix
    <3>3. disk'[Entry(j, k \div PerBlock)] = disk[Entry(j, k \div PerBlock)]
      BY <3>1, OwnedBlocks
    <3> QED BY <3>2, <3>3 DEF OnDisk
  <2>3. \A k : InCache(g, k)' <=> InCache(g, k)
    BY <1>6 DEF InCache, g
  <2> QED BY <1>4, <2>1, <2>2, <2>3 DEF BytesKept, g
<1> QED BY <1>4, <1>6, <1>7, <1>8, <1>9, <1>10 DEF FileSound, g

LEMMA SoundFiles ==
  ASSUME TypeOK, Sound, NEW i \in Live
  PROVE  FileSound(i)
BY DEF Sound, BlocksInv, FileShaped, HandlesInv, LengthsInv, ContentInv, FileSound

\* Where a step has to arrive.
Arrives ==
  /\ BlocksInv' /\ NamesInv'
  /\ \A i \in Live' : FileSound(i)'
  /\ \A f \in Ids : IsOpen(f)' => Exists(f)'
  /\ \A f \in Ids : ~Exists(f)' => written'[f] = <<>>
  /\ (call # NoCall => IsOpen(call.file))'

LEMMA SoundNext ==
  ASSUME Arrives
  PROVE  Sound'
<1>1. HandlesInv'
  <2> SUFFICES ASSUME NEW f \in Ids, IsOpen(f)' PROVE HandleFits(f)'
    BY DEF HandlesInv, Arrives
  <2>1. PICK i \in Slots : inodes'[i].id = f /\ ~inodes'[i].is_free
    BY DEF Exists, Arrives
  <2>2. i \in Live'
    BY <2>1 DEF Live
  <2> QED BY <2>1, <2>2 DEF Arrives, FileSound
<1>2. LengthsInv' /\ ContentInv'
  BY DEF Arrives, FileSound, LengthsInv, ContentInv
<1> QED BY <1>1, <1>2 DEF Arrives, Sound

\* A step of file i alone: the shape stays, and its data blocks may change.
OwnDataWritten(i) ==
  \A b \in Blocks : disk'[b] = disk[b] \/ (disk'[b] \in DataBlock /\ \E k \in Parts(i) : b = Entry(i, k))

StepOf(i) ==
  /\ SameShape
  /\ \A j \in Slots : j # i => inodes'[j] = inodes[j]
  /\ Others(inodes[i].id)
  /\ \A g \in Ids : g # inodes[i].id => /\ written'[g] = written[g]
                                        /\ Writing(g)' <=> Writing(g)
  /\ OwnDataWritten(i)
  /\ dropped \subseteq dropped'
  /\ (call # NoCall => IsOpen(call.file))'

LEMMA OneFileStep ==
  ASSUME TypeOK, Sound, NEW i \in Live, StepOf(i), FileSound(i)'
  PROVE  Sound'
<1> DEFINE f == inodes[i].id
<1>1. DataWritten
  BY DEF StepOf, OwnDataWritten, DataWritten
<1>2. /\ BlocksInv' /\ NamesInv' /\ Live' = Live
  BY <1>1, ShapeKept DEF Sound, StepOf
<1>3. \A g \in Ids : Exists(g)' <=> Exists(g)
  BY DEF Exists, StepOf, SameShape
<1>4. Exists(f) /\ f \in Ids
  BY LookupIs DEF Sound, BlocksInv, FileShaped
<1>5. ASSUME NEW g \in Ids, IsOpen(g)' PROVE Exists(g)'
  <2>1. CASE g = f
    BY <1>3, <1>4, <2>1
  <2>2. CASE g # f
    <3>1. IsOpen(g)
      BY <1>5, <2>2 DEF IsOpen, StepOf, Others
    <3>2. handle[g].inode \in Live /\ inodes[handle[g].inode].id = g
      BY <3>1 DEF Sound, HandlesInv, HandleFits
    <3> QED BY <1>3, <3>2 DEF Exists, Live
  <2> QED BY <2>1, <2>2
<1>6. \A g \in Ids : ~Exists(g)' => written'[g] = <<>>
  BY <1>3, <1>4 DEF StepOf, Sound, LengthsInv
<1>7. ASSUME NEW j \in Live, j # i PROVE FileSound(j)'
  <2>1. j \in Slots /\ inodes[j].id \in Ids /\ inodes[j].id # f
    BY <1>7 DEF Live, Sound, BlocksInv, FileShaped, NamesInv
  <2>2. \A b \in Owned(j) : b \in Blocks /\ disk'[b] = disk[b]
    <3> SUFFICES ASSUME NEW b \in Owned(j) PROVE b \in Blocks /\ disk'[b] = disk[b]
      OBVIOUS
    <3>1. b \in Blocks
      BY DEF Owned, Sound, BlocksInv, FileShaped, Ix, Entry, Parts
    <3>2. \A k \in Parts(i) : b # Entry(i, k)
      BY <1>7, OwnedBlocks DEF Sound, BlocksInv
    <3> QED BY <3>1, <3>2 DEF StepOf, OwnDataWritten
  <2>3. /\ inodes'[j] = inodes[j] /\ handle'[inodes[j].id] = handle[inodes[j].id]
        /\ written'[inodes[j].id] = written[inodes[j].id]
        /\ Writing(inodes[j].id)' <=> Writing(inodes[j].id)
        /\ inodes[j].id \in dropped => inodes[j].id \in dropped'
    BY <1>7, <2>1 DEF StepOf, Others
  <2> QED BY <2>2, <2>3, OtherFile
<1>8. \A j \in Live' : FileSound(j)'
  BY <1>2, <1>7
<1> QED BY <1>2, <1>5, <1>6, <1>8, SoundNext DEF Arrives, StepOf

\* A data block of a file is no other part of a file, and not free.
LEMMA PartsDiffer ==
  ASSUME TypeOK, Sound, NEW i \in Live, NEW k \in Parts(i)
  PROVE  /\ Entry(i, k) \in Blocks /\ Entry(i, k) # Ix(i)
         /\ \A l \in Parts(i) : Entry(i, l) = Entry(i, k) => l = k
         /\ disk[Entry(i, k)] \in DataBlock
BY DEF Sound, BlocksInv, FileShaped

LEMMA WroteBackData ==
  ASSUME TypeOK, Sound, NEW f \in Ids, IsOpen(f), WroteBack(handle[f])
  PROVE  LET i == handle[f].inode
         IN  /\ i \in Live /\ inodes[i].id = f /\ ~Failed(f) /\ OwnDataWritten(i)
             /\ disk'[Ix(i)] = disk[Ix(i)]
             /\ \A k \in Parts(i) : disk'[Entry(i, k)] =
                  IF k = handle[f].block THEN handle[f].cache ELSE disk[Entry(i, k)]
<1> DEFINE h == handle[f]
           i == h.inode
<1>1. /\ i \in Live /\ inodes[i].id = f /\ h.cache \in DataBlock
      /\ Failed(f) <=> h.block \notin Parts(i)
      /\ \A k \in Entries : h.index[k] = Entry(i, k)
      /\ Parts(i) \subseteq Entries
  BY OpenFile
<1>2. /\ h.block \in Parts(i)
      /\ \A b \in Blocks : disk'[b] = IF b = h.index[h.block] THEN h.cache ELSE disk[b]
  BY DEF WroteBack
<1> HIDE DEF h, i
<1>3. h.index[h.block] = Entry(i, h.block)
  BY <1>1, <1>2
<1>4. OwnDataWritten(i)
  BY <1>1, <1>2, <1>3 DEF OwnDataWritten
<1>5. \A k \in Parts(i) : disk'[Entry(i, k)] = IF k = h.block THEN h.cache ELSE disk[Entry(i, k)]
  BY <1>1, <1>2, <1>3, PartsDiffer
<1>6. disk'[Ix(i)] = disk[Ix(i)]
  <2>1. Ix(i) \in Blocks
    BY <1>1 DEF Sound, BlocksInv, FileShaped
  <2> QED BY <1>1, <1>2, <1>3, <2>1, PartsDiffer
<1> QED BY <1>1, <1>2, <1>4, <1>5, <1>6 DEF h, i

\* Once the cached block is written back, the disk has every byte of the file.
LEMMA BytesBack ==
  ASSUME TypeOK, Sound, NEW i \in Live, NEW f, f = inodes[i].id, IsOpen(f),
         handle[f].block \in Parts(i),
         \A l \in Parts(i) : disk'[Entry(i, l)] =
           IF l = handle[f].block THEN handle[f].cache ELSE disk[Entry(i, l)],
         f \notin dropped, NEW k \in 0..(Len(written[f]) - 1)
  PROVE  disk'[Entry(i, k \div PerBlock)][k % PerBlock] = written[f][k + 1]
<1>1. f \in Ids /\ handle[f].inode = i
  BY DEF Sound, BlocksInv, FileShaped, HandlesInv, HandleFits, NamesInv
<1>2. ~Failed(f)
  BY <1>1, OpenFile
<1>3. k \div PerBlock \in Parts(i)
  BY <1>2, ByteInFile
<1>4. BytesKept(i)
  BY <1>2 DEF Sound, ContentInv
<1>5. /\ InCache(f, k) => handle[f].cache[k % PerBlock] = written[f][k + 1]
      /\ ~(InCache(f, k) /\ handle[f].dirty) => OnDisk(i, k) = written[f][k + 1]
  BY <1>4 DEF BytesKept
<1> QED BY <1>3, <1>5 DEF InCache, OnDisk

LEMMA WroteBackBytes ==
  ASSUME TypeOK, Sound, NEW f \in Ids, IsOpen(f), WroteBack(handle[f]), f \notin dropped,
         NEW k \in 0..(Len(written[f]) - 1)
  PROVE  disk'[Entry(handle[f].inode, k \div PerBlock)][k % PerBlock] = written[f][k + 1]
<1>1. PICK i \in Live : i = handle[f].inode /\ inodes[i].id = f
  BY OpenFile
<1>2. /\ handle[f].block \in Parts(i)
      /\ \A l \in Parts(i) : disk'[Entry(i, l)] =
           IF l = handle[f].block THEN handle[f].cache ELSE disk[Entry(i, l)]
  BY <1>1, WroteBackData DEF WroteBack
<1> QED BY <1>1, <1>2, BytesBack

----------------------------------------------------------------------------
\* Every action, from a sound state to a sound one.
LEMMA FileOf ==
  ASSUME TypeOK, Sound, NEW f \in Ids, IsOpen(f)
  PROVE  \E i \in Live : i = handle[f].inode /\ i \in Slots /\ inodes[i].id = f
BY OpenFile

LEMMA StartKeeps ==
  ASSUME TypeOK, Sound, NEW f \in Ids, NEW op \in {"read", "write"}, NEW n \in 1..MaxCount,
         Start(op, f, n)
  PROVE  Sound'
<1>1. /\ IsOpen(f) /\ call = NoCall /\ call'.op = op /\ call'.file = f /\ call' # NoCall
      /\ UNCHANGED <<inodes, free_blocks, disk, handle, written, dropped>>
  BY StartEffect
<1>2. PICK i \in Live : i = handle[f].inode /\ i \in Slots /\ inodes[i].id = f
  BY <1>1, FileOf
<1>3. /\ ~Writing(f) /\ \A g \in Ids : g # f => (Writing(g)' <=> Writing(g))
      /\ IsOpen(call'.file) /\ IsOpen(f)'
  BY <1>1 DEF Writing, IsOpen
<1>4. StepOf(i)
  BY <1>1, <1>2, <1>3 DEF StepOf, SameShape, Others, OwnDataWritten, IsOpen
<1>5. FileSound(i)'
  <2>1. (HandleFits(f) => HandleFits(f)') /\ (Failed(f)' <=> Failed(f)) /\ Live' = Live
    BY <1>1 DEF HandleFits, Failed, IsOpen, Live, Ix
  <2>2. BytesKept(i) => BytesKept(i)'
    BY <1>1 DEF BytesKept, InCache, OnDisk, Entry, IsOpen
  <2>3. ASSUME ~Failed(f) PROVE LengthFits(i)'
    <3>1. LengthFits(i) /\ IsOpen(f) /\ handle[f].pos \in Nat /\ inodes[i].size \in Nat
      BY <1>1, <1>2, <2>3, FileLength, HandleFields, InodeFields
    <3>2. /\ Len(written[f]) = inodes[i].size /\ handle[f].pos <= inodes[i].size
          /\ inodes[i].size <= PerBlock * inodes[i].num_block
      BY <1>2, <1>3, <3>1 DEF LengthFits
    <3>3. Larger(inodes[i].size, handle[f].pos) = inodes[i].size
      BY <3>1, <3>2 DEF Larger
    <3>4. inodes' = inodes /\ handle' = handle /\ written' = written
      BY <1>1
    <3> QED BY <1>2, <3>2, <3>3, <3>4 DEF LengthFits
  <2>4. FileSound(i) /\ inodes'[i].id = f /\ dropped' = dropped
    BY <1>1, <1>2, SoundFiles
  <2> QED BY <1>1, <1>2, <2>1, <2>2, <2>3, <2>4 DEF FileSound, IsOpen
<1> QED BY <1>2, <1>4, <1>5, OneFileStep

LEMMA EndReadKeeps ==
  ASSUME TypeOK, Sound, EndRead
  PROVE  Sound'
<1>1. /\ call' = NoCall /\ \A g \in Ids : ~Writing(g)
      /\ UNCHANGED <<inodes, free_blocks, disk, handle, written, dropped>>
  BY EndReadEffect
<1>2. PICK f \in Ids : f = call.file /\ IsOpen(f)
  BY InRead DEF EndRead
<1>3. PICK i \in Live : i = handle[f].inode /\ i \in Slots /\ inodes[i].id = f
  BY <1>2, FileOf
<1>4. \A g : ~Writing(g)'
  BY <1>1 DEF Writing
<1>5. StepOf(i)
  BY <1>1, <1>3, <1>4 DEF StepOf, SameShape, Others, OwnDataWritten
<1>6. FileSound(i)'
  BY <1>1, <1>3, <1>4, OtherFile
<1> QED BY <1>5, <1>6, OneFileStep

LEMMA EndWriteKeeps ==
  ASSUME TypeOK, Sound, EndWrite
  PROVE  Sound'
<1>1. PICK f \in Ids : f = call.file
  BY InWrite DEF EndWrite
<1>2. PICK i \in Live : i = handle[f].inode /\ i \in Slots /\ inodes[i].id = f
  BY <1>1, FileOf, EndWriteEffect
<1>3. /\ IsOpen(f) /\ call' = NoCall /\ Writing(f)
      /\ UNCHANGED <<free_blocks, disk, handle, written, dropped>>
      /\ \A j \in Slots : j # i => inodes'[j] = inodes[j]
      /\ inodes'[i].id = inodes[i].id /\ inodes'[i].is_free = inodes[i].is_free
      /\ inodes'[i].num_block = inodes[i].num_block /\ inodes'[i].index = inodes[i].index
      /\ inodes'[i].size = Larger(handle[f].pos, inodes[i].size)
  BY <1>1, <1>2, EndWriteEffect
<1>4. handle[f].pos \in Nat /\ inodes[i].size \in Nat
  BY <1>2, <1>3, HandleFields, InodeFields
<1>5. /\ \A g : g # f => ~Writing(g)
      /\ \A g : ~Writing(g)'
  BY <1>1, <1>3 DEF Writing
<1>6. StepOf(i)
  BY <1>2, <1>3, <1>5 DEF StepOf, SameShape, Others, OwnDataWritten
<1>7. FileSound(i)'
  <2>1. (HandleFits(f) => HandleFits(f)') /\ (Failed(f)' <=> Failed(f))
    <3>1. i \in Live'
      BY <1>2, <1>3 DEF Live
    <3> QED BY <1>2, <1>3, <3>1 DEF HandleFits, Failed, IsOpen, Ix
  <2>2. BytesKept(i) => BytesKept(i)'
    BY <1>3 DEF BytesKept, InCache, OnDisk, Entry, IsOpen
  <2>3. ASSUME ~Failed(f) PROVE LengthFits(i)'
    <3>1. LengthFits(i) /\ Len(written[f]) \in Nat
          /\ Len(written[f]) <= PerBlock * inodes[i].num_block
      BY <1>2, <2>3, FileLength
    <3>2. /\ Len(written[f]) = Larger(inodes[i].size, handle[f].pos)
          /\ handle[f].pos <= Len(written[f])
      BY <1>2, <1>3, <3>1 DEF LengthFits
    <3>3. Larger(handle[f].pos, inodes[i].size) = Larger(inodes[i].size, handle[f].pos)
      BY <1>4 DEF Larger
    <3>4. inodes'[i].id = f /\ inodes'[i].size = Len(written[f])
      BY <1>2, <1>3, <3>2, <3>3
    <3>5. handle' = handle /\ written' = written /\ ~Writing(f)'
      BY <1>3, <1>5
    <3> QED BY <1>3, <3>1, <3>2, <3>4, <3>5 DEF LengthFits
  <2>4. FileSound(i) /\ inodes'[i].id = f
    BY <1>2, <1>3, SoundFiles
  <2> QED BY <1>2, <1>3, <2>1, <2>2, <2>3, <2>4 DEF FileSound, IsOpen
<1> QED BY <1>6, <1>7, OneFileStep

LEMMA OpenKeeps ==
  ASSUME TypeOK, Sound, NEW f \in Ids, Open(f)
  PROVE  Sound'
<1>1. /\ call = NoCall /\ ~IsOpen(f) /\ Others(f) /\ handle'[f] \in Handle
      /\ UNCHANGED <<inodes, free_blocks, disk, call, written, dropped>>
  BY OpenEffect
<1>2. PICK i \in Live :
        /\ inodes[i].id = f /\ handle'[f].inode = i /\ handle'[f].pos = 0
        /\ handle'[f].block = 0 /\ handle'[f].index = disk[Ix(i)]
        /\ handle'[f].cache = disk[Entry(i, 0)] /\ handle'[f].dirty = FALSE
  BY OpenEffect
<1>3. ~Failed(f) /\ i \in Slots
  BY <1>1 DEF Failed, Live
<1>4. /\ LengthFits(i) /\ Len(written[f]) \in Nat
  BY <1>2, <1>3, FileLength
<1>5. /\ \A g : ~Writing(g) /\ ~Writing(g)'
      /\ call' = NoCall
  BY <1>1 DEF Writing
<1>6. StepOf(i)
  BY <1>1, <1>2, <1>5 DEF StepOf, SameShape, OwnDataWritten
<1>7. IsOpen(f)'
  BY <1>1, HandlesAreOpen DEF IsOpen
<1>8. FileSound(i)'
  <2>1. HandleFits(f)'
    <3>1. PerBlock * 0 <= 0 /\ 0 <= PerBlock * 0 + PerBlock
      BY SizeAssumption
    <3>2. i \in Live'
      BY <1>1 DEF Live
    <3> QED BY <1>1, <1>2, <3>1, <3>2 DEF HandleFits, Ix
  <2>2. LengthFits(i)'
    <3>1. Len(written[f]) = inodes[i].size /\ inodes[i].size <= PerBlock * inodes[i].num_block
      BY <1>2, <1>4, <1>5 DEF LengthFits
    <3> QED BY <1>1, <1>2, <1>4, <1>5, <3>1 DEF LengthFits
  <2>3. ASSUME f \notin dropped' PROVE BytesKept(i)'
    <3>1. BytesKept(i)
      BY <1>1, <1>2, <1>3, <2>3 DEF Sound, ContentInv
    <3>2. \A k \in 0..(Len(written[f]) - 1) : OnDisk(i, k) = written[f][k + 1]
      BY <1>1, <1>2, <3>1 DEF BytesKept, InCache
    <3>3. \A k \in 0..(Len(written[f]) - 1) : OnDisk(i, k)' = OnDisk(i, k)
      BY <1>1 DEF OnDisk, Entry
    <3>4. \A k \in 0..(Len(written[f]) - 1) :
            InCache(f, k)' => handle'[f].cache[k % PerBlock] = OnDisk(i, k)
      BY <1>2 DEF InCache, OnDisk
    <3> QED BY <1>1, <1>2, <3>2, <3>3, <3>4 DEF BytesKept
  <2> QED BY <1>1, <1>2, <2>1, <2>2, <2>3 DEF FileSound
<1> QED BY <1>6, <1>8, OneFileStep

LEMMA CloseKeeps ==
  ASSUME TypeOK, Sound, NEW f \in Ids, Close(f), ~wild'
  PROVE  Sound'
<1>1. /\ call = NoCall /\ IsOpen(f) /\ Others(f) /\ handle'[f] = Closed /\ WroteBack(handle[f])
      /\ UNCHANGED <<inodes, free_blocks, call, written, dropped>>
  BY CloseEffect
<1>2. PICK i \in Live : i = handle[f].inode /\ i \in Slots /\ inodes[i].id = f
  BY <1>1, FileOf
<1>3. /\ ~Failed(f) /\ OwnDataWritten(i) /\ disk'[Ix(i)] = disk[Ix(i)]
  BY <1>1, <1>2, WroteBackData
<1>4. /\ \A g : ~Writing(g) /\ ~Writing(g)'
      /\ call' = NoCall
  BY <1>1 DEF Writing
<1>5. StepOf(i)
  BY <1>1, <1>2, <1>3, <1>4 DEF StepOf, SameShape
<1>6. FileSound(i)'
  <2>1. ~IsOpen(f)' /\ inodes'[i].id = f
    BY <1>1, <1>2 DEF IsOpen
  <2>2. LengthFits(i)'
    <3>1. LengthFits(i)
      BY <1>2, <1>3, FileLength
    <3> QED BY <1>1, <1>2, <1>4, <2>1, <3>1 DEF LengthFits
  <2>3. ASSUME f \notin dropped' PROVE BytesKept(i)'
    <3>1. \A k \in 0..(Len(written[f]) - 1) :
            disk'[Entry(i, k \div PerBlock)][k % PerBlock] = written[f][k + 1]
      BY <1>1, <1>2, <2>3, WroteBackBytes
    <3>2. \A k : Entry(i, k)' = Entry(i, k)
      BY <1>1, <1>3 DEF Entry, Ix
    <3>3. \A k \in 0..(Len(written[f]) - 1) : OnDisk(i, k)' = written'[f][k + 1]
      BY <1>1, <3>1, <3>2 DEF OnDisk
    <3> QED BY <1>1, <2>1, <3>3 DEF BytesKept, InCache
  <2> QED BY <2>1, <2>2, <2>3 DEF FileSound
<1> QED BY <1>5, <1>6, OneFileStep

LEMMA ResetKeeps ==
  ASSUME TypeOK, Sound, NEW f \in Ids, Reset(f), ~wild'
  PROVE  Sound'
<1>1. /\ call = NoCall /\ IsOpen(f)
      /\ UNCHANGED <<inodes, free_blocks, call, written, dropped>>
      /\ Others(f) /\ handle'[f] \in Handle /\ handle'[f].inode = handle[f].inode
      /\ handle'[f].index = handle[f].index
      /\ handle'[f].pos = 0 /\ handle'[f].block = 0
      /\ \/ /\ handle[f].block = 0 /\ disk' = disk
            /\ handle'[f].cache = handle[f].cache /\ handle'[f].dirty = handle[f].dirty
         \/ /\ handle[f].block # 0 /\ handle'[f].dirty = FALSE
            /\ handle'[f].cache = disk'[handle[f].index[0]]
            /\ WroteBack(handle[f])
  BY ResetEffect
<1>2. PICK i \in Live : i = handle[f].inode /\ i \in Slots /\ inodes[i].id = f
  BY <1>1, FileOf
<1>3. /\ HandleFits(f) /\ 0 \in Parts(i) /\ handle[f].index[0] = Entry(i, 0)
      /\ Failed(f) <=> handle[f].block \notin Parts(i)
  BY <1>1, <1>2, OpenFile DEF Sound, HandlesInv
<1>4. ~Failed(f) /\ OwnDataWritten(i) /\ disk'[Ix(i)] = disk[Ix(i)]
  <2>1. handle[f].block = 0 => ~Failed(f) /\ OwnDataWritten(i) /\ disk'[Ix(i)] = disk[Ix(i)]
    BY <1>1, <1>3 DEF OwnDataWritten
  <2>2. WroteBack(handle[f]) => ~Failed(f) /\ OwnDataWritten(i) /\ disk'[Ix(i)] = disk[Ix(i)]
    BY <1>1, <1>2, WroteBackData
  <2> QED BY <1>1, <2>1, <2>2
<1>5. /\ \A g : ~Writing(g) /\ ~Writing(g)'
      /\ call' = NoCall /\ IsOpen(f)'
  BY <1>1, HandlesAreOpen DEF Writing, IsOpen
<1>6. StepOf(i)
  BY <1>1, <1>2, <1>4, <1>5 DEF StepOf, SameShape
<1>7. FileSound(i)'
  <2>1. HandleFits(f)'
    <3>1. PerBlock * 0 <= 0 /\ 0 <= PerBlock * 0 + PerBlock /\ i \in Live'
      BY <1>1, SizeAssumption DEF Live
    <3> QED BY <1>1, <1>2, <1>3, <1>4, <3>1 DEF HandleFits, Ix
  <2>2. LengthFits(i)'
    <3>1. LengthFits(i) /\ Len(written[f]) \in Nat
      BY <1>2, <1>4, FileLength
    <3> QED BY <1>1, <1>2, <1>5, <3>1 DEF LengthFits
  <2>3. ASSUME f \notin dropped' PROVE BytesKept(i)'
    <3>1. \A k : Entry(i, k)' = Entry(i, k)
      BY <1>1, <1>4 DEF Entry, Ix
    <3>2. CASE handle[f].block = 0 /\ disk' = disk
      <4>1. (handle'[f].cache = handle[f].cache /\ handle'[f].dirty = handle[f].dirty) \/ WroteBack(handle[f])
        BY <1>1
      <4>2. BytesKept(i)
        BY <1>1, <1>2, <1>4, <2>3 DEF Sound, ContentInv
      <4>3. handle'[f].cache = handle[f].cache /\ handle'[f].dirty = handle[f].dirty
        BY <1>1, <3>2
      <4>4. \A k : /\ InCache(f, k)' <=> InCache(f, k)
                   /\ OnDisk(i, k)' = OnDisk(i, k)
        BY <1>1, <1>5, <3>1, <3>2 DEF InCache, OnDisk
      <4>5. written' = written /\ inodes'[i].id = f
        BY <1>1, <1>2
      <4> QED BY <1>2, <4>2, <4>3, <4>4, <4>5 DEF BytesKept
    <3>3. CASE WroteBack(handle[f]) /\ handle'[f].cache = disk'[handle[f].index[0]]
      <4>1. \A k \in 0..(Len(written[f]) - 1) :
              disk'[Entry(i, k \div PerBlock)][k % PerBlock] = written[f][k + 1]
        BY <1>1, <1>2, <2>3, <3>3, WroteBackBytes
      <4>2. \A k \in 0..(Len(written[f]) - 1) : OnDisk(i, k)' = written'[f][k + 1]
        BY <1>1, <3>1, <4>1 DEF OnDisk
      <4>3. \A k : InCache(f, k)' => handle'[f].cache[k % PerBlock] = OnDisk(i, k)'
        BY <1>1, <1>3, <3>1, <3>3 DEF InCache, OnDisk
      <4>4. written' = written /\ inodes'[i].id = f
        BY <1>1, <1>2
      <4> QED BY <4>2, <4>3, <4>4 DEF BytesKept
    <3> QED BY <1>1, <3>2, <3>3
  <2> QED BY <1>1, <1>2, <2>1, <2>2, <2>3 DEF FileSound
<1> QED BY <1>6, <1>7, OneFileStep

LEMMA TurnToNextKeeps ==
  ASSUME TypeOK, Sound, TurnToNext
  PROVE  Sound'
<1>1. PICK f \in Ids : f = call.file /\ IsOpen(f)
  BY InWrite DEF TurnToNext
<1>2. PICK i \in Live : i = handle[f].inode /\ i \in Slots /\ inodes[i].id = f
  BY <1>1, FileOf
<1>3. PICK m \in Parts(i) : m = handle[f].block + 1
  BY <1>1, <1>2, TurnToNextEffect
<1>4. /\ call # NoCall /\ Writing(f)
      /\ UNCHANGED <<inodes, free_blocks, call, written, dropped>>
      /\ Others(f) /\ handle'[f] \in Handle /\ handle'[f].inode = i
      /\ handle'[f].index = handle[f].index /\ handle'[f].pos = handle[f].pos
      /\ handle[f].pos = PerBlock * m
      /\ handle'[f].block = m
      /\ handle'[f].cache = disk[handle[f].index[m]] /\ handle'[f].dirty = FALSE
      /\ WroteBack(handle[f])
  BY <1>1, <1>2, <1>3, TurnToNextEffect
<1>5. /\ HandleFits(f) /\ handle[f].index[m] = Entry(i, m) /\ m \in Nat
      /\ handle[f].block \in Nat
  BY <1>1, <1>2, <1>3, OpenFile DEF Sound, HandlesInv, Entries
<1>6. /\ ~Failed(f) /\ OwnDataWritten(i) /\ disk'[Ix(i)] = disk[Ix(i)]
      /\ disk'[Entry(i, m)] = disk[Entry(i, m)]
  <2>1. m # handle[f].block
    BY <1>3, <1>5
  <2>2. /\ ~Failed(f) /\ OwnDataWritten(i) /\ disk'[Ix(i)] = disk[Ix(i)]
        /\ \A k \in Parts(i) : disk'[Entry(i, k)] =
             IF k = handle[f].block THEN handle[f].cache ELSE disk[Entry(i, k)]
    BY <1>1, <1>2, <1>4, WroteBackData
  <2> QED BY <1>3, <2>1, <2>2
<1>7. /\ \A g : Writing(g)' <=> Writing(g)
      /\ IsOpen(f)' /\ call' = call
  BY <1>4, HandlesAreOpen DEF Writing, IsOpen
<1>8. StepOf(i)
  BY <1>1, <1>2, <1>4, <1>6, <1>7 DEF StepOf, SameShape
<1>9. FileSound(i)'
  <2>1. HandleFits(f)'
    <3>1. PerBlock * m \in Nat /\ PerBlock \in Nat /\ i \in Live'
      BY <1>4, <1>5, BlocksInOrder, SizeAssumption DEF Live
    <3>2. PerBlock * m <= PerBlock * m /\ PerBlock * m <= PerBlock * m + PerBlock
      BY <3>1
    <3> QED BY <1>2, <1>4, <1>5, <1>6, <3>1, <3>2 DEF HandleFits, Ix
  <2>2. LengthFits(i)'
    <3>1. LengthFits(i) /\ Len(written[f]) \in Nat
      BY <1>2, <1>6, FileLength
    <3>2. inodes' = inodes /\ written' = written /\ handle'[f].pos = handle[f].pos
      BY <1>4
    <3> QED BY <1>1, <1>2, <1>7, <3>1, <3>2 DEF LengthFits
  <2>3. ASSUME f \notin dropped' PROVE BytesKept(i)'
    <3>1. \A k : Entry(i, k)' = Entry(i, k)
      BY <1>4, <1>6 DEF Entry, Ix
    <3>2. \A k \in 0..(Len(written[f]) - 1) :
            disk'[Entry(i, k \div PerBlock)][k % PerBlock] = written[f][k + 1]
      BY <1>1, <1>2, <1>4, <2>3, WroteBackBytes
    <3>3. \A k \in 0..(Len(written[f]) - 1) : OnDisk(i, k)' = written'[f][k + 1]
      BY <1>4, <3>1, <3>2 DEF OnDisk
    <3>4. \A k : InCache(f, k)' => handle'[f].cache[k % PerBlock] = OnDisk(i, k)'
      BY <1>4, <1>5, <1>6, <3>1 DEF InCache, OnDisk
    <3>5. written' = written /\ inodes'[i].id = f
      BY <1>2, <1>4
    <3> QED BY <3>3, <3>4, <3>5 DEF BytesKept
  <2> QED BY <1>2, <1>4, <2>1, <2>2, <2>3 DEF FileSound
<1> QED BY <1>8, <1>9, OneFileStep

LEMMA TurnFailsKeeps ==
  ASSUME TypeOK, Sound, TurnFails, ~wild'
  PROVE  Sound'
<1>1. PICK f \in Ids : f = call.file /\ IsOpen(f)
  BY InWrite DEF TurnFails
<1>2. PICK i \in Live : i = handle[f].inode /\ i \in Slots /\ inodes[i].id = f
  BY <1>1, FileOf
<1>3. handle[f].block \in Nat
  BY <1>1, OpenFile DEF Entries
<1>4. PICK m \in Nat : m = handle[f].block + 1
  BY <1>3
<1>5. /\ call' = NoCall
      /\ UNCHANGED <<inodes, free_blocks, written, dropped>>
      /\ Others(f) /\ handle'[f] \in Handle /\ handle'[f].inode = i
      /\ handle'[f].index = handle[f].index /\ handle'[f].pos = PerBlock * m
      /\ handle'[f].block = m /\ m >= inodes[i].num_block
      /\ WroteBack(handle[f])
  BY <1>1, <1>2, <1>4, TurnFailsEffect
<1>6. HandleFits(f) /\ OwnDataWritten(i) /\ disk'[Ix(i)] = disk[Ix(i)]
  BY <1>1, <1>2, <1>5, WroteBackData DEF Sound, HandlesInv
<1>7. /\ \A g : g # f => ~Writing(g)
      /\ \A g : ~Writing(g)'
      /\ IsOpen(f)'
  BY <1>1, <1>5, HandlesAreOpen DEF Writing, IsOpen
<1>8. StepOf(i)
  BY <1>1, <1>2, <1>5, <1>6, <1>7 DEF StepOf, SameShape
<1>9. FileSound(i)'
  <2>1. HandleFits(f)'
    <3>1. PerBlock * m \in Nat /\ PerBlock \in Nat /\ i \in Live'
      BY <1>4, <1>5, BlocksInOrder, SizeAssumption DEF Live
    <3>2. PerBlock * m <= PerBlock * m /\ PerBlock * m <= PerBlock * m + PerBlock
      BY <3>1
    <3> QED BY <1>2, <1>5, <1>6, <3>1, <3>2 DEF HandleFits, Ix
  <2>2. Failed(f)'
    BY <1>5, <1>7 DEF Failed
  <2> QED BY <1>2, <1>5, <2>1, <2>2 DEF FileSound
<1> QED BY <1>8, <1>9, OneFileStep

\* The byte goes to the position, in the cache and in what the file was given.
LEMMA PutKeeps ==
  ASSUME TypeOK, Sound, NEW v \in Values, Put(v)
  PROVE  Sound'
<1>1. PICK f \in Ids : f = call.file /\ IsOpen(f)
  BY InWrite DEF Put
<1>2. PICK i \in Live : i = handle[f].inode /\ i \in Slots /\ inodes[i].id = f
  BY <1>1, FileOf
<1>3. PICK p \in Nat : p = handle[f].pos
  BY <1>1, OpenFile
<1>4. PICK b \in Nat : b = handle[f].block
  BY <1>1, OpenFile DEF Entries
<1>5. /\ Writing(f) /\ call # NoCall /\ call' # NoCall /\ call'.op = "write" /\ call'.file = f
      /\ UNCHANGED <<inodes, free_blocks, disk, dropped>>
      /\ Others(f) /\ handle'[f] \in Handle /\ handle'[f].inode = i
      /\ handle'[f].index = handle[f].index /\ handle'[f].pos = p + 1
      /\ p < PerBlock * b + PerBlock /\ p \div PerBlock = b
      /\ handle'[f].block = b /\ handle'[f].dirty = TRUE
      /\ p % PerBlock \in Bytes
      /\ handle'[f].cache = [handle[f].cache EXCEPT ![p % PerBlock] = v]
      /\ \A g \in Ids : g # f => written'[g] = written[g]
      /\ written'[f] = IF p < Len(written[f]) THEN [written[f] EXCEPT ![p + 1] = v]
                                              ELSE Append(written[f], v)
  BY <1>1, <1>2, <1>3, <1>4, PutEffect
<1>6. /\ HandleFits(f) /\ handle[f].cache \in DataBlock
  BY <1>1, OpenFile DEF Sound, HandlesInv
<1>7. /\ \A g : Writing(g)' <=> Writing(g)
      /\ IsOpen(f)'
  BY <1>1, <1>5, HandlesAreOpen DEF Writing, IsOpen
<1>8. StepOf(i)
  <2>1. (call # NoCall => IsOpen(call.file))'
    BY <1>5, <1>7 DEF IsOpen
  <2> QED BY <1>1, <1>2, <1>5, <1>7, <2>1 DEF StepOf, SameShape, OwnDataWritten
<1>9. FileSound(i)'
  <2>1. HandleFits(f)'
    <3>1. PerBlock * b \in Nat /\ PerBlock \in Nat /\ PerBlock * b <= p /\ i \in Live'
      BY <1>3, <1>4, <1>5, <1>6, BlocksInOrder, SizeAssumption DEF Live, HandleFits
    <3>2. PerBlock * b <= p + 1 /\ p + 1 <= PerBlock * b + PerBlock
      BY <1>5, <3>1
    <3> QED BY <1>2, <1>5, <1>6, <3>1, <3>2 DEF HandleFits, Ix
  <2>2. Failed(f)' <=> Failed(f)
    BY <1>1, <1>2, <1>4, <1>5, <1>7 DEF Failed
  <2> DEFINE w == Len(written[f])
             s == inodes[i].size
  <2>3. ASSUME ~Failed(f)
        PROVE  /\ w \in Nat /\ s \in Nat /\ written[f] \in Seq(Values)
               /\ w = Larger(s, p) /\ p <= w /\ s <= PerBlock * inodes[i].num_block
    <3>1. LengthFits(i) /\ w \in Nat
      BY <1>2, <2>3, FileLength
    <3>2. s \in Nat /\ written[f] \in Seq(Values)
      BY <1>2, InodeFields DEF TypeOK
    <3> QED BY <1>1, <1>2, <1>3, <1>5, <3>1, <3>2 DEF LengthFits
  <2>4. ASSUME ~Failed(f)
        PROVE  /\ Len(written'[f]) = IF p < w THEN w ELSE p + 1
               /\ written'[f][p + 1] = v
               /\ \A k \in 0..(w - 1) : k # p => written'[f][k + 1] = written[f][k + 1]
    <3>1. CASE p < w
      <4>1. written'[f] = [written[f] EXCEPT ![p + 1] = v]
        BY <1>5, <3>1
      <4>2. p + 1 \in 1..w /\ written[f] \in Seq(Values) /\ w \in Nat
        BY <1>3, <2>3, <2>4, <3>1
      <4>3. Len(written'[f]) = w /\ written'[f][p + 1] = v
        BY <4>1, <4>2, ExceptSeq
      <4>4. \A k \in 1..w : k # p + 1 => written'[f][k] = written[f][k]
        BY <4>1, <4>2, ExceptSeq
      <4>5. \A k \in 0..(w - 1) : k + 1 \in 1..w /\ (k # p => k + 1 # p + 1)
        BY <1>3, <4>2
      <4> QED BY <3>1, <4>3, <4>4, <4>5
    <3>2. CASE ~(p < w)
      <4>1. written'[f] = Append(written[f], v) /\ p = w /\ w \in Nat /\ written[f] \in Seq(Values)
        BY <1>3, <1>5, <2>3, <2>4, <3>2
      <4>2. /\ Len(written'[f]) = w + 1 /\ written'[f][w + 1] = v
            /\ \A k \in 1..w : written'[f][k] = written[f][k]
        BY <4>1, AppendProperties
      <4>3. \A k \in 0..(w - 1) : k + 1 \in 1..w
        BY <4>1
      <4> QED BY <3>2, <4>1, <4>2, <4>3
    <3> QED BY <3>1, <3>2
  <2>5. ASSUME ~Failed(f) PROVE LengthFits(i)'
    <3>1. Len(written'[f]) = Larger(s, p + 1) /\ p + 1 <= Len(written'[f])
      <4> HIDE DEF w, s
      <4> QED BY <1>3, <2>3, <2>4, <2>5 DEF Larger
    <3>2. inodes' = inodes /\ handle'[f].pos = p + 1 /\ Writing(f)'
      BY <1>5, <1>7
    <3> QED BY <1>2, <2>3, <2>5, <3>1, <3>2 DEF LengthFits
  <2>6. ASSUME f \notin dropped', ~Failed(f) PROVE BytesKept(i)'
    <3>1. BytesKept(i)
      BY <1>2, <1>5, <2>6 DEF Sound, ContentInv
    <3>2. SUFFICES ASSUME NEW k \in 0..(Len(written'[f]) - 1)
                   PROVE  /\ InCache(f, k)' => handle'[f].cache[k % PerBlock] = written'[f][k + 1]
                          /\ ~(InCache(f, k)' /\ handle'[f].dirty)
                               => OnDisk(i, k)' = written'[f][k + 1]
      <4>1. inodes'[i].id = f
        BY <1>2, <1>5
      <4> QED BY <4>1 DEF BytesKept
    <3>3. k \in Nat /\ (k # p => k \in 0..(w - 1))
      <4> HIDE DEF w
      <4> QED BY <1>3, <2>3, <2>4, <2>6
    <3>4. /\ InCache(f, k)' <=> k \div PerBlock = b
          /\ InCache(f, k) <=> k \div PerBlock = b
          /\ OnDisk(i, k)' = OnDisk(i, k)
      BY <1>1, <1>4, <1>5, <1>7 DEF InCache, OnDisk, Entry
    <3>5. CASE k = p
      <4>1. handle'[f].cache[k % PerBlock] = v /\ written'[f][k + 1] = v
        BY <1>5, <1>6, <2>4, <2>6, <3>5 DEF DataBlock
      <4> QED BY <1>5, <3>4, <3>5, <4>1
    <3>6. CASE k # p
      <4>1. written'[f][k + 1] = written[f][k + 1]
        BY <2>4, <2>6, <3>3, <3>6
      <4>2. /\ InCache(f, k) => handle[f].cache[k % PerBlock] = written[f][k + 1]
            /\ ~InCache(f, k) => OnDisk(i, k) = written[f][k + 1]
        BY <1>2, <3>1, <3>3, <3>6 DEF BytesKept
      <4>3. InCache(f, k) => handle'[f].cache[k % PerBlock] = handle[f].cache[k % PerBlock]
        <5>1. k \div PerBlock = b => k % PerBlock # p % PerBlock
          BY <1>3, <1>5, <3>3, <3>6, BytesDiffer
        <5>2. k % PerBlock \in Bytes
          BY <3>3, Division
        <5> QED BY <1>5, <1>6, <3>4, <5>1, <5>2 DEF DataBlock
      <4> QED BY <1>5, <3>4, <4>1, <4>2, <4>3
    <3> QED BY <3>5, <3>6
  <2>7. f \notin dropped => f \notin dropped' /\ inodes'[i].id = f
    BY <1>2, <1>5
  <2> QED BY <1>2, <1>5, <2>1, <2>2, <2>5, <2>6, <2>7 DEF FileSound
<1> QED BY <1>8, <1>9, OneFileStep

LEMMA GetKeeps ==
  ASSUME TypeOK, Sound, Get, ~wild'
  PROVE  Sound'
<1>1. PICK f \in Ids : f = call.file /\ IsOpen(f)
  BY InRead DEF Get
<1>2. PICK i \in Live : i = handle[f].inode /\ i \in Slots /\ inodes[i].id = f
  BY <1>1, FileOf
<1>3. PICK p \in Nat : p = handle[f].pos
  BY <1>1, OpenFile
<1>4. PICK b \in Nat : b = handle[f].block
  BY <1>1, OpenFile DEF Entries
<1>5. PICK s \in Nat : s = inodes[i].size
  BY <1>2, InodeFields
<1>6. /\ \A g \in Ids : ~Writing(g)
      /\ UNCHANGED <<inodes, free_blocks, disk, written>>
      /\ call' # NoCall /\ call'.op = "read" /\ call'.file = f /\ p # s
      /\ Others(f) /\ handle'[f] \in Handle /\ handle'[f].inode = i
      /\ handle'[f].index = handle[f].index /\ handle'[f].pos = p + 1
      /\ \/ /\ ~Turning(handle[f]) /\ dropped' = dropped
            /\ handle'[f].block = b /\ handle'[f].cache = handle[f].cache
            /\ handle'[f].dirty = handle[f].dirty
         \/ /\ Turning(handle[f]) /\ p = PerBlock * (b + 1)
            /\ handle'[f].block = b + 1 /\ b + 1 \in Parts(i)
            /\ handle'[f].cache = disk[handle[f].index[b + 1]]
            /\ handle'[f].dirty = FALSE
            /\ dropped' = IF handle[f].dirty THEN dropped \union {f} ELSE dropped
  BY <1>1, <1>2, <1>3, <1>4, <1>5, GetEffect
<1>7. /\ HandleFits(f) /\ \A k \in Parts(i) : handle[f].index[k] = Entry(i, k)
      /\ Failed(f) <=> b \notin Parts(i)
  BY <1>1, <1>2, <1>4, OpenFile DEF Sound, HandlesInv
<1>8. /\ \A g : ~Writing(g)'
      /\ IsOpen(f)'
  BY <1>1, <1>6, HandlesAreOpen DEF Writing, IsOpen
<1>9. StepOf(i)
  <2>1. (call # NoCall => IsOpen(call.file))' /\ dropped \subseteq dropped'
    BY <1>6, <1>8 DEF IsOpen
  <2> QED BY <1>1, <1>2, <1>6, <1>8, <2>1 DEF StepOf, SameShape, OwnDataWritten
<1>10. PerBlock * b \in Nat /\ PerBlock \in Nat \ {0} /\ PerBlock * b <= p
       /\ PerBlock * (b + 1) = PerBlock * b + PerBlock
  BY <1>3, <1>4, <1>7, BlocksInOrder, SizeAssumption DEF HandleFits
<1>11. i \in Live' /\ inodes'[i].id = f /\ disk'[Ix(i)] = disk[Ix(i)] /\ Ix(i)' = Ix(i)
  BY <1>2, <1>6 DEF Live, Ix
<1>12. ASSUME ~Failed(f) PROVE LengthFits(i)'
  <2>1. LengthFits(i) /\ Len(written[f]) \in Nat
    BY <1>2, <1>12, FileLength
  <2>2. Len(written[f]) = s /\ p <= s /\ s <= PerBlock * inodes[i].num_block
    BY <1>1, <1>2, <1>3, <1>5, <1>6, <2>1 DEF LengthFits
  <2>3. p + 1 <= s
    BY <1>6, <2>2
  <2>4. inodes' = inodes /\ written' = written /\ handle'[f].pos = p + 1 /\ ~Writing(f)'
    BY <1>6, <1>8
  <2> QED BY <1>5, <1>11, <2>2, <2>3, <2>4 DEF LengthFits
<1>13. \A k : OnDisk(i, k)' = OnDisk(i, k) /\ written'[f][k + 1] = written[f][k + 1]
  BY <1>6 DEF OnDisk, Entry
<1>14. CASE ~Turning(handle[f])
  <2>1. /\ dropped' = dropped /\ handle'[f].block = b /\ handle'[f].cache = handle[f].cache
        /\ handle'[f].dirty = handle[f].dirty
    BY <1>6, <1>14
  <2>2. HandleFits(f)'
    <3>1. ~(p \div PerBlock > b)
      BY <1>3, <1>4, <1>14 DEF Turning
    <3>2. p < PerBlock * b + PerBlock
      <4>1. p \div PerBlock \in Nat /\ p < PerBlock * (p \div PerBlock) + PerBlock
        BY <1>3, Division, BlockOf
      <4> DEFINE q == p \div PerBlock
      <4>2. PerBlock * q <= PerBlock * b
        BY <1>4, <3>1, <4>1, BlocksInOrder
      <4>3. PerBlock * q \in Nat
        BY <4>1, BlocksInOrder
      <4> HIDE DEF q
      <4> QED BY <1>10, <4>1, <4>2, <4>3 DEF q
    <3>3. PerBlock * b <= p + 1 /\ p + 1 <= PerBlock * b + PerBlock
      BY <1>10, <3>2
    <3> QED BY <1>6, <1>7, <1>2, <1>11, <2>1, <3>3 DEF HandleFits
  <2>3. Failed(f)' <=> Failed(f)
    BY <1>1, <1>2, <1>4, <1>6, <1>8, <2>1 DEF Failed
  <2>4. BytesKept(i) => BytesKept(i)'
    <3>1. \A k : InCache(f, k)' <=> InCache(f, k)
      BY <1>1, <1>4, <1>8, <2>1 DEF InCache
    <3> QED BY <1>2, <1>6, <1>11, <1>13, <2>1, <3>1 DEF BytesKept
  <2>5. f \notin dropped' /\ ~Failed(f) => BytesKept(i)
    BY <1>2, <2>1 DEF Sound, ContentInv
  <2>6. FileSound(i)'
    BY <1>11, <1>12, <2>2, <2>3, <2>4, <2>5 DEF FileSound
  <2> QED BY <1>9, <2>6, OneFileStep
<1>15. CASE Turning(handle[f])
  <2>1. PICK m \in Parts(i) : m = b + 1
    BY <1>6, <1>15
  <2>2. /\ p = PerBlock * m /\ handle'[f].block = m
        /\ handle'[f].cache = disk[Entry(i, m)] /\ handle'[f].dirty = FALSE
        /\ dropped' = IF handle[f].dirty THEN dropped \union {f} ELSE dropped
    BY <1>6, <1>7, <1>15, <2>1
  <2>3. HandleFits(f)'
    <3>1. PerBlock * m <= p + 1 /\ p + 1 <= PerBlock * m + PerBlock
      BY <1>4, <1>10, <2>1, <2>2
    <3> QED BY <1>2, <1>6, <1>7, <1>11, <2>2, <3>1 DEF HandleFits
  <2>4. ~Failed(f)
    <3>1. inodes[i].num_block \in Nat
      BY <1>2, InodeFields
    <3>2. b \in Parts(i)
      BY <1>4, <2>1, <3>1 DEF Parts
    <3> QED BY <1>7, <3>2
  <2>5. ASSUME f \notin dropped' PROVE BytesKept(i)'
    <3>1. f \notin dropped /\ ~handle[f].dirty
      BY <2>2, <2>5
    <3>2. BytesKept(i)
      BY <1>2, <2>4, <3>1 DEF Sound, ContentInv
    <3>3. \A k \in 0..(Len(written[f]) - 1) : OnDisk(i, k) = written[f][k + 1]
      BY <1>2, <3>1, <3>2 DEF BytesKept
    <3>4. \A k : InCache(f, k)' => handle'[f].cache[k % PerBlock] = OnDisk(i, k)
      BY <2>2 DEF InCache, OnDisk
    <3>5. written' = written
      BY <1>6
    <3> QED BY <1>11, <1>13, <3>3, <3>4, <3>5 DEF BytesKept
  <2>6. FileSound(i)'
    BY <1>11, <1>12, <2>3, <2>4, <2>5 DEF FileSound
  <2> QED BY <1>9, <2>6, OneFileStep
<1> QED BY <1>14, <1>15

----------------------------------------------------------------------------
\* The actions that change the blocks of a file.
LEMMA FileUntouched ==
  ASSUME NEW j \in Slots, FileShaped(j), inodes'[j] = inodes[j],
         \A b \in Owned(j) : disk'[b] = disk[b]
  PROVE  FileShaped(j)' /\ Owned(j)' = Owned(j)
<1>1. disk'[Ix(j)] = disk[Ix(j)] /\ \A k \in Parts(j) : disk'[Entry(j, k)] = disk[Entry(j, k)]
  BY DEF Owned, Ix, Entry, Parts
<1>2. FileShaped(j)'
  BY <1>1 DEF FileShaped, Ix, Entry, Parts
<1>3. Owned(j)' = Owned(j)
  BY <1>1 DEF Owned, Ix
<1> QED BY <1>2, <1>3

LEMMA OwnedIs ==
  ASSUME NEW i
  PROVE  Owned(i) = {Ix(i)} \union {Entry(i, k) : k \in Parts(i)}
BY DEF Owned, Ix, Entry, Parts

LEMMA TurnToNewKeeps ==
  ASSUME TypeOK, Sound, TurnToNew, ~wild'
  PROVE  Sound'
<1>1. PICK f \in Ids : f = call.file /\ IsOpen(f)
  BY InWrite DEF TurnToNew
<1>2. PICK i \in Live : i = handle[f].inode /\ i \in Slots /\ inodes[i].id = f
  BY <1>1, FileOf
<1>3. PICK m \in Entries : m = handle[f].block + 1
  BY <1>1, TurnToNewEffect
<1>4. /\ call # NoCall /\ UNCHANGED <<call, written, dropped>>
      /\ Others(f) /\ handle'[f] \in Handle /\ handle'[f].inode = i
      /\ handle'[f].pos = handle[f].pos /\ handle[f].pos = PerBlock * m
      /\ handle'[f].block = m /\ handle'[f].dirty = FALSE
      /\ \A j \in Slots : j # i => inodes'[j] = inodes[j]
      /\ inodes'[i].id = f /\ inodes'[i].is_free = inodes[i].is_free
      /\ inodes'[i].size = inodes[i].size /\ inodes'[i].index = inodes[i].index
      /\ inodes'[i].num_block = inodes[i].num_block + 1
  BY <1>1, <1>2, <1>3, TurnToNewEffect
<1>5. PICK b \in free_blocks :
        /\ free_blocks' = free_blocks \ {b}
        /\ handle'[f].index = [handle[f].index EXCEPT ![m] = b]
        /\ m = inodes[i].num_block /\ handle[f].block \in Parts(i)
        /\ \A c \in Blocks : disk'[c] =
             IF c = Ix(i) THEN handle'[f].index
             ELSE IF c = handle[f].index[handle[f].block] THEN handle[f].cache ELSE disk[c]
  BY <1>1, <1>2, <1>3, TurnToNewEffect
<1>6. /\ handle[f].index \in IndexBlock /\ handle[f].cache \in DataBlock
      /\ \A k \in Entries : handle[f].index[k] = Entry(i, k)
      /\ FileShaped(i) /\ Parts(i) \subseteq Entries /\ ~Failed(f)
      /\ m \in Nat
  BY <1>1, <1>2, <1>5, OpenFile DEF Entries
<1>7. b \in Blocks \ Reserved /\ disk[b] \in DataBlock /\ b \notin Owned(i)
  BY DEF TypeOK, Sound, BlocksInv
<1>8. Live' = Live /\ \A j \in Slots : Ix(j)' = Ix(j)
  BY <1>2, <1>4 DEF Live, Ix
<1>9. /\ \A k \in Entries : Entry(i, k)' = IF k = m THEN b ELSE Entry(i, k)
      /\ disk'[Ix(i)] = handle'[f].index /\ Ix(i) \in Blocks \ Reserved
  <2>1. Ix(i) \in Blocks \ Reserved /\ disk'[Ix(i)] = handle'[f].index
    BY <1>5, <1>6 DEF FileShaped
  <2> QED BY <1>2, <1>5, <1>6, <1>8, <2>1 DEF Entry, Ix, IndexBlock
<1>10. /\ Parts(i)' = Parts(i) \union {m} /\ m \notin Parts(i)
       /\ Parts(i)' \subseteq Entries
  BY <1>3, <1>4, <1>5, <1>6 DEF Parts
<1>11. \A l \in Parts(i) : disk'[Entry(i, l)] =
         IF l = handle[f].block THEN handle[f].cache ELSE disk[Entry(i, l)]
  BY <1>5, <1>6, PartsDiffer
<1>12. \A c \in Blocks : c \notin Owned(i) => disk'[c] = disk[c]
  BY <1>5, <1>6, OwnedBlocks
<1>13. FileShaped(i)'
  <2>1. inodes'[i].num_block \in 1..MaxBlocks
    BY <1>3, <1>4, <1>5, <1>6, SizeAssumption DEF Entries
  <2>2. disk'[Ix(i)] \in IndexBlock
    BY <1>6, <1>7, <1>9, <1>5 DEF IndexBlock
  <2>3. ASSUME NEW k \in Parts(i)'
        PROVE  Entry(i, k)' \in Blocks \ Reserved /\ Entry(i, k)' # Ix(i)
               /\ disk'[Entry(i, k)'] \in DataBlock
    <3>1. CASE k = m
      BY <1>3, <1>7, <1>9, <1>12, <3>1, OwnedBlocks
    <3>2. CASE k # m
      <4>1. k \in Parts(i) /\ Entry(i, k)' = Entry(i, k)
        BY <1>6, <1>9, <1>10, <3>2
      <4>2. Entry(i, k) \in Blocks \ Reserved
        BY <1>6, <4>1 DEF FileShaped
      <4> QED BY <1>6, <1>11, <4>1, <4>2, PartsDiffer
    <3> QED BY <3>1, <3>2
  <2>4. \A k \in Entries : k \notin Parts(i)' => Entry(i, k)' = Junk
    BY <1>6, <1>9, <1>10 DEF FileShaped
  <2>5. ASSUME NEW k \in Parts(i)', NEW l \in Parts(i)', Entry(i, k)' = Entry(i, l)'
        PROVE  k = l
    <3>1. \A x \in Parts(i) : Entry(i, x)' = Entry(i, x) /\ Entry(i, x) # b
      BY <1>6, <1>7, <1>9, <1>10, OwnedBlocks
    <3>2. Entry(i, m)' = b
      BY <1>9
    <3>3. \A x, y \in Parts(i) : Entry(i, x) = Entry(i, y) => x = y
      BY PartsDiffer
    <3> QED BY <1>10, <2>5, <3>1, <3>2, <3>3
  <2> QED BY <1>1, <1>2, <1>4, <1>8, <1>9, <2>1, <2>2, <2>3, <2>4, <2>5 DEF FileShaped
<1>14. Owned(i)' = Owned(i) \union {b}
  <2>1. \A k \in Parts(i) : Entry(i, k)' = Entry(i, k)
    BY <1>6, <1>9, <1>10
  <2>2. Entry(i, m)' = b
    BY <1>9
  <2>3. Owned(i)' = {Ix(i)'} \union {Entry(i, k)' : k \in Parts(i)'}
    BY DEF Owned, Ix, Entry, Parts
  <2>4. Owned(i) = {Ix(i)} \union {Entry(i, k) : k \in Parts(i)}
    BY OwnedIs
  <2> QED BY <1>2, <1>8, <1>10, <2>1, <2>2, <2>3, <2>4
<1>15. ASSUME NEW j \in Live, j # i
       PROVE  /\ \A c \in Owned(j) : disk'[c] = disk[c]
              /\ inodes'[j] = inodes[j] /\ j \in Slots /\ inodes[j].id \in Ids
              /\ inodes[j].id # f /\ FileShaped(j)' /\ Owned(j)' = Owned(j)
  <2>1. j \in Slots /\ FileShaped(j) /\ inodes[j].id \in Ids /\ inodes[j].id # f
    BY <1>2, <1>15 DEF Live, Sound, BlocksInv, FileShaped, NamesInv
  <2>2. Owned(j) \subseteq Blocks /\ Owned(j) \intersect Owned(i) = {}
    BY <1>15, <2>1, OwnedIs DEF Sound, BlocksInv, FileShaped
  <2>3. \A c \in Owned(j) : disk'[c] = disk[c]
    BY <1>12, <2>2
  <2>4. inodes'[j] = inodes[j]
    BY <1>4, <1>15, <2>1
  <2> QED BY <2>1, <2>3, <2>4, FileUntouched
<1>16. BlocksInv'
  <2>1. \A j \in Live' : FileShaped(j)'
    BY <1>8, <1>13, <1>15
  <2>2. \A j \in Live' : Owned(j)' \intersect free_blocks' = {}
    BY <1>5, <1>8, <1>14, <1>15 DEF Sound, BlocksInv
  <2>3. \A j \in Live : b \notin Owned(j)
    BY DEF Sound, BlocksInv
  <2>4. \A j, l \in Live' : j # l => Owned(j)' \intersect Owned(l)' = {}
    BY <1>8, <1>14, <1>15, <2>3 DEF Sound, BlocksInv
  <2>5. \A c \in free_blocks' : disk'[c] \in DataBlock
    BY <1>5, <1>12 DEF Sound, BlocksInv, TypeOK
  <2>6. \A c \in Blocks : c \in Reserved \union free_blocks' \/ \E j \in Live' : c \in Owned(j)'
    BY <1>5, <1>8, <1>14, <1>15 DEF Sound, BlocksInv
  <2> QED BY <2>1, <2>2, <2>4, <2>5, <2>6 DEF BlocksInv
<1>17. NamesInv' /\ \A g \in Ids : Exists(g)' <=> Exists(g)
  BY <1>2, <1>4, <1>8 DEF Sound, NamesInv, Exists, Live
<1>18. /\ \A g : Writing(g)' <=> Writing(g)
       /\ IsOpen(f)' /\ (call # NoCall => IsOpen(call.file))'
  BY <1>1, <1>4, HandlesAreOpen DEF Writing, IsOpen
<1>19. FileSound(i)'
  <2>1. PerBlock * m \in Nat /\ PerBlock \in Nat /\ PerBlock * (m + 1) = PerBlock * m + PerBlock
    BY <1>6, BlocksInOrder, SizeAssumption
  <2>2. HandleFits(f)'
    <3>1. PerBlock * m <= PerBlock * m /\ PerBlock * m <= PerBlock * m + PerBlock
      BY <2>1
    <3> QED BY <1>2, <1>4, <1>8, <1>9, <3>1 DEF HandleFits
  <2>3. LengthFits(i) /\ Len(written[f]) \in Nat /\ inodes[i].size \in Nat
        /\ Len(written[f]) <= PerBlock * m
    BY <1>2, <1>5, <1>6, FileLength, InodeFields
  <2>4. LengthFits(i)'
    <3>1. inodes[i].size <= PerBlock * m
      BY <1>5, <2>3 DEF LengthFits
    <3>2. inodes'[i].size <= PerBlock * inodes'[i].num_block
      BY <1>4, <1>5, <2>1, <2>3, <3>1
    <3>3. written' = written /\ handle'[f].pos = handle[f].pos /\ (Writing(f)' <=> Writing(f))
      BY <1>4, <1>18
    <3> QED BY <1>1, <1>2, <1>4, <2>3, <3>2, <3>3 DEF LengthFits
  <2>5. ASSUME f \notin dropped' PROVE BytesKept(i)'
    <3>1. SUFFICES ASSUME NEW k \in 0..(Len(written[f]) - 1)
                   PROVE  ~InCache(f, k)' /\ OnDisk(i, k)' = written[f][k + 1]
      BY <1>4 DEF BytesKept
    <3>2. k \div PerBlock \in Parts(i) /\ k \div PerBlock # m /\ k \div PerBlock \in Entries
      BY <1>2, <1>6, <1>10, ByteInFile
    <3>3. disk'[Entry(i, k \div PerBlock)][k % PerBlock] = written[f][k + 1]
      <4>1. f \notin dropped /\ handle[f].block \in Parts(i) /\ f = inodes[i].id
        BY <1>2, <1>4, <1>5, <2>5
      <4> QED BY <1>1, <1>11, <4>1, BytesBack
    <3> QED BY <1>4, <1>9, <3>2, <3>3 DEF InCache, OnDisk
  <2> QED BY <1>4, <2>2, <2>4, <2>5 DEF FileSound
<1>20. \A j \in Live' : FileSound(j)'
  <2> SUFFICES ASSUME NEW j \in Live PROVE FileSound(j)'
    BY <1>8
  <2>1. CASE j # i
    <3>1. /\ handle'[inodes[j].id] = handle[inodes[j].id]
          /\ written'[inodes[j].id] = written[inodes[j].id]
          /\ inodes[j].id \in dropped => inodes[j].id \in dropped'
      BY <1>4, <1>15, <2>1 DEF Others
    <3> QED BY <1>15, <1>18, <2>1, <3>1, OtherFile
  <2> QED BY <1>19, <2>1
<1>21. \A g \in Ids : IsOpen(g)' => Exists(g)'
  <2> SUFFICES ASSUME NEW g \in Ids, IsOpen(g)' PROVE Exists(g)
    BY <1>17
  <2>1. IsOpen(g)
    BY <1>1, <1>4 DEF IsOpen, Others
  <2> QED BY <2>1 DEF Sound, HandlesInv, HandleFits, Exists, Live
<1>22. \A g \in Ids : ~Exists(g)' => written'[g] = <<>>
  BY <1>4, <1>17 DEF Sound, LengthsInv
<1> QED BY <1>16, <1>17, <1>18, <1>20, <1>21, <1>22, SoundNext DEF Arrives

LEMMA CreateKeeps ==
  ASSUME TypeOK, Sound, NEW f \in Ids, CreateFile(f)
  PROVE  Sound'
<1>1. ~Exists(f) /\ call = NoCall /\ UNCHANGED <<handle, call, written, dropped>>
  BY CreateEffect
<1>2. PICK i \in Slots, b \in free_blocks, d \in free_blocks :
        /\ b # d /\ inodes[i].is_free
        /\ \A j \in Slots : j # i => inodes'[j] = inodes[j]
        /\ inodes'[i].id = f /\ ~inodes'[i].is_free /\ inodes'[i].size = 0
        /\ inodes'[i].num_block = 1 /\ inodes'[i].index = b
        /\ free_blocks' = free_blocks \ {b, d}
        /\ \A c \in Blocks : c # b => disk'[c] = disk[c]
        /\ disk'[b] \in IndexBlock /\ disk'[b][0] = d
        /\ \A k \in Entries : k # 0 => disk'[b][k] = Junk
  BY CreateEffect
<1>3. /\ b \in Blocks \ Reserved /\ d \in Blocks \ Reserved
      /\ disk[d] \in DataBlock /\ \A j \in Live : b \notin Owned(j) /\ d \notin Owned(j)
  BY DEF TypeOK, Sound, BlocksInv
<1>4. Live' = Live \union {i} /\ i \notin Live
  BY <1>2 DEF Live
<1>5. ASSUME NEW j \in Live
      PROVE  /\ j # i /\ j \in Slots /\ inodes'[j] = inodes[j] /\ inodes[j].id \in Ids
             /\ inodes[j].id # f /\ \A c \in Owned(j) : disk'[c] = disk[c]
             /\ FileShaped(j)' /\ Owned(j)' = Owned(j)
  <2>1. j # i /\ j \in Slots /\ FileShaped(j)
    BY <1>4 DEF Live, Sound, BlocksInv
  <2>2. inodes'[j] = inodes[j] /\ inodes[j].id \in Ids /\ inodes[j].id # f
    BY <1>1, <1>2, <2>1 DEF FileShaped, Exists, Live
  <2>3. Owned(j) \subseteq Blocks
    BY <2>1, OwnedIs DEF FileShaped
  <2>4. \A c \in Owned(j) : disk'[c] = disk[c]
    BY <1>2, <1>3, <2>3
  <2> QED BY <2>1, <2>2, <2>4, FileUntouched
<1>6. Parts(i)' = {0} /\ Ix(i)' = b /\ 0 \in Entries
  BY <1>2, SizeAssumption DEF Parts, Ix, Entries
<1>7. /\ \A k \in Entries : Entry(i, k)' = IF k = 0 THEN d ELSE Junk
      /\ disk'[d] = disk[d]
  BY <1>2, <1>3, <1>6 DEF Entry, Ix
<1>8. FileShaped(i)'
  <2>1. inodes'[i].num_block \in 1..MaxBlocks
    BY <1>2, SizeAssumption
  <2> QED BY <1>2, <1>3, <1>6, <1>7, <2>1 DEF FileShaped
<1>9. Owned(i)' = {b, d}
  <2>1. Owned(i)' = {Ix(i)'} \union {Entry(i, k)' : k \in Parts(i)'}
    BY DEF Owned, Ix, Entry, Parts
  <2> QED BY <1>6, <1>7, <2>1
<1>10. BlocksInv'
  <2>1. \A j \in Live' : FileShaped(j)'
    BY <1>4, <1>5, <1>8
  <2>2. \A j \in Live' : Owned(j)' \intersect free_blocks' = {}
    BY <1>2, <1>4, <1>5, <1>9 DEF Sound, BlocksInv
  <2>3. \A j, l \in Live' : j # l => Owned(j)' \intersect Owned(l)' = {}
    BY <1>3, <1>4, <1>5, <1>9 DEF Sound, BlocksInv
  <2>4. \A c \in free_blocks' : disk'[c] \in DataBlock
    BY <1>2 DEF Sound, BlocksInv, TypeOK
  <2>5. \A c \in Blocks : c \in Reserved \union free_blocks' \/ \E j \in Live' : c \in Owned(j)'
    BY <1>2, <1>4, <1>5, <1>9 DEF Sound, BlocksInv
  <2> QED BY <2>1, <2>2, <2>3, <2>4, <2>5 DEF BlocksInv
<1>11. NamesInv'
  BY <1>2, <1>4, <1>5 DEF Sound, NamesInv
<1>12. \A g \in Ids : Exists(g)' <=> Exists(g) \/ g = f
  BY <1>2 DEF Exists
<1>13. \A g \in Ids : IsOpen(g) => Exists(g)
  BY DEF Sound, HandlesInv, HandleFits, Exists, Live
<1>14. /\ \A g : ~Writing(g) /\ ~Writing(g)'
       /\ call' = NoCall
       /\ \A g : IsOpen(g)' <=> IsOpen(g)
  BY <1>1 DEF Writing, IsOpen
<1>15. FileSound(i)'
  <2>1. ~IsOpen(f)' /\ inodes'[i].id = f
    BY <1>1, <1>2, <1>13, <1>14
  <2>2. written'[f] = <<>> /\ Len(written'[f]) = 0
    BY <1>1 DEF Sound, LengthsInv
  <2>3. LengthFits(i)'
    <3>1. 0 <= PerBlock * 1
      BY SizeAssumption
    <3> QED BY <1>2, <1>14, <2>1, <2>2, <3>1 DEF LengthFits
  <2>4. BytesKept(i)'
    BY <2>1, <2>2 DEF BytesKept
  <2> QED BY <2>1, <2>3, <2>4 DEF FileSound
<1>16. \A j \in Live' : FileSound(j)'
  <2>1. ASSUME NEW j \in Live PROVE FileSound(j)'
    BY <1>1, <1>5, <1>14, OtherFile
  <2> QED BY <1>4, <1>15, <2>1
<1>17. \A g \in Ids : ~Exists(g)' => written'[g] = <<>>
  BY <1>1, <1>12 DEF Sound, LengthsInv
<1> QED BY <1>10, <1>11, <1>12, <1>13, <1>14, <1>16, <1>17, SoundNext DEF Arrives

LEMMA DeleteKeeps ==
  ASSUME TypeOK, Sound, NEW f \in Ids, DeleteFile(f)
  PROVE  Sound'
<1>1. /\ call = NoCall /\ ~IsOpen(f) /\ UNCHANGED <<handle, call>>
      /\ written'[f] = <<>> /\ \A g \in Ids : g # f => written'[g] = written[g]
      /\ dropped' = dropped \ {f}
  BY DeleteEffect
<1>2. PICK i \in Live :
        /\ inodes[i].id = f
        /\ \A j \in Slots : j # i => inodes'[j] = inodes[j]
        /\ inodes'[i].is_free /\ inodes'[i].id = f
        /\ free_blocks' = free_blocks \union Owned(i)
        /\ \A b \in Blocks : disk'[b] = IF b \in Owned(i) THEN Nothing ELSE disk[b]
  BY DeleteEffect
<1>3. Live' = Live \ {i}
  BY <1>2 DEF Live
<1>4. Nothing \in DataBlock
  BY DEF Nothing, DataBlock, Bytes
<1>5. ASSUME NEW j \in Live, j # i
      PROVE  /\ j \in Slots /\ inodes'[j] = inodes[j] /\ inodes[j].id \in Ids
             /\ inodes[j].id # f /\ \A c \in Owned(j) : disk'[c] = disk[c]
             /\ FileShaped(j)' /\ Owned(j)' = Owned(j)
  <2>1. j \in Slots /\ FileShaped(j)
    BY DEF Live, Sound, BlocksInv
  <2>2. inodes'[j] = inodes[j] /\ inodes[j].id \in Ids /\ inodes[j].id # f
    BY <1>2, <1>5, <2>1 DEF FileShaped, Sound, NamesInv
  <2>3. Owned(j) \subseteq Blocks /\ Owned(j) \intersect Owned(i) = {}
    BY <1>5, <2>1, OwnedIs DEF FileShaped, Sound, BlocksInv
  <2>4. \A c \in Owned(j) : disk'[c] = disk[c]
    BY <1>2, <2>3
  <2> QED BY <2>1, <2>2, <2>4, FileUntouched
<1>6. BlocksInv'
  <2>1. \A j \in Live' : FileShaped(j)'
    BY <1>3, <1>5
  <2>2. \A j \in Live' : Owned(j)' \intersect free_blocks' = {}
    BY <1>2, <1>3, <1>5 DEF Sound, BlocksInv
  <2>3. \A j, l \in Live' : j # l => Owned(j)' \intersect Owned(l)' = {}
    BY <1>3, <1>5 DEF Sound, BlocksInv
  <2>4. \A c \in free_blocks' : disk'[c] \in DataBlock
    <3>1. Owned(i) \subseteq Blocks
      BY OwnedIs DEF FileShaped, Sound, BlocksInv
    <3> QED BY <1>2, <1>4, <3>1 DEF Sound, BlocksInv, TypeOK
  <2>5. \A c \in Blocks : c \in Reserved \union free_blocks' \/ \E j \in Live' : c \in Owned(j)'
    BY <1>2, <1>3, <1>5 DEF Sound, BlocksInv
  <2> QED BY <2>1, <2>2, <2>3, <2>4, <2>5 DEF BlocksInv
<1>7. NamesInv'
  BY <1>3, <1>5 DEF Sound, NamesInv
<1>8. \A g \in Ids : g # f => (Exists(g)' <=> Exists(g))
  BY <1>2 DEF Exists, Live
<1>9. /\ \A g : ~Writing(g) /\ ~Writing(g)'
      /\ call' = NoCall
      /\ \A g : IsOpen(g)' <=> IsOpen(g)
  BY <1>1 DEF Writing, IsOpen
<1>10. \A j \in Live' : FileSound(j)'
  <2> SUFFICES ASSUME NEW j \in Live, j # i PROVE FileSound(j)'
    BY <1>3
  <2> QED BY <1>1, <1>5, <1>9, OtherFile
<1>11. \A g \in Ids : IsOpen(g)' => Exists(g)'
  <2>1. \A g \in Ids : IsOpen(g) => Exists(g)
    BY DEF Sound, HandlesInv, HandleFits, Exists, Live
  <2> QED BY <1>1, <1>8, <1>9, <2>1
<1>12. \A g \in Ids : ~Exists(g)' => written'[g] = <<>>
  BY <1>1, <1>8 DEF Sound, LengthsInv
<1> QED BY <1>6, <1>7, <1>9, <1>10, <1>11, <1>12, SoundNext DEF Arrives

----------------------------------------------------------------------------
\* What the properties are about does not change in a stuttering step.
LEMMA SoundUnchanged ==
  ASSUME UNCHANGED vars
  PROVE  UNCHANGED Sound
<1>1. /\ inodes' = inodes /\ free_blocks' = free_blocks /\ disk' = disk /\ handle' = handle
      /\ call' = call /\ written' = written /\ dropped' = dropped
  BY DEF vars
<1>2. /\ Live' = Live
      /\ \A i : Ix(i)' = Ix(i) /\ Parts(i)' = Parts(i) /\ Owned(i)' = Owned(i)
      /\ \A i, k : Entry(i, k)' = Entry(i, k)
  BY <1>1 DEF Live, Ix, Parts, Owned, Entry
<1>3. \A f : /\ IsOpen(f)' <=> IsOpen(f)
             /\ Writing(f)' <=> Writing(f)
             /\ Exists(f)' <=> Exists(f)
  BY <1>1 DEF IsOpen, Writing, Exists
<1>4. \A f : Failed(f)' <=> Failed(f)
  BY <1>1, <1>3 DEF Failed
<1>5. \A i : FileShaped(i)' <=> FileShaped(i)
  BY <1>1, <1>2 DEF FileShaped
<1>6. BlocksInv' <=> BlocksInv
  BY <1>1, <1>2, <1>5 DEF BlocksInv
<1>7. NamesInv' <=> NamesInv
  BY <1>1, <1>2 DEF NamesInv
<1>8. HandlesInv' <=> HandlesInv
  BY <1>1, <1>2, <1>3 DEF HandlesInv, HandleFits
<1>9. LengthsInv' <=> LengthsInv
  BY <1>1, <1>2, <1>3, <1>4 DEF LengthsInv, LengthFits
<1>10. \A i, k : OnDisk(i, k)' = OnDisk(i, k) /\ (InCache(i, k)' <=> InCache(i, k))
  BY <1>1, <1>2, <1>3 DEF OnDisk, InCache
<1>11. \A i : BytesKept(i)' <=> BytesKept(i)
  BY <1>1, <1>10 DEF BytesKept
<1>12. ContentInv' <=> ContentInv
  BY <1>1, <1>2, <1>4, <1>11 DEF ContentInv
<1> QED BY <1>6, <1>7, <1>8, <1>9, <1>12 DEF Sound

LEMMA SoundKept ==
  ASSUME TypeOK, Sound, Next, ~wild'
  PROVE  Sound'
<1>1. ASSUME NEW f \in Ids,
             \/ CreateFile(f) \/ CreateFails(f) \/ DeleteFile(f)
             \/ Open(f) \/ Close(f) \/ Reset(f)
             \/ \E op \in {"read", "write"}, n \in 1..MaxCount : Start(op, f, n)
      PROVE  Sound'
  <2>1. CreateFails(f) => UNCHANGED Sound
    BY CreateFailsEffect, SoundUnchanged
  <2> QED BY <1>1, <2>1, CreateKeeps, DeleteKeeps, OpenKeeps, CloseKeeps, ResetKeeps, StartKeeps
<1>2. ASSUME NEW v \in Values, Put(v) PROVE Sound'
  BY <1>2, PutKeeps
<1> QED BY <1>1, <1>2, TurnToNextKeeps, TurnToNewKeeps, TurnFailsKeeps, EndWriteKeeps, GetKeeps,
           EndReadKeeps DEF Next

----------------------------------------------------------------------------
\* The disk in step with the memory.
LEMMA DiskStays ==
  ASSUME DiskFollowsMemory, UNCHANGED <<inodes, free_blocks, disk_inodes, disk_free>>,
         \A g \in Ids : IsOpen(g) => handle'[g] # Closed /\ handle'[g].inode = handle[g].inode
  PROVE  DiskFollowsMemory'
<1> SUFFICES ASSUME NEW i \in Slots PROVE SavedInode(i)'
  BY DEF DiskFollowsMemory
<1>1. SavedInode(i)
  BY DEF DiskFollowsMemory
<1> QED BY <1>1 DEF SavedInode, IsOpen

LEMMA DiskSaved ==
  ASSUME disk_inodes' = inodes', disk_free' = free_blocks'
  PROVE  DiskFollowsMemory'
BY DEF DiskFollowsMemory, SavedInode

LEMMA OneHandle ==
  ASSUME DiskFollowsMemory, UNCHANGED <<inodes, free_blocks, disk_inodes, disk_free>>,
         NEW f \in Ids, Others(f),
         IsOpen(f) => handle'[f] \in Handle /\ handle'[f].inode = handle[f].inode
  PROVE  DiskFollowsMemory'
<1>1. \A g \in Ids : IsOpen(g) => handle'[g] # Closed /\ handle'[g].inode = handle[g].inode
  BY HandlesAreOpen DEF Others, IsOpen
<1> QED BY <1>1, DiskStays

LEMMA DiskFollows ==
  ASSUME TypeOK, Sound, DiskFollowsMemory, Next
  PROVE  DiskFollowsMemory'
<1>1. ASSUME NEW f \in Ids, CreateFile(f) \/ DeleteFile(f) PROVE DiskFollowsMemory'
  BY <1>1, CreateEffect, DeleteEffect, DiskSaved
<1>2. ASSUME NEW f \in Ids, CreateFails(f) PROVE DiskFollowsMemory'
  <2>1. UNCHANGED vars
    BY <1>2, CreateFailsEffect
  <2> QED BY <2>1, DiskStays DEF vars, IsOpen
<1>3. ASSUME NEW f \in Ids, Open(f) PROVE DiskFollowsMemory'
  BY <1>3, OpenEffect, OneHandle
<1>4. ASSUME NEW f \in Ids, Close(f) PROVE DiskFollowsMemory'
  <2>1. disk_inodes' = inodes' /\ disk_free' = free_blocks'
    BY <1>4, CloseEffect DEF DiskFollowsMemory
  <2> QED BY <2>1, DiskSaved
<1>5. ASSUME NEW f \in Ids, Reset(f) PROVE DiskFollowsMemory'
  BY <1>5, ResetEffect, OneHandle
<1>6. ASSUME NEW f \in Ids, NEW op \in {"read", "write"}, NEW n \in 1..MaxCount, Start(op, f, n)
      PROVE  DiskFollowsMemory'
  <2>1. UNCHANGED <<inodes, free_blocks, disk_inodes, disk_free, handle>>
    BY <1>6, StartEffect
  <2> QED BY <2>1, DiskStays DEF IsOpen
<1>7. ASSUME TurnToNext \/ TurnFails PROVE DiskFollowsMemory'
  <2>1. PICK f \in Ids : f = call.file
    BY <1>7, InWrite DEF TurnToNext, TurnFails
  <2> QED BY <1>7, <2>1, TurnToNextEffect, TurnFailsEffect, OneHandle
<1>8. ASSUME TurnToNew PROVE DiskFollowsMemory'
  BY <1>8, TurnToNewEffect, DiskSaved
<1>9. ASSUME NEW v \in Values, Put(v) PROVE DiskFollowsMemory'
  <2>1. PICK f \in Ids : f = call.file
    BY <1>9, InWrite DEF Put
  <2> QED BY <1>9, <2>1, PutEffect, OneHandle
<1>10. ASSUME Get PROVE DiskFollowsMemory'
  <2>1. PICK f \in Ids : f = call.file
    BY <1>10, InRead DEF Get
  <2>2. CASE wild'
    <3>1. UNCHANGED <<inodes, free_blocks, disk_inodes, disk_free, handle>>
      BY <1>10, <2>2, GetEffect
    <3> QED BY <3>1, DiskStays DEF IsOpen
  <2>3. CASE ~wild'
    BY <1>10, <2>1, <2>3, GetEffect, OneHandle
  <2> QED BY <2>2, <2>3
<1>11. ASSUME EndRead PROVE DiskFollowsMemory'
  <2>1. UNCHANGED <<inodes, free_blocks, disk_inodes, disk_free, handle>>
    BY <1>11, EndReadEffect
  <2> QED BY <2>1, DiskStays DEF IsOpen
<1>12. ASSUME EndWrite PROVE DiskFollowsMemory'
  <2>1. PICK f \in Ids : f = call.file /\ IsOpen(f)
    BY <1>12, InWrite DEF EndWrite
  <2>2. PICK i \in Live : i = handle[f].inode /\ i \in Slots
    BY <2>1, FileOf
  <2>3. /\ UNCHANGED <<free_blocks, disk_inodes, disk_free, handle>>
        /\ \A j \in Slots : j # i => inodes'[j] = inodes[j]
        /\ inodes'[i] = [inodes[i] EXCEPT !.size = Larger(handle[f].pos, inodes[i].size)]
    BY <1>12, <2>1, <2>2, EndWriteEffect
  <2> SUFFICES ASSUME NEW j \in Slots PROVE SavedInode(j)'
    BY <2>3 DEF DiskFollowsMemory
  <2>4. SavedInode(j)
    BY DEF DiskFollowsMemory
  <2>5. CASE j # i
    BY <2>3, <2>4, <2>5 DEF SavedInode, IsOpen
  <2>6. CASE j = i
    <3>1. /\ inodes[i] \in Inode /\ disk_inodes[i] \in Inode
      BY <2>2 DEF TypeOK
    <3>2. disk_inodes[i] = [inodes[i] EXCEPT !.size = disk_inodes[i].size]
      BY <2>4, <2>6, <3>1 DEF SavedInode, Inode
    <3>3. [inodes'[i] EXCEPT !.size = disk_inodes[i].size]
            = [inodes[i] EXCEPT !.size = disk_inodes[i].size]
      BY <2>3, <3>1 DEF Inode
    <3> QED BY <2>1, <2>2, <2>3, <2>6, <3>2, <3>3 DEF SavedInode, IsOpen
  <2> QED BY <2>5, <2>6
<1> QED BY <1>1, <1>2, <1>3, <1>4, <1>5, <1>6, <1>7, <1>8, <1>9, <1>10, <1>11, <1>12 DEF Next

LEMMA TypeKept ==
  ASSUME TypeOK, Sound, Next
  PROVE  TypeOK'
<1>1. ASSUME NEW f \in Ids, CreateFails(f) PROVE TypeOK'
  <2>1. UNCHANGED vars
    BY <1>1, CreateFailsEffect
  <2> QED BY <2>1 DEF vars, TypeOK
<1>2. ASSUME NEW f \in Ids, \E op \in {"read", "write"}, n \in 1..MaxCount : Start(op, f, n)
      PROVE  TypeOK'
  BY <1>2, StartEffect
<1>3. ASSUME NEW f \in Ids,
             CreateFile(f) \/ DeleteFile(f) \/ Open(f) \/ Close(f) \/ Reset(f)
      PROVE  TypeOK'
  BY <1>3, CreateEffect, DeleteEffect, OpenEffect, CloseEffect, ResetEffect
<1>4. ASSUME TurnToNext \/ TurnToNew \/ TurnFails \/ EndWrite PROVE TypeOK'
  BY <1>4, TurnToNextEffect, TurnToNewEffect, TurnFailsEffect, EndWriteEffect
<1>5. ASSUME (\E v \in Values : Put(v)) \/ Get \/ EndRead PROVE TypeOK'
  BY <1>5, PutEffect, GetEffect, EndReadEffect
<1> QED BY <1>1, <1>2, <1>3, <1>4, <1>5 DEF Next

\* Nothing runs on after a block was written astray.
LEMMA WildEnds == Next => ~wild
BY DEF Next, CreateFile, CreateFails, DeleteFile, Open, Close, Reset, Start, Idle,
       TurnToNext, TurnToNew, TurnFails, EndWrite, Put, Get, EndRead, In

----------------------------------------------------------------------------
\* The invariant.
LEMMA InvInit == Init => IInv
<1> SUFFICES ASSUME Init PROVE IInv
  OBVIOUS
<1>1. /\ inodes = [i \in Slots |-> NoInode] /\ free_blocks = Blocks \ Reserved
      /\ disk_inodes = inodes /\ disk_free = free_blocks /\ disk = [b \in Blocks |-> Nothing]
      /\ handle = [f \in Ids |-> Closed] /\ call = NoCall
      /\ written = [f \in Ids |-> <<>>] /\ dropped = {} /\ wild = FALSE
  BY DEF Init
<1>2. NoInode \in Inode /\ NoInode.is_free = TRUE
  BY DEF NoInode, Inode
<1>3. TypeOK
  <2>1. inodes \in [Slots -> Inode] /\ disk_inodes \in [Slots -> Inode] /\ DOMAIN disk = Blocks
    BY <1>1, <1>2
  <2>2. handle \in [Ids -> Handle \union {Closed}] /\ written \in [Ids -> Seq(Values)]
    BY <1>1
  <2> QED BY <1>1, <2>1, <2>2 DEF TypeOK
<1>4. Live = {} /\ \A f \in Ids : ~IsOpen(f)
  BY <1>1, <1>2 DEF Live, IsOpen
<1>5. DiskFollowsMemory
  BY <1>1 DEF DiskFollowsMemory, SavedInode
<1>6. Nothing \in DataBlock
  BY DEF Nothing, DataBlock, Bytes
<1>7. BlocksInv
  BY <1>1, <1>4, <1>6 DEF BlocksInv
<1>8. NamesInv /\ HandlesInv /\ LengthsInv /\ ContentInv
  BY <1>1, <1>4 DEF NamesInv, HandlesInv, LengthsInv, ContentInv
<1> QED BY <1>1, <1>3, <1>5, <1>7, <1>8 DEF IInv, Sound

LEMMA InvNext == IInv /\ [Next]_vars => IInv'
<1>1. ASSUME IInv, Next PROVE IInv'
  <2>1. ~wild /\ TypeOK /\ DiskFollowsMemory /\ Sound
    BY <1>1, WildEnds DEF IInv
  <2>2. TypeOK' /\ DiskFollowsMemory'
    BY <1>1, <2>1, TypeKept, DiskFollows
  <2>3. ~wild' => Sound'
    BY <1>1, <2>1, SoundKept
  <2> QED BY <2>2, <2>3 DEF IInv
<1>2. ASSUME IInv, UNCHANGED vars PROVE IInv'
  <2>1. TypeOK' /\ wild' = wild
    BY <1>2 DEF IInv, TypeOK, vars
  <2>2. DiskFollowsMemory'
    BY <1>2, DiskStays DEF IInv, vars, IsOpen
  <2>3. Sound => Sound'
    BY <1>2, SoundUnchanged
  <2> QED BY <1>2, <2>1, <2>2, <2>3 DEF IInv
<1> QED BY <1>1, <1>2

\* A position that is not turning is in its block, one behind it at the next.
LEMMA InBlock ==
  ASSUME NEW p \in Nat, NEW b \in Nat, PerBlock * b <= p, ~(p \div PerBlock > b)
  PROVE  p \div PerBlock = b
<1> DEFINE q == p \div PerBlock
<1>1. q \in Nat /\ PerBlock * q \in Nat /\ p < PerBlock * q + PerBlock
  BY Division, BlockOf
<1>2. PerBlock * b \in Nat /\ (q < b => PerBlock * q + PerBlock <= PerBlock * b)
  BY <1>1, BlocksInOrder
<1>3. ~(q > b)
  OBVIOUS
<1> HIDE DEF q
<1>4. PerBlock \in Nat
  BY SizeAssumption
<1>5. q = b
  BY <1>1, <1>2, <1>3, <1>4
<1> QED BY <1>5 DEF q

LEMMA AtBlock ==
  ASSUME NEW b \in Nat
  PROVE  (PerBlock * b) \div PerBlock = b
<1>1. PerBlock * b \in Nat /\ PerBlock \in Nat \ {0}
  BY BlocksInOrder, SizeAssumption
<1> DEFINE k == PerBlock * b
<1> HIDE DEF k
<1>2. k \in Nat /\ PerBlock * b <= k /\ k < PerBlock * b + PerBlock
  BY <1>1 DEF k
<1>3. k \div PerBlock = b
  BY <1>2, BlockOf
<1> QED BY <1>3 DEF k

\* Only Get moves the position during a Read.
LEMMA OnlyGetReads ==
  ASSUME TypeOK, Sound, Next, NEW f \in Ids, Reads(f)
  PROVE  Get
<1>1. call # NoCall /\ call.op = "read" /\ call.file = f /\ IsOpen(f)
  BY CallsAreOpen DEF Reads, NoCall, Sound, HandlesInv
<1>2. handle[f].pos \in Nat /\ handle'[f].pos = handle[f].pos + 1
  BY <1>1, HandleFields DEF Reads
<1>3. handle'[f] # handle[f]
  BY <1>2
<1> QED BY <1>1, <1>3 DEF Next, Idle, In, CreateFile, CreateFails, DeleteFile, Open, Close, Reset,
           Start, TurnToNext, TurnToNew, TurnFails, EndWrite, Put, EndRead

\* The byte it hands out is the cached one, of the old block or of the next.
LEMMA GetReturns ==
  ASSUME TypeOK, Sound, Get, NEW f \in Ids, Reads(f), f \notin dropped', ~Failed(f)
  PROVE  /\ handle[f].pos < Len(written[f])
         /\ handle'[f].cache[Byte(handle[f])] = written[f][handle[f].pos + 1]
<1>1. f = call.file /\ IsOpen(f)
  BY InRead DEF Get, Reads
<1>2. PICK i \in Live : i = handle[f].inode /\ i \in Slots /\ inodes[i].id = f
  BY <1>1, FileOf
<1>3. PICK p \in Nat : p = handle[f].pos
  BY <1>1, OpenFile
<1>4. PICK b \in Nat : b = handle[f].block
  BY <1>1, OpenFile DEF Entries
<1>5. PICK s \in Nat : s = inodes[i].size
  BY <1>2, InodeFields
<1>6. /\ \A g \in Ids : ~Writing(g)
      /\ p # s
      /\ \/ /\ ~Turning(handle[f]) /\ dropped' = dropped
            /\ handle'[f].cache = handle[f].cache
         \/ /\ Turning(handle[f]) /\ p = PerBlock * (b + 1) /\ b + 1 \in Parts(i)
            /\ handle'[f].cache = disk[handle[f].index[b + 1]]
            /\ dropped' = IF handle[f].dirty THEN dropped \union {f} ELSE dropped
  <2>1. handle'[f].pos = p + 1 /\ p + 1 # p
    BY <1>3 DEF Reads
  <2>2. ~wild'
    BY <1>1, <1>3, <2>1, GetEffect
  <2> QED BY <1>1, <1>2, <1>3, <1>4, <1>5, <2>2, GetEffect
<1>7. /\ HandleFits(f) /\ \A k \in Parts(i) : handle[f].index[k] = Entry(i, k)
  BY <1>1, <1>2, OpenFile DEF Sound, HandlesInv
<1>8. p < Len(written[f])
  <2>1. LengthFits(i) /\ Len(written[f]) \in Nat
    BY <1>2, FileLength
  <2>2. Len(written[f]) = s /\ p <= s
    BY <1>1, <1>2, <1>3, <1>5, <1>6, <2>1 DEF LengthFits
  <2> QED BY <1>3, <1>5, <1>6, <2>1, <2>2
<1>9. f \notin dropped /\ BytesKept(i)
  <2>1. f \notin dropped
    BY <1>6
  <2> QED BY <1>2, <2>1 DEF Sound, ContentInv
<1>10. p \in 0..(Len(written[f]) - 1)
  BY <1>2, <1>3, <1>8, FileLength
<1>11. CASE ~Turning(handle[f])
  <2>1. p \div PerBlock = b
    BY <1>2, <1>3, <1>4, <1>7, <1>11, InBlock DEF HandleFits, Turning
  <2>2. InCache(f, p)
    BY <1>1, <1>4, <2>1 DEF InCache
  <2>3. handle[f].cache[p % PerBlock] = written[f][p + 1]
    BY <1>2, <1>9, <1>10, <2>2 DEF BytesKept
  <2>4. handle'[f].cache = handle[f].cache
    BY <1>6, <1>11
  <2> QED BY <1>3, <1>8, <2>3, <2>4 DEF Byte
<1>12. CASE Turning(handle[f])
  <2>1. /\ p = PerBlock * (b + 1) /\ b + 1 \in Parts(i)
        /\ handle'[f].cache = disk[handle[f].index[b + 1]] /\ ~handle[f].dirty
    BY <1>6, <1>12
  <2>2. p \div PerBlock = b + 1
    <3>1. b + 1 \in Nat
      BY <1>4
    <3> QED BY <2>1, <3>1, AtBlock
  <2>3. OnDisk(i, p) = written[f][p + 1]
    BY <1>2, <1>9, <1>10, <2>1 DEF BytesKept
  <2>4. handle'[f].cache[p % PerBlock] = OnDisk(i, p)
    BY <1>7, <2>1, <2>2 DEF OnDisk
  <2> QED BY <1>3, <1>8, <2>3, <2>4 DEF Byte
<1> QED BY <1>11, <1>12

LEMMA InvBlocks == IInv => BlocksAccounted
<1> SUFFICES ASSUME IInv, ~wild, NEW b \in Blocks
             PROVE  Cardinality({i \in Live : b \in Owned(i)})
                      + (IF b \in free_blocks THEN 1 ELSE 0)
                      + (IF b \in Reserved THEN 1 ELSE 0) = 1
  BY DEF BlocksAccounted
<1> DEFINE L == {i \in Live : b \in Owned(i)}
<1>1. TypeOK /\ BlocksInv
  BY DEF IInv, Sound
<1>2. L = {} \/ \E i \in Live : L = {i}
  BY <1>1 DEF BlocksInv
<1>3. Cardinality(L) = IF L = {} THEN 0 ELSE 1
  <2> HIDE DEF L
  <2> QED BY <1>2, FS_EmptySet, FS_Singleton
<1>4. \A i \in Live : Owned(i) \intersect Reserved = {}
  BY <1>1, OwnedIs DEF BlocksInv, FileShaped
<1>5. L # {} => b \notin free_blocks /\ b \notin Reserved
  BY <1>1, <1>4 DEF BlocksInv
<1>6. L = {} => b \in free_blocks \/ b \in Reserved
  BY <1>1 DEF BlocksInv
<1>7. ~(b \in free_blocks /\ b \in Reserved)
  BY <1>1 DEF TypeOK
<1> HIDE DEF L
<1> QED BY <1>3, <1>5, <1>6, <1>7 DEF L

LEMMA InvWrites == IInv => WritesKept
<1> SUFFICES ASSUME IInv, ~wild, NEW f \in Ids, Exists(f), f \notin dropped, ~Failed(f)
             PROVE  Kept(f)
  BY DEF WritesKept
<1>1. TypeOK /\ Sound
  BY DEF IInv
<1>2. PICK i \in Live : i = LookupFile(f) /\ inodes[i].id = f /\ i \in Slots
  BY <1>1, ExistsIs DEF Sound, Live
<1>3. LengthFits(i) /\ Len(written[f]) \in Nat /\ inodes[i].size \in Nat /\ BytesKept(i)
  BY <1>1, <1>2, FileLength, InodeFields DEF Sound, ContentInv
<1>4. IsOpen(f) => handle[f].pos \in Nat
  BY <1>1, HandleFields
<1>5. Writing(f) => IsOpen(f)
  BY <1>1 DEF Writing, Sound, HandlesInv
<1>6. inodes[i].size <= Len(written[f])
  BY <1>2, <1>3, <1>4, <1>5 DEF LengthFits, Larger
<1> SUFFICES ASSUME NEW k \in 0..(inodes[i].size - 1) PROVE Stored(f, k) = written[f][k + 1]
  BY <1>2 DEF Kept
<1>7. k \in 0..(Len(written[f]) - 1)
  BY <1>3, <1>6
<1>8. /\ InCache(f, k) => handle[f].cache[k % PerBlock] = written[f][k + 1]
      /\ ~InCache(f, k) => OnDisk(i, k) = written[f][k + 1]
  BY <1>2, <1>3, <1>7 DEF BytesKept
<1> QED BY <1>2, <1>8 DEF Stored, InCache, OnDisk, Entry

----------------------------------------------------------------------------
\* The fields of inodes, handles and calls stay what the code declares, and a
\* handle stands on an entry its index block has.
THEOREM TypesStay == Spec => []TypeOK
<1>1. IInv => TypeOK
  BY DEF IInv
<1> QED BY <1>1, InvInit, InvNext, PTL DEF Spec

\* Every block of the disk has exactly one use: CreateFile, DeleteFile and the
\* growth in Write neither share a block nor lose one, for any number of files.
THEOREM EveryBlockHasOneUse == Spec => []BlocksAccounted
BY InvInit, InvNext, InvBlocks, PTL DEF Spec

\* The free list and the inodes on disk are those in memory, up to the size of
\* files that are open: there is no moment at which a remount would lose a file.
THEOREM DiskIsSaved == Spec => []DiskFollowsMemory
<1>1. IInv => DiskFollowsMemory
  BY DEF IInv
<1> QED BY <1>1, InvInit, InvNext, PTL DEF Spec

\* A byte that Write took is what its place in the file holds, whatever is
\* done with this file and others, unless Read dropped a modified block of it or
\* a Write ran out of blocks.
THEOREM BytesStay == Spec => []WritesKept
BY InvInit, InvNext, InvWrites, PTL DEF Spec

\* What Read hands out is what was written there, and nothing beyond the last
\* byte written, with the same two exceptions.
THEOREM ReadsReturn == Spec => ReadsReturnWrites
<1> DEFINE Returns(f) ==
      LET h == handle[f]
      IN  /\ h.pos < Len(written[f])
          /\ handle'[f].cache[Byte(h)] = written[f][h.pos + 1]
           Step == \A f \in Ids : Reads(f) /\ f \notin dropped' /\ ~Failed(f) => Returns(f)
<1>1. IInv /\ [Next]_vars => [Step]_vars
  <2> SUFFICES ASSUME IInv, Next, NEW f \in Ids, Reads(f), f \notin dropped', ~Failed(f)
               PROVE  Returns(f)
    OBVIOUS
  <2>1. TypeOK /\ Sound /\ ~wild
    BY WildEnds DEF IInv
  <2>2. Get
    BY <2>1, OnlyGetReads
  <2> QED BY <2>1, <2>2, GetReturns
<1> QED BY <1>1, InvInit, InvNext, PTL DEF Spec, ReadsReturnWrites
=============================================================================
