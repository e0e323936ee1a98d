------------------------------- MODULE Volume -------------------------------
(***************************************************************************)
(* What a partition holds: bitmaps, inode table, directories and the       *)
(* blocks of files (fs/fs.c, fs/dir.c, fs/inode.c, fs/file.c), with what   *)
(* memory has of it: the bitmaps and the list open_inodes.                 *)
(*                                                                         *)
(* Calls are atomic: one that changes any of this has the disk to itself   *)
(* (SyscallsDoNotInterleave of module Ide).  One process makes them; it    *)
(* has at most one file open (for sharing see module Files).  Memory for   *)
(* buffers is always found.                                                *)
(*                                                                         *)
(* A path is the sequence of its names.  A byte of a file is the pair of   *)
(* its inode number and its offset, so that a byte in the wrong place can  *)
(* be told.  The size of a directory counts its entries.                   *)
(***************************************************************************)
EXTENDS Integers, Sequences, FiniteSets

CONSTANTS
  Name,           \* names of files and directories
  Direct,         \* number of direct blocks of an inode, 12 in the code
  Indirect,       \* entries of an indirect block table, 128
  BlockSize,      \* bytes of a block, 512
  PerBlock,       \* directory entries of a block, 21
  BitsPerSector,  \* bits of a sector of a bitmap, 4096
  MaxBlock,       \* bits of block_bitmap that stand for blocks: one more than
                  \* the partition has (the <= in partition_format)
  MaxINo,         \* inodes of the partition beside the root directory
  MaxDepth,       \* bound on the length of paths
  Counts          \* the numbers of bytes programs write in one call

ASSUME VolumeAssumption ==
  /\ {"", ".", ".."} \cap Name = {}
  /\ {Direct, Indirect, BlockSize, BitsPerSector, MaxBlock} \subseteq Nat \ {0}
  /\ PerBlock \in Nat \ {0, 1}
  /\ MaxINo \in 0..255 /\ MaxDepth \in Nat /\ Counts \subseteq Nat \ {0}

Block == 1..MaxBlock   \* data_start_lba is block 1; 0 is no block
INo == 0..MaxINo
Root == 0              \* root_inode_no
AllIdx == 0..(Direct + Indirect - 1)
Path == UNION {[1..k -> Name] : k \in 1..MaxDepth}
\* The paths programs give to system calls
Args == UNION {[1..k -> Name \cup {".", ".."}] : k \in 0..MaxDepth}

VARIABLES
  vol,     \* the partition and what memory has of it
  file,    \* the open file: number (0 if there is none) and inode
  cwd,     \* cwd_inode_nr
  kernel   \* "up", the ASSERT that failed, or one of Broken

volumeVars == <<vol, file, cwd, kernel>>

\* The ASSERTs: a path to the root in sys_unlink and sys_rmdir; an entry
\* found again in delete_dir_entry; an empty directory with a second block in
\* dir_remove; in file_write too many blocks, a block or a table that is there
\* before it is allocated, one that is not there; sys_getcwd of what is gone.
Asserts == {"inode_no", "found_again", "second_block", "max_blocks",
            "sector_used", "table_used", "no_sector", "no_parent"}

\* Where the model ends, because what follows depends on bytes it does not
\* have: "stale" when open_inodes has another inode of a directory than the
\* disk (it is gone and its number is used again, or a table it had was lost
\* in memory on a full disk), "torn" when an inode is on the disk with an
\* indirect block table that was never written, "dangling" when an entry is
\* left that leads to an inode with i_no = 0, "lost" when a table is in use
\* after a restart that the bitmap does not have.
Broken == {"stale", "torn", "dangling", "lost"}

NoINode == [i_size |-> 0, i_sectors |-> [k \in 0..(Direct - 1) |-> 0], table |-> 0]
NoEntry == [filename |-> "", i_no |-> 0, f_type |-> "unknown"]
NoByte == <<0, 0>>
Closed == [no |-> 0, inode |-> NoINode]
NoCopy == [NoINode EXCEPT !.i_size = -1]   \* open_inodes does not have it

create_dir_entry(name, i, type) == [filename |-> name, i_no |-> i, f_type |-> type]

\* A directory block whose first entries are those of the sequence es.
DirBlock(es) == [j \in 0..(PerBlock - 1) |-> IF j < Len(es) THEN es[j + 1] ELSE NoEntry]
DotEntries(i, parent) ==
  <<create_dir_entry(".", i, "directory"), create_dir_entry("..", parent, "directory")>>

RootINode == [NoINode EXCEPT !.i_size = 2, !.i_sectors[0] = 1]

\* What partition_format writes.
partition_format ==
  [disk_blocks |-> {1}, disk_inodes |-> {Root},   \* the bitmaps on the disk
   inode_table |-> [i \in INo |-> IF i = Root THEN RootINode ELSE NoINode],
   blocks |-> [b \in Block |-> IF b = 1 THEN DirBlock(DotEntries(Root, Root)) ELSE DirBlock(<<>>)],
   block_bitmap |-> {}, inode_bitmap |-> {},      \* in memory
   open_inodes |-> [i \in INo |-> NoCopy]]

\* mount_partition and open_root_dir: memory is read from the disk.
mount_partition(v) ==
  [v EXCEPT !.block_bitmap = v.disk_blocks, !.inode_bitmap = v.disk_inodes,
            !.open_inodes = [i \in INo |-> IF i = Root THEN v.inode_table[Root] ELSE NoCopy]]

VolumeInit ==
  /\ vol = mount_partition(partition_format)
  /\ file = Closed /\ cwd = Root /\ kernel = "up"

-----------------------------------------------------------------------------
(* Bitmaps, inodes, and the blocks of an inode.                            *)

FreeBlocks(v) == Block \ v.block_bitmap
FreeINos(v) == INo \ v.inode_bitmap
\* The member of S that has k smaller ones: repeated bitmap_scan finds the
\* 0th, the 1st ... free bit.
Nth(S, k) == CHOOSE x \in S : Cardinality({y \in S : y < x}) = k
Lowest(S, n) == {x \in S : Cardinality({y \in S : y < x}) < n}

\* Mutant: the bitmap changes in memory only.
SyncNothing(v, S) == v

\* bitmap_sync for each bit of the blocks S: writes the sectors they are in.
bitmap_sync(v, S) ==
  LET Sector(b) == (b - 1) \div BitsPerSector
      written == {b \in Block : \E s \in S : Sector(s) = Sector(b)} IN
  [v EXCEPT !.disk_blocks = (@ \ written) \cup (v.block_bitmap \cap written)]

\* block_bitmap_alloc of the blocks S, each with its bitmap_sync
AllocBlocks(v, S) == bitmap_sync([v EXCEPT !.block_bitmap = @ \cup S], S)
\* The bits of the blocks S are cleared.  What a free block holds is not
\* kept: nothing in use leads to one (BlocksOwnedOnce).
ClearBlocks(v, S) ==
  bitmap_sync([v EXCEPT !.block_bitmap = @ \ S,
                        !.blocks = [b \in Block |-> IF b \in S THEN DirBlock(<<>>) ELSE @[b]]], S)

\* inode_open, as far as directories are concerned
inode_open(v, i) == IF v.open_inodes[i] # NoCopy THEN v.open_inodes[i] ELSE v.inode_table[i]

\* inode_sync of an inode that open_inodes does not have
inode_sync(v, i, node) == [v EXCEPT !.inode_table[i] = node]

\* inode_sync of a directory that the call has open
SyncDir(v, i, node) ==
  [inode_sync(v, i, node) EXCEPT !.open_inodes[i] = IF @ = NoCopy THEN @ ELSE node]

\* all_blocks with the indirect block table, if there is one
all_blocks(v, node) ==
  [k \in AllIdx |-> IF k < Direct THEN node.i_sectors[k]
                    ELSE IF node.table = 0 THEN 0 ELSE v.blocks[node.table][k - Direct]]

\* inode_release: the blocks of an inode, its bit and its place on the disk.
inode_release(v, i) ==
  LET node == inode_open(v, i)
      S == ({all_blocks(v, node)[k] : k \in AllIdx} \cup {node.table}) \ {0}
      w == inode_sync(ClearBlocks(v, S), i, NoINode) IN
  [w EXCEPT !.inode_bitmap = @ \ {i}, !.disk_inodes = w.inode_bitmap \ {i}]

-----------------------------------------------------------------------------
(* Directories.                                                            *)

\* The entries of a directory by their slots <<k, j>>, entry j of the k-th
\* block, and the order of slots.
Entries(v, node) ==
  LET ab == all_blocks(v, node) IN
  [s \in {k \in AllIdx : ab[k] # 0} \X (0..(PerBlock - 1)) |-> v.blocks[ab[s[1]]][s[2]]]
Before(s, t) == s[1] < t[1] \/ (s[1] = t[1] /\ s[2] < t[2])
FirstSlot(S) == CHOOSE s \in S : \A t \in S \ {s} : Before(s, t)
UsedSlots(es) == {s \in DOMAIN es : es[s].f_type # "unknown"}

search_dir_entry(v, node, name) ==
  LET es == Entries(v, node)
      hits == {s \in DOMAIN es : es[s].filename = name} IN
  IF hits = {} THEN NoEntry ELSE es[FirstSlot(hits)]

\* One name of a path looked up by search_file.  The result r so far: the
\* entry reached, the directory the last name was looked up in (parent), and
\* the number of names looked at.
LookUp(v, r, name) ==
  IF r.entry.f_type # "directory" THEN r
  ELSE [entry |-> search_dir_entry(v, inode_open(v, r.entry.i_no), name),
        parent |-> r.entry.i_no, depth |-> r.depth + 1]

search_file(v, path) ==
  LET step[n \in 0..Len(path)] ==
        IF n = 0 THEN [entry |-> create_dir_entry("/", Root, "directory"), parent |-> Root, depth |-> 0]
        ELSE LookUp(v, step[n - 1], path[n]) IN
  step[Len(path)]

\* search_file returned -1 having looked at all of the path, the condition
\* under which sys_open creates a file and sys_mkdir a directory.
Absent(r, path) == r.entry = NoEntry /\ r.depth = Len(path)

\* sync_dir_entry: the entry e for directory d.  It looks for a free entry
\* in the direct blocks only; in a new block it writes the entry, and then
\* finds a free entry in that block and writes it again.  The result has the
\* inode of d as the caller's inode_sync writes it.
sync_dir_entry(v, d, e) ==
  LET node == inode_open(v, d)
      HasRoom(k) == node.i_sectors[k] # 0 => \E j \in 0..(PerBlock - 1) : v.blocks[node.i_sectors[k]][j].f_type = "unknown"
      open == {k \in 0..(Direct - 1) : HasRoom(k)}
      k0 == Nth(open, 0)
      free == FreeBlocks(v)
      Twice(w, b) == [w EXCEPT !.blocks[b] = DirBlock(<<e, e>>)]
      Added(w, n) == [ok |-> TRUE, v |-> SyncDir(w, d, n)]
      b == Nth(free, 0)
  IN CASE open # {} /\ node.i_sectors[k0] # 0 ->
            LET j0 == Nth({j \in 0..(PerBlock - 1) : v.blocks[node.i_sectors[k0]][j].f_type = "unknown"}, 0) IN
            Added([v EXCEPT !.blocks[node.i_sectors[k0]][j0] = e], [node EXCEPT !.i_size = @ + 1])
       [] open # {} /\ node.i_sectors[k0] = 0 /\ free # {} ->
            Added(Twice(AllocBlocks(v, {b}), b), [node EXCEPT !.i_size = @ + 2, !.i_sectors[k0] = b])
       [] open = {} /\ Cardinality(free) > 1 ->   \* i_sectors[12]: a new table
            LET c == Nth(free, 1)
                w == Twice(AllocBlocks(v, {b, c}), c) IN
            Added([w EXCEPT !.blocks[b] = [k \in 0..(Indirect - 1) |-> IF k = 0 THEN c ELSE 0]],
                 [node EXCEPT !.i_size = @ + 2, !.table = b])
       [] open = {} /\ Cardinality(free) = 1 ->   \* the table has no block: only memory is undone
            [ok |-> FALSE, v |-> [AllocBlocks(v, {b}) EXCEPT !.block_bitmap = @ \ {b},
                                                             !.open_inodes[d].table = 0]]
       [] OTHER -> [ok |-> FALSE, v |-> v]

\* delete_dir_entry: of the entry with number i in directory d.  Freeing an
\* indirect block, where the loop that counts them does not end, is left out:
\* a block added to a directory never has one entry, as sync_dir_entry puts
\* its first one there twice and FoundOnce fails for it.
Deletable(v, node, i) ==
  LET es == Entries(v, node) IN
  {s \in UsedSlots(es) : es[s].i_no = i /\ es[s].filename \notin {".", ".."}}

\* Mutant: the entry goes, and the size of the directory stays.
DeleteKeepsSize(v, d, i) ==
  LET node == inode_open(v, d)
      s == FirstSlot(Deletable(v, node, i)) IN
  [v EXCEPT !.blocks[all_blocks(v, node)[s[1]]][s[2]] = NoEntry]

delete_dir_entry(v, d, i) ==
  LET node == inode_open(v, d)
      s == FirstSlot(Deletable(v, node, i))
      b == all_blocks(v, node)[s[1]]
      names == {j \in 0..(PerBlock - 1) : v.blocks[b][j].f_type # "unknown"}
      less == [node EXCEPT !.i_size = @ - 1] IN
  IF Cardinality(names) = 1 /\ s[1] < Direct   \* the only one of a block other than the first
  THEN SyncDir(ClearBlocks(v, {b}), d, [less EXCEPT !.i_sectors[s[1]] = 0])
  ELSE SyncDir([v EXCEPT !.blocks[b][s[2]] = NoEntry], d, less)

\* ASSERT(dir_entry_found == NULL) in delete_dir_entry: the block where the
\* entry is found has it once.
FoundOnce(v, d, i) ==
  LET S == Deletable(v, inode_open(v, d), i) IN
  \A s, t \in S : s # t => s[1] # t[1]

\* dir_read with dir_pos = pos
dir_read(v, node, pos) ==
  LET es == Entries(v, node)
      nth == {s \in UsedSlots(es) : Cardinality({t \in UsedSlots(es) : Before(t, s)}) = pos} IN
  IF pos >= node.i_size \/ nth = {} THEN NoEntry ELSE es[FirstSlot(nth)]

dir_is_empty(node) == node.i_size = 2

-----------------------------------------------------------------------------
(* Calls.  r is what search_file finds for the path of the call.           *)

\* What open_inodes has of the inodes in use is what the disk has of them.
Coherent(v) == \A i \in v.inode_bitmap : v.open_inodes[i] \in {NoCopy, v.inode_table[i]}

Return(v) == vol' = v /\ kernel' = IF Coherent(v) THEN "up" ELSE "stale"
\* A failed ASSERT: what counts from here on is the disk.
Fails(assert) ==
  kernel' = assert /\ vol' = mount_partition(vol) /\ file' = Closed /\ cwd' = Root
Done(v) == Return(v) /\ UNCHANGED <<file, cwd>>

\* The new inode i, its bit and its place on the disk.
NewINode(v, i, node) ==
  [inode_sync(v, i, node) EXCEPT !.inode_bitmap = @ \cup {i}, !.disk_inodes = v.inode_bitmap \cup {i}]

\* sys_open with O_CREAT, and file_create
file_create(path, r) ==
  LET i == Nth(FreeINos(vol), 0)
      s == sync_dir_entry(vol, r.parent, create_dir_entry(path[Len(path)], i, "regular")) IN
  /\ kernel = "up" /\ file = Closed
  /\ Absent(r, path) /\ FreeINos(vol) # {}
  /\ Return(IF s.ok THEN NewINode(s.v, i, NoINode) ELSE s.v)
  /\ file' = IF s.ok THEN [no |-> i, inode |-> NoINode] ELSE file
  /\ UNCHANGED cwd

\* sys_open of a file that exists, and file_open.  The directory that
\* search_file opened is not closed: its inode stays in open_inodes.
file_open(path, r) ==
  /\ kernel = "up" /\ file = Closed
  /\ r.entry.f_type = "regular" /\ r.depth = Len(path)
  /\ Return([vol EXCEPT !.open_inodes[r.parent] = inode_open(vol, r.parent)])
  /\ file' = [no |-> r.entry.i_no, inode |-> vol.inode_table[r.entry.i_no]]
  /\ UNCHANGED cwd

file_close ==
  /\ kernel = "up" /\ file # Closed
  /\ file' = Closed /\ UNCHANGED <<vol, cwd, kernel>>

\* ASSERT(inode_no != 0) is about a path that leads to the root.
LeadsToRoot(r) == r.entry.f_type = "directory" /\ r.entry.i_no = Root

\* sys_unlink does not compare depths: of a path that goes on after the name
\* of a file the rest is ignored.
sys_unlink(r) ==
  LET i == r.entry.i_no IN
  /\ kernel = "up"
  /\ \/ LeadsToRoot(r) /\ Fails("inode_no")
     \/ /\ r.entry.f_type = "regular" /\ i # file.no
        /\ IF FoundOnce(vol, r.parent, i)
           THEN Done(inode_release(delete_dir_entry(vol, r.parent, i), i)) ELSE Fails("found_again")

sys_mkdir(path, r) ==
  LET i == Nth(FreeINos(vol), 0)
      b == Nth(FreeBlocks(vol), 0)
      v == [AllocBlocks(vol, {b}) EXCEPT !.blocks[b] = DirBlock(DotEntries(i, r.parent))]
      s == sync_dir_entry(v, r.parent, create_dir_entry(path[Len(path)], i, "directory")) IN
  /\ kernel = "up"
  /\ Absent(r, path) /\ FreeINos(vol) # {} /\ FreeBlocks(vol) # {}
  /\ Return(IF s.ok THEN NewINode(s.v, i, [NoINode EXCEPT !.i_size = 2, !.i_sectors[0] = b]) ELSE s.v)
  /\ UNCHANGED <<file, cwd>>

\* The ASSERTs of dir_remove: an empty directory has one block.
OneBlock(node) == node.table = 0 /\ \A k \in 1..(Direct - 1) : node.i_sectors[k] = 0

\* sys_rmdir and dir_remove.  If the path ends in "." the directory is looked
\* for in itself: delete_dir_entry finds nothing, which dir_remove does not
\* notice, and the entry in its parent stays when the inode is gone.
sys_rmdir(r) ==
  LET i == r.entry.i_no IN
  /\ kernel = "up"
  /\ \/ LeadsToRoot(r) /\ Fails("inode_no")
     \/ /\ r.entry.f_type = "directory" /\ i # Root /\ dir_is_empty(inode_open(vol, i))
        /\ CASE ~OneBlock(inode_open(vol, i)) -> Fails("second_block")
             [] OneBlock(inode_open(vol, i)) /\ r.parent = i ->
                  vol' = inode_release(vol, i) /\ kernel' = "dangling" /\ UNCHANGED <<file, cwd>>
             [] OneBlock(inode_open(vol, i)) /\ r.parent # i ->
                  IF FoundOnce(vol, r.parent, i)
                  THEN Done(inode_release(delete_dir_entry(vol, r.parent, i), i)) ELSE Fails("found_again")

sys_chdir(r) ==
  /\ kernel = "up" /\ r.entry.f_type = "directory"
  /\ cwd' = r.entry.i_no /\ UNCHANGED <<vol, file, kernel>>

\* The blocks file_write allocates for a file with inode n: has and will are
\* the numbers of blocks before and after.  The result is the partition, the
\* inode in memory and what becomes of the call.
used_blocks(size) == size \div BlockSize + 1

\* Mutant: the first block without its bit.
AllocFirstUnmarked(v, n) ==
  IF n.i_sectors[0] # 0 THEN [v |-> v, n |-> n, ok |-> "ok"]
  ELSE IF FreeBlocks(v) = {} THEN [v |-> v, n |-> n, ok |-> "failed"]
  ELSE [v |-> v, n |-> [n EXCEPT !.i_sectors[0] = Nth(FreeBlocks(v), 0)], ok |-> "ok"]

AllocFirst(v, n) ==
  IF n.i_sectors[0] # 0 THEN [v |-> v, n |-> n, ok |-> "ok"]
  ELSE IF FreeBlocks(v) = {} THEN [v |-> v, n |-> n, ok |-> "failed"]
  ELSE LET b == Nth(FreeBlocks(v), 0) IN
       [v |-> AllocBlocks(v, {b}), n |-> [n EXCEPT !.i_sectors[0] = b], ok |-> "ok"]

\* Mutant: a table for every write that ends in indirect blocks.
NeedsTableAgain(has, will) == will > Direct

\* The second of the three cases of file_write
NeedsTable(has, will) == has <= Direct /\ will > Direct

\* The indirect block table: its bit is not written to the disk.
AllocTable(a, has, will) ==
  IF a.ok # "ok" \/ ~NeedsTable(has, will) THEN a
  ELSE IF FreeBlocks(a.v) = {} THEN [a EXCEPT !.ok = "failed"]
  ELSE IF a.n.table # 0 THEN [a EXCEPT !.ok = "table_used"]
  ELSE LET t == Nth(FreeBlocks(a.v), 0) IN
       [a EXCEPT !.v.block_bitmap = @ \cup {t}, !.n.table = t]

\* Mutant: the table with the new blocks only: it was not read first.
TableAnew(old, has, new) ==
  [k \in 0..(Indirect - 1) |-> IF k + Direct \in DOMAIN new THEN new[k + Direct] ELSE 0]

\* What AllocRest writes to the indirect block table: the entries it had, if
\* it had any, and the new blocks.
TableWith(old, has, new) ==
  [k \in 0..(Indirect - 1) |->
     IF k + Direct \in DOMAIN new THEN new[k + Direct]
     ELSE IF has > Direct THEN old[k + Direct] ELSE 0]

\* The block that is written next, or the table, is not there.
NoSector(n, has, will) ==
  \/ has > Direct /\ n.table = 0
  \/ has < will /\ will <= Direct /\ n.i_sectors[has - 1] = 0

\* The blocks has..will-1, as many of them as there are.
AllocRest(a, has, will) ==
  LET got == Lowest(FreeBlocks(a.v), will - has)
      all == Cardinality(got) = will - has
      new == [k \in has..(has + Cardinality(got) - 1) |-> Nth(got, k - has)]
      w == AllocBlocks(a.v, got) IN
  IF a.ok # "ok" THEN a
  ELSE IF NoSector(a.n, has, will) THEN [a EXCEPT !.ok = "no_sector"]
  ELSE IF has = will THEN a
  ELSE IF \E k \in DOMAIN new : k < Direct /\ a.n.i_sectors[k] # 0 THEN [a EXCEPT !.ok = "sector_used"]
  ELSE [v |-> IF all /\ will > Direct
              THEN [w EXCEPT !.blocks[a.n.table] = TableWith(all_blocks(a.v, a.n), has, new)] ELSE w,
        n |-> [a.n EXCEPT !.i_sectors = [k \in 0..(Direct - 1) |-> IF k \in DOMAIN new THEN new[k] ELSE @[k]]],
        ok |-> IF all THEN "ok" ELSE "failed"]

\* The loop that writes the bytes size..size+count-1, and inode_sync.  Bytes
\* of a block that are past the end of the file are not kept.
WriteBytes(v, i, n, count) ==
  LET size == n.i_size
      Idx == (size \div BlockSize)..((size + count - 1) \div BlockSize)
      ab == all_blocks(v, n)
      Bytes(k) == [o \in 0..(BlockSize - 1) |->
                     LET at == k * BlockSize + o IN
                     IF at \in size..(size + count - 1) THEN <<i, at>>
                     ELSE IF at < size THEN v.blocks[ab[k]][o] ELSE NoByte] IN
  inode_sync([v EXCEPT !.blocks = [b \in Block |-> IF \E k \in Idx : ab[k] = b
                                                   THEN Bytes(CHOOSE k \in Idx : ab[k] = b) ELSE @[b]]],
             i, [n EXCEPT !.i_size = size + count])

file_write(count) ==
  LET n == file.inode
      has == used_blocks(n.i_size)
      will == used_blocks(n.i_size + count)
      first == AllocFirst(vol, n)
      a == IF first.ok = "ok" /\ will > Direct + Indirect THEN [first EXCEPT !.ok = "max_blocks"]
           ELSE AllocRest(AllocTable(first, has, will), has, will) IN
  /\ kernel = "up" /\ file # Closed
  /\ n.i_size + count <= BlockSize * (Direct + Indirect)
  /\ vol' = IF a.ok = "ok" THEN WriteBytes(a.v, file.no, a.n, count) ELSE a.v
  /\ file' = [file EXCEPT !.inode = IF a.ok = "ok" THEN [a.n EXCEPT !.i_size = @ + count] ELSE a.n]
  /\ kernel' = CASE a.ok \in Asserts -> a.ok
                 [] a.ok = "ok" /\ a.n.table # 0 /\ will <= Direct -> "torn"
                 [] OTHER -> "up"
  /\ UNCHANGED cwd

\* What file_read copies to the buffer, or that an ASSERT fails.  Block 0 is
\* a sector outside of the partition.
file_read(v, n, pos, count) ==
  LET size == IF pos + count > n.i_size THEN n.i_size - pos ELSE count
      start == pos \div BlockSize
      end == (pos + size) \div BlockSize
      ab == all_blocks(v, n)
      Byte(at) == IF ab[at \div BlockSize] = 0 THEN NoByte ELSE v.blocks[ab[at \div BlockSize]][at % BlockSize] IN
  IF end >= Direct + Indirect - 1 \/ (start # end /\ end >= Direct /\ n.table = 0) THEN <<"panic">>
  ELSE [k \in 1..size |-> Byte(pos + k - 1)]

-----------------------------------------------------------------------------
(* The working directory as a path, and restart.                           *)

\* The directories and files that have a path.
Reached(v, type) == {e.i_no : e \in {f \in {search_file(v, p).entry : p \in Path} : f.f_type = type}}
LiveDirs(v) == {Root} \cup Reached(v, "directory")
LiveFiles(v) == Reached(v, "regular")

\* Mutant: the first entry of the directory, ".", for the second.
FirstEntryNr(v, i) == v.blocks[inode_open(v, i).i_sectors[0]][0].i_no

get_parent_dir_inode_nr(v, i) == v.blocks[inode_open(v, i).i_sectors[0]][1].i_no

get_child_dir_name(v, parent, i) ==
  LET es == Entries(v, inode_open(v, parent)) IN
  es[FirstSlot({s \in DOMAIN es : es[s].i_no = i})].filename

\* The path sys_getcwd builds from the directory i upwards, i a directory
\* that has a path.
getcwd_path(v, i) ==
  LET up[n \in 0..(MaxDepth + 1)] ==   \* n levels up: where, and the names below
        IF n = 0 THEN [at |-> i, path |-> <<>>]
        ELSE LET r == up[n - 1]
                 parent == get_parent_dir_inode_nr(v, r.at) IN
             IF r.at = Root THEN r
             ELSE [at |-> parent, path |-> <<get_child_dir_name(v, parent, r.at)>> \o r.path] IN
  up[MaxDepth + 1].path

\* wash_path of shell/buildin_cmd.c: "." goes, and ".." with the name before
\* it, if there is one.
wash_path(path) ==
  LET new[n \in 0..Len(path)] ==
        IF n = 0 THEN <<>>
        ELSE CASE path[n] = ".." /\ new[n - 1] = <<>> -> <<>>
               [] path[n] = ".." /\ new[n - 1] # <<>> -> SubSeq(new[n - 1], 1, Len(new[n - 1]) - 1)
               [] path[n] = "." -> new[n - 1]
               [] OTHER -> Append(new[n - 1], path[n]) IN
  new[Len(path)]

\* A path that a command was given where getcwd returned cwd_path
make_clear_abs_path(cwd_path, path) == wash_path(cwd_path \o path)

\* sys_getcwd of a directory that was removed: its inode on the disk is
\* clear, and an ASSERT fails; a copy in open_inodes, or the inode that has
\* the number now, leads anywhere.
sys_getcwd ==
  /\ kernel = "up" /\ cwd \notin LiveDirs(vol)
  /\ \/ Fails("no_parent")
     \/ inode_open(vol, cwd).i_sectors[0] # 0 /\ UNCHANGED volumeVars

\* The tables of files that have a path
Tables(v) == {v.inode_table[f].table : f \in LiveFiles(v)} \ {0}

\* Power off between two calls or after a panic, and filesys_init.
filesys_init ==
  LET v == mount_partition(vol) IN
  /\ kernel \notin Broken \ {"stale"}
  /\ vol' = v /\ file' = Closed /\ cwd' = Root
  /\ kernel' = IF Tables(v) \subseteq v.block_bitmap THEN "up" ELSE "lost"

VolumeNext ==
  \/ \E p \in Args : LET r == search_file(vol, p) IN file_create(p, r) \/ file_open(p, r) \/ sys_mkdir(p, r)
  \/ kernel = "up" /\ \E r \in {search_file(vol, p) : p \in Args} : sys_unlink(r) \/ sys_rmdir(r) \/ sys_chdir(r)
  \/ file_close \/ \E c \in Counts : file_write(c)
  \/ sys_getcwd \/ filesys_init
  \/ kernel \in Broken \ {"stale"} /\ UNCHANGED volumeVars

VolumeSpec == VolumeInit /\ [][VolumeNext]_volumeVars

-----------------------------------------------------------------------------
(* Properties.                                                             *)

\* The inode of the number i as the kernel uses it now.
Current(i) == IF i = file.no /\ i # 0 THEN file.inode ELSE inode_open(vol, i)
Live(v) == LiveDirs(v) \cup LiveFiles(v)
Extended(node) == ~OneBlock(node)

\* Where an inode has blocks: the table (-1) and the indices.  A file has
\* entries in its table from Direct + 1 blocks on.
BlocksOf(v, node, indirect) ==
  LET ab == all_blocks(v, node) IN
  {pl \in {<<k, ab[k]>> : k \in IF indirect THEN AllIdx ELSE 0..(Direct - 1)} \cup {<<-1, node.table>>} : pl[2] # 0}
Owned(v, Node(_)) ==
  UNION {{<<d>> \o pl : pl \in BlocksOf(v, Node(d), TRUE)} : d \in LiveDirs(v)}
    \cup UNION {{<<f>> \o pl : pl \in BlocksOf(v, Node(f), Node(f).i_size >= Direct * BlockSize)} : f \in LiveFiles(v)}
OwnedOnce(own) == Cardinality({o[3] : o \in own}) = Cardinality(own)
Marked(v, own) == {o[3] : o \in own} \subseteq v.block_bitmap

VolumeTypeOK ==
  /\ vol.block_bitmap \subseteq Block /\ vol.disk_blocks \subseteq Block
  /\ vol.inode_bitmap \subseteq INo /\ vol.disk_inodes \subseteq INo
  /\ \A i \in INo : vol.inode_table[i].i_size \in 0..((BlockSize + PerBlock) * (Direct + Indirect))
  /\ file.no \in INo /\ cwd \in INo
  /\ kernel \in {"up"} \cup Asserts \cup Broken

\* Every block that a file or directory with a path uses is taken in the
\* bitmap, and none is used in two places: not by two inodes, not twice by
\* one, not as a block and as a table.  This is what block_bitmap_alloc,
\* inode_release and the rollbacks of file_create and sys_mkdir are to keep,
\* on a full disk too (but for a file that is then written with a table left
\* over from a write that failed: "torn").
BlocksOwnedOnce ==
  /\ VolumeTypeOK
  /\ kernel = "up" => LET own == Owned(vol, Current) IN OwnedOnce(own) /\ Marked(vol, own)

\* Power may go between any two calls: what is on the disk then has the same
\* names with the same inodes as memory, and its own bitmap has every block
\* they use, so that nothing is given out again after mount_partition.  The
\* table of a file is left out: file_write does not write its bit, and it is
\* on the disk only if another bit of that sector was written since.
RestartSafe ==
  kernel = "up" =>
    LET v == mount_partition(vol)
        own == Owned(v, LAMBDA i : v.inode_table[i]) IN
    /\ OwnedOnce(own) /\ Marked(v, {o \in own : o[2] # -1 \/ o[1] \in LiveDirs(v)})
    /\ \A p \in Path : search_file(v, p) = search_file(vol, p)

\* A path leads to an inode that is taken, no two paths lead to one inode,
\* every inode that is taken has a path (sys_unlink, sys_rmdir and the
\* rollbacks leave no orphan), and repeated sys_readdir gives every entry of a
\* directory and nothing else: i_size, which ends it, keeps pace.  (The last
\* two only while no directory has an indirect block table, which
\* sync_dir_entry makes anew each time it adds to it; and none of it after
\* sys_rmdir was given a path that ends in ".", see there.)
EntriesLive ==
  kernel = "up" =>
    LET Found(p) == search_file(vol, p)
        paths == {p \in Path : Found(p).entry # NoEntry /\ Found(p).depth = Len(p)}
        named == {<<p, Found(p).entry.i_no>> : p \in paths}
        nos == {x[2] : x \in named} IN
    /\ Cardinality(nos) = Cardinality(named) /\ nos \subseteq vol.inode_bitmap
    /\ \/ {Root} \cup nos = vol.inode_bitmap
       \/ \E d \in LiveDirs(vol) : inode_open(vol, d).table # 0
    /\ \A d \in LiveDirs(vol) :
         LET n == inode_open(vol, d)
             es == Entries(vol, n) IN
         n.table = 0 =>
           {dir_read(vol, n, pos) : pos \in 0..(n.i_size - 1)} = {es[t] : t \in UsedSlots(es)}

\* file_read gives back the bytes that were written, at any position and for
\* any count, whatever calls file_write allocated the blocks in, and however
\* blocks were freed and used again.  (For reads that end before the last
\* block: file_read asserts that it does not get there.)
ReadsBack ==
  kernel = "up" =>
    \A i \in LiveFiles(vol) :
      LET n == Current(i) IN
      \A pos \in 0..(n.i_size - 1) : \A count \in 1..(n.i_size - pos) :
        pos + count < BlockSize * (Direct + Indirect - 1) =>
          file_read(vol, n, pos, count) = [k \in 1..count |-> <<i, pos + k - 1>>]

\* The names after d on a path, as search_file would look them up there
Walk(v, d, path) ==
  LET step[n \in 0..Len(path)] ==
        IF n = 0 THEN [entry |-> create_dir_entry("/", d, "directory"), parent |-> d, depth |-> 0]
        ELSE LookUp(v, step[n - 1], path[n]) IN
  step[Len(path)]

\* The commands of the shell mean what the directories say: wherever a path
\* leads through "." and ".." entries from the working directory, its clear
\* absolute form, built from what sys_getcwd finds upwards, leads there too.
CommandsResolve ==
  kernel = "up" =>
    \A d \in LiveDirs(vol) :
      LET here == getcwd_path(vol, d) IN
      \A path \in Args :
        LET there == Walk(vol, d, path) IN
        there.entry # NoEntry /\ there.depth = Len(path) =>
          LET found == search_file(vol, make_clear_abs_path(here, path)) IN
          found.entry # NoEntry /\ found.entry.i_no = there.entry.i_no

\* Which ASSERTs of the file system may fail, and when.  An entry is found
\* twice only in a directory that has grown beyond its first block; a block or
\* table that is to be allocated is there only if an earlier write failed
\* half-way and left more of them than the size needs; there are too many
\* blocks only if a write reaches the maximal size exactly.  An empty
\* directory never has a second block, and file_write never misses one.
\* (The other two are what the caller asked for: to remove the root, or for
\* the path of a working directory that is gone.)
PanicExplained ==
  /\ kernel \notin {"second_block", "no_sector"}
  /\ kernel = "found_again" => \E d \in LiveDirs(vol) : Extended(inode_open(vol, d))
  /\ kernel \in {"sector_used", "table_used"} =>
       Cardinality(BlocksOf(vol, file.inode, FALSE)) > used_blocks(file.inode.i_size)
  /\ kernel = "max_blocks" => \E c \in Counts : file.inode.i_size + c = BlockSize * (Direct + Indirect)
=============================================================================
