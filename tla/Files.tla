------------------------------- MODULE Files --------------------------------
(***************************************************************************)
(* Open files: the descriptors of a process (fd_table), the file table of  *)
(* the system (file_table), the list of inodes in memory (open_inodes),    *)
(* and the calls that share them (fs/fs.c, fs/file.c, fs/inode.c), with    *)
(* fork and exit.  The files are in the root directory.                    *)
(*                                                                         *)
(* Calls run with interrupts off and lose the CPU only in a disk transfer, *)
(* or waiting for one.  From its first transfer to its last one a call has *)
(* the disk to itself (SyscallsDoNotInterleave of module Ide): owner.  But *)
(* meanwhile other processes may make calls that use no disk, and go as    *)
(* far as the first transfer of one that does.  Sizes and positions count  *)
(* blocks, all of them direct; memory and disk space are enough.  Programs *)
(* use descriptors they have open.                                         *)
(***************************************************************************)
EXTENDS Integers, Sequences, FiniteSets

CONSTANTS
  Proc,      \* processes
  Shell,     \* the one there is at first, and that never exits
  Name,      \* names of files
  MaxINo,    \* inode numbers are 1..MaxINo (0 is the root directory), below 256
  FdMax,     \* MAX_FILES_OPEN_PER_PROC, 8 in the code
  SlotMax,   \* MAX_FILE_OPEN, 32 in the code
  MaxSize,   \* bound on the blocks of a file, 12 at most: all are direct
  MaxAfter,  \* bound on after
  Counts     \* the numbers of blocks programs read or write in one call

ASSUME FilesAssumption ==
  /\ Shell \in Proc
  /\ MaxINo \in 0..255 /\ FdMax \in Nat /\ SlotMax \in Nat
  /\ MaxSize \in 0..12 /\ Counts \subseteq 1..MaxSize

INo == 1..MaxINo
Fd == 3..(FdMax - 1)
Slot == 3..(SlotMax - 1)
INode == 1..(MaxINo + SlotMax - 3)   \* addresses of inodes in memory
Null == 0
Unused == -1
None == "none"

VARIABLES
  fd_table,     \* of each process: a slot of file_table, or Unused
  file_table,   \* fd_inode, fd_pos and fd_flag of each slot
  inode,        \* the inode at each address, i_no = 0 if there is none
  open_inodes,  \* the addresses of the inodes in the list, first one first
  dir,          \* the root directory: the inode number of each name, or 0
  inode_bitmap, \* the inode numbers in use
  disk,         \* the inode table on the disk
  alive,        \* the processes there are
  call,         \* what each process is doing: a call between two transfers
  owner,        \* the process whose call is using the disk, or None
  kernel,       \* "up", "panic" (ASSERT) or "fault" (page fault in the kernel)
  opened,       \* history: what a process opened with each descriptor, until
  after         \* a process has forked with a file open: then how often files
                \* may still be opened, created or shared, before that -1

tables == <<file_table, inode, open_inodes>>
volume == <<dir, inode_bitmap, disk>>
procs == <<fd_table, alive, opened>>
filesVars == <<tables, volume, procs, call, owner, kernel, after>>

NoINode == [i_no |-> 0, i_open_cnts |-> 0, write_deny |-> FALSE, i_size |-> 0, secs |-> 0]
Idle == [op |-> "user"]

\* secs: i_sectors[0] to i_sectors[secs - 1] are set, the others are 0.
inode_init(i) == [NoINode EXCEPT !.i_no = i]

FilesInit ==
  /\ fd_table = [p \in Proc |-> [f \in Fd |-> Unused]]
  /\ file_table = [s \in Slot |-> [fd_inode |-> Null, fd_pos |-> 0, fd_flag |-> "read"]]
  /\ inode = [a \in INode |-> NoINode]
  /\ open_inodes = <<>>
  /\ dir = [n \in Name |-> 0]
  /\ inode_bitmap = {}
  /\ disk = [i \in INo |-> NoINode]
  /\ alive = {Shell}
  /\ call = [p \in Proc |-> Idle]
  /\ owner = None
  /\ kernel = "up"
  /\ opened = [p \in Proc |-> [f \in Fd |-> 0]]
  /\ after = -1

Least(S) == CHOOSE x \in S : \A y \in S : x <= y

FreeSlots == {s \in Slot : file_table[s].fd_inode = Null}
FreeFds(p) == {f \in Fd : fd_table[p][f] = Unused}
InList(i) == {k \in DOMAIN open_inodes : inode[open_inodes[k]].i_no = i}

\* get_free_slot_in_global, inode_bitmap_alloc and malloc_kernal_inode
get_free_slot_in_global == Least(FreeSlots)
inode_bitmap_alloc == Least(INo \ inode_bitmap)
malloc_kernal_inode == Least({a \in INode : inode[a].i_no = 0})

Shared == after >= 0
MayOpen == after # 0
OpensOne == after' = IF after > 0 THEN after - 1 ELSE after

AtUser(p) == kernel = "up" /\ p \in alive /\ call[p] = Idle
InCall(p, op) == kernel = "up" /\ p \in alive /\ call[p].op = op /\ owner \in {None, p}

\* Calls go on, return, or stop the kernel.
GoesOn(p, c) == call' = [call EXCEPT ![p] = c] /\ owner' = p /\ UNCHANGED kernel
Returns(p) == call' = [call EXCEPT ![p] = Idle] /\ owner' = None /\ UNCHANGED kernel
Stops(why) == kernel' = why /\ UNCHANGED <<call, owner>>

\* pcb_fd_install; if the process has no descriptor left the slot stays set.
pcb_fd_install(p, s, i) ==
  IF FreeFds(p) = {}
  THEN UNCHANGED procs
  ELSE LET f == Least(FreeFds(p)) IN
       /\ fd_table' = [fd_table EXCEPT ![p][f] = s]
       /\ opened' = IF Shared THEN opened ELSE [opened EXCEPT ![p][f] = i]
       /\ UNCHANGED alive

\* Mutant: the list of open inodes is not searched.
AlwaysRead(i) == TRUE

\* Does inode_open have to read inode i from the disk?
MustRead(i) == InList(i) = {}

\* The test of write_deny in file_open.
Denied(a, flag) == flag = "write" /\ inode[a].write_deny

\* The rest of file_open, once inode_open has returned a; new is inode with
\* the effect of inode_open.  A denied open leaves the slot set.
FileOpened(p, s, a, new, flag) ==
  /\ file_table' = [file_table EXCEPT ![s] = [fd_inode |-> a, fd_pos |-> 0, fd_flag |-> flag]]
  /\ inode' = [new EXCEPT ![a].write_deny = @ \/ flag = "write"]
  /\ IF Denied(a, flag) THEN UNCHANGED procs ELSE pcb_fd_install(p, s, new[a].i_no)

\* sys_open without O_CREAT, as far as the transfer in inode_open, or to its
\* end if the inode is in the list.
sys_open(p, n, flag) ==
  /\ AtUser(p) /\ owner = None /\ MayOpen /\ OpensOne
  /\ dir[n] # 0 /\ FreeSlots # {}
  /\ LET s == get_free_slot_in_global IN
     \/ /\ MustRead(dir[n])
        /\ GoesOn(p, [op |-> "open", slot |-> s, i_no |-> dir[n], flag |-> flag])
        /\ UNCHANGED <<tables, procs>>
     \/ /\ ~MustRead(dir[n])
        /\ LET a == open_inodes[Least(InList(dir[n]))] IN
           FileOpened(p, s, a, [inode EXCEPT ![a].i_open_cnts = @ + 1], flag)
        /\ Returns(p)
        /\ UNCHANGED open_inodes
  /\ UNCHANGED volume

inode_open(p) ==
  /\ InCall(p, "open")
  /\ LET a == malloc_kernal_inode
         c == call[p] IN
     /\ FileOpened(p, c.slot, a, [inode EXCEPT ![a] = [disk[c.i_no] EXCEPT !.i_open_cnts = 1]], c.flag)
     /\ open_inodes' = <<a>> \o open_inodes
  /\ Returns(p)
  /\ UNCHANGED <<volume, after>>

\* inode_sync: the inode table with the inode at a.  The code has 8 bits for
\* the number; here it is below 256.
inode_sync(a) ==
  [disk EXCEPT ![inode[a].i_no] = [inode[a] EXCEPT !.i_open_cnts = 0, !.write_deny = FALSE]]

\* sys_open with O_CREAT: file_create as far as its first transfer ...
file_create(p, n, flag) ==
  /\ AtUser(p) /\ owner = None /\ MayOpen /\ OpensOne
  /\ dir[n] = 0 /\ inode_bitmap # INo /\ FreeSlots # {}
  /\ LET s == get_free_slot_in_global
         i == inode_bitmap_alloc
         a == malloc_kernal_inode IN
     /\ inode_bitmap' = inode_bitmap \cup {i}
     /\ inode' = [inode EXCEPT ![a] = inode_init(i)]
     /\ file_table' = [file_table EXCEPT ![s] = [fd_inode |-> a, fd_pos |-> 0, fd_flag |-> flag]]
     /\ dir' = [dir EXCEPT ![n] = i]
     /\ GoesOn(p, [op |-> "create", slot |-> s, at |-> a])
  /\ UNCHANGED <<open_inodes, disk, procs>>

\* ... and the rest of it.
file_created(p) ==
  /\ InCall(p, "create")
  /\ LET a == call[p].at IN
     /\ disk' = inode_sync(a)
     /\ open_inodes' = <<a>> \o open_inodes
     /\ inode' = [inode EXCEPT ![a].i_open_cnts = 1]
     /\ pcb_fd_install(p, call[p].slot, inode[a].i_no)
  /\ Returns(p)
  /\ UNCHANGED <<file_table, dir, inode_bitmap, after>>

\* Mutant: inode_close takes the inode off the list whoever else has it open.
LastAlways(node) == TRUE

\* The test of inode_close, after the decrement (0 - 1 is 2^32 - 1, not 0).
LastClose(node) == node.i_open_cnts - 1 = 0

\* file_close of slot s and inode_close, on the tables t.
file_close(t, s) ==
  LET a == t.file_table[s].fd_inode IN
  IF t.kernel # "up" THEN t
  ELSE IF a = Null THEN [t EXCEPT !.kernel = "fault"]
  ELSE [t EXCEPT
          !.file_table[s].fd_inode = Null,
          !.file_table[s].fd_pos = 0,   \* not read any more
          !.inode[a] = IF LastClose(@) THEN NoINode
                       ELSE [@ EXCEPT !.write_deny = FALSE, !.i_open_cnts = @ - 1],
          !.open_inodes = IF LastClose(t.inode[a])
                          THEN SelectSeq(@, LAMBDA b : b # a) ELSE @]

TablesNow == [file_table |-> file_table, inode |-> inode, open_inodes |-> open_inodes, kernel |-> kernel]

BecomeTables(t) ==
  /\ file_table' = t.file_table /\ inode' = t.inode
  /\ open_inodes' = t.open_inodes /\ kernel' = t.kernel

\* Mutant: the descriptor keeps its slot.
KeepFd(p, f) == fd_table

\* running_thread()->fd_table[fd] = -1
ReleaseFd(p, f) == [fd_table EXCEPT ![p][f] = Unused]

sys_close(p, f) ==
  /\ AtUser(p) /\ fd_table[p][f] # Unused
  /\ BecomeTables(file_close(TablesNow, fd_table[p][f]))
  /\ fd_table' = ReleaseFd(p, f)
  /\ opened' = [opened EXCEPT ![p][f] = 0]
  /\ UNCHANGED <<volume, alive, call, owner, after>>

\* sys_exit: release_prog_resource closes the open descriptors one by one.
sys_exit(p) ==
  /\ AtUser(p) /\ p # Shell
  /\ LET closed[f \in 2..(FdMax - 1)] ==
           IF f = 2 THEN TablesNow
           ELSE IF fd_table[p][f] = Unused THEN closed[f - 1]
           ELSE file_close(closed[f - 1], fd_table[p][f])
     IN  BecomeTables(closed[FdMax - 1])
  /\ fd_table' = [fd_table EXCEPT ![p] = [f \in Fd |-> Unused]]
  /\ opened' = [opened EXCEPT ![p] = [f \in Fd |-> 0]]
  /\ alive' = alive \ {p}
  /\ UNCHANGED <<volume, call, owner, after>>

\* The inode each open descriptor of p leads to.
Leads(p) == [f \in Fd \ FreeFds(p) |-> file_table[fd_table[p][f]].fd_inode]

\* sys_fork: the child gets a copy of fd_table, and update_inode_open_cnts.
sys_fork(p, c) ==
  /\ AtUser(p) /\ c \notin alive
  /\ FreeFds(p) = Fd \/ MayOpen
  /\ fd_table' = [fd_table EXCEPT ![c] = fd_table[p]]
  /\ alive' = alive \cup {c}
  /\ after' = IF FreeFds(p) = Fd THEN after ELSE IF Shared THEN after - 1 ELSE MaxAfter
  /\ opened' = IF Shared' THEN [q \in Proc |-> [f \in Fd |-> 0]] ELSE opened
  /\ LET to == Leads(p) IN
     \/ /\ \E f \in DOMAIN to : to[f] = Null
        /\ Stops("fault")
        /\ UNCHANGED inode
     \/ /\ \A f \in DOMAIN to : to[f] # Null
        /\ inode' = [a \in INode |->
             [inode[a] EXCEPT !.i_open_cnts = @ + Cardinality({f \in DOMAIN to : to[f] = a})]]
        /\ UNCHANGED <<call, owner, kernel>>
  /\ UNCHANGED <<file_table, open_inodes, volume>>

Of(p, f) == file_table[fd_table[p][f]].fd_inode
SlotOf(p, f) == file_table[fd_table[p][f]]

\* sys_lseek to pos: the three values of whence reach every position, those
\* beyond the last block are refused.
sys_lseek(p, f, pos) ==
  /\ AtUser(p) /\ fd_table[p][f] # Unused
  /\ \/ /\ Of(p, f) = Null
        /\ Stops("fault")
        /\ UNCHANGED file_table
     \/ /\ Of(p, f) # Null
        /\ pos <= inode[Of(p, f)].i_size - 1
        /\ file_table' = [file_table EXCEPT ![fd_table[p][f]].fd_pos = pos]
        /\ UNCHANGED <<call, owner, kernel>>
  /\ UNCHANGED <<inode, open_inodes, volume, procs, after>>

\* How much file_read reads.
ReadSize(pos, count, i_size) == IF pos + count > i_size THEN i_size - pos ELSE count

\* sys_read and file_read as far as the first transfer.  Behind the end of
\* the file, i_size - fd_pos wraps and the loop runs out of all_blocks.
sys_read(p, f, count) ==
  /\ AtUser(p) /\ fd_table[p][f] # Unused
  /\ \/ /\ \/ Of(p, f) = Null
           \/ Of(p, f) # Null /\ SlotOf(p, f).fd_pos > inode[Of(p, f)].i_size
        /\ Stops("fault")
     \/ /\ Of(p, f) # Null
        /\ LET size == ReadSize(SlotOf(p, f).fd_pos, count, inode[Of(p, f)].i_size) IN
           /\ size > 0
           /\ call' = [call EXCEPT ![p] = [op |-> "read", slot |-> fd_table[p][f], left |-> size]]
        /\ UNCHANGED <<owner, kernel>>
  /\ UNCHANGED <<tables, volume, procs, after>>

\* One round of the loop of file_read.
file_read(p) ==
  /\ InCall(p, "read")
  /\ LET c == call[p] IN
     /\ file_table' = [file_table EXCEPT ![c.slot].fd_pos = @ + 1]
     /\ IF c.left = 1 THEN Returns(p) ELSE GoesOn(p, [c EXCEPT !.left = @ - 1])
  /\ UNCHANGED <<inode, open_inodes, volume, procs, after>>

\* file_write gives sector idx a block.  The ASSERTs: this sector has none,
\* the one before it has one.
AllocSector(p, a, idx, next) ==
  /\ kernel' = IF idx = inode[a].secs THEN kernel ELSE "panic"
  /\ inode' = [inode EXCEPT ![a].secs = idx + 1]
  /\ call' = [call EXCEPT ![p] = next]

\* Mutant: the block a full file has in reserve is forgotten.
used_blocks_exact(size) == size

\* file_has_used_blocks and file_will_use_blocks
used_blocks(size) == size + 1

\* The blocks from file_has_used_blocks to file_will_use_blocks are new.
AllocFirst(p, a, c) ==
  LET has == used_blocks(inode[a].i_size)
      will == used_blocks(inode[a].i_size + c.count) IN
  AllocSector(p, a, has, [op |-> "alloc", slot |-> c.slot, count |-> c.count, idx |-> has + 1, to |-> will])

\* sys_write and file_write as far as the first transfer: a file without
\* blocks gets its first one, another one the first of the new blocks.
sys_write(p, f, count) ==
  /\ AtUser(p) /\ fd_table[p][f] # Unused /\ SlotOf(p, f).fd_flag = "write"
  /\ LET a == Of(p, f)
         c == [op |-> "size", slot |-> fd_table[p][f], count |-> count] IN
     \/ /\ a = Null
        /\ Stops("fault")
        /\ UNCHANGED inode
     \/ /\ a # Null /\ inode[a].i_size + count < MaxSize
        /\ IF inode[a].secs = 0 THEN AllocSector(p, a, 0, c) ELSE AllocFirst(p, a, c)
        /\ UNCHANGED owner
  /\ UNCHANGED <<file_table, open_inodes, volume, procs, after>>

\* A step of file_write on the inode its slot leads to.
Writing(p, op) == InCall(p, op) /\ file_table[call[p].slot].fd_inode # Null

\* The sizes are computed after the first block of a new file.
write_size(p) ==
  /\ Writing(p, "size")
  /\ AllocFirst(p, file_table[call[p].slot].fd_inode, call[p])
  /\ owner' = p
  /\ UNCHANGED <<file_table, open_inodes, volume, procs, after>>

write_alloc(p) ==
  /\ Writing(p, "alloc")
  /\ LET c == call[p]
         a == file_table[c.slot].fd_inode IN
     \/ /\ c.idx < c.to
        /\ AllocSector(p, a, c.idx, [c EXCEPT !.idx = @ + 1])
        /\ UNCHANGED file_table
     \/ /\ c.idx = c.to
        /\ file_table' = [file_table EXCEPT ![c.slot].fd_pos = inode[a].i_size - 1]
        /\ call' = [call EXCEPT ![p] = [op |-> "data", slot |-> c.slot, left |-> c.count]]
        /\ UNCHANGED <<inode, kernel>>
  /\ owner' = p
  /\ UNCHANGED <<open_inodes, volume, procs, after>>

\* One round of the loop of file_write, or the inode_sync that follows it.
file_write(p) ==
  /\ Writing(p, "data")
  /\ LET c == call[p]
         a == file_table[c.slot].fd_inode IN
     \/ /\ c.left > 0
        /\ inode' = [inode EXCEPT ![a].i_size = @ + 1]
        /\ file_table' = [file_table EXCEPT ![c.slot].fd_pos = @ + 1]
        /\ GoesOn(p, [c EXCEPT !.left = @ - 1])
        /\ UNCHANGED disk
     \/ /\ c.left = 0
        /\ disk' = inode_sync(a)
        /\ Returns(p)
        /\ UNCHANGED <<inode, file_table>>
  /\ UNCHANGED <<open_inodes, dir, inode_bitmap, procs, after>>

\* The slot of a file_write was closed meanwhile.
write_fault(p) ==
  /\ \E op \in {"size", "alloc", "data"} : InCall(p, op)
  /\ file_table[call[p].slot].fd_inode = Null
  /\ Stops("fault")
  /\ UNCHANGED <<tables, volume, procs, after>>

\* Mutant: an open file may be removed.
NeverInUse(i) == FALSE

\* The search of file_table in sys_unlink.
InUse(i) == \E s \in Slot \ FreeSlots : inode[file_table[s].fd_inode].i_no = i

\* sys_unlink with delete_dir_entry and inode_release; an inode in the list
\* is opened and closed again, and stays there.
sys_unlink(p, n) ==
  /\ AtUser(p) /\ owner = None
  /\ dir[n] # 0 /\ ~InUse(dir[n])
  /\ dir' = [dir EXCEPT ![n] = 0]
  /\ inode_bitmap' = inode_bitmap \ {dir[n]}
  /\ disk' = [disk EXCEPT ![dir[n]] = NoINode]
  /\ UNCHANGED <<tables, procs, call, owner, kernel, after>>

\* painc_spin, or the loop of general_intr_handler
Halted == kernel # "up" /\ UNCHANGED filesVars

FilesNext ==
  \/ \E p \in Proc :
       \/ \E n \in Name, flag \in {"read", "write"} : sys_open(p, n, flag) \/ file_create(p, n, flag)
       \/ inode_open(p) \/ file_created(p)
       \/ \E f \in Fd : sys_close(p, f)
       \/ sys_exit(p)
       \/ \E c \in Proc : sys_fork(p, c)
       \/ \E f \in Fd, pos \in 0..MaxSize : sys_lseek(p, f, pos)
       \/ \E f \in Fd, count \in Counts : sys_read(p, f, count) \/ sys_write(p, f, count)
       \/ file_read(p) \/ write_size(p) \/ write_alloc(p) \/ file_write(p) \/ write_fault(p)
       \/ \E n \in Name : sys_unlink(p, n)
  \/ Halted

FilesSpec == FilesInit /\ [][FilesNext]_filesVars

-----------------------------------------------------------------------------
(* Properties.                                                             *)

FilesTypeOK ==
  /\ fd_table \in [Proc -> [Fd -> Slot \cup {Unused}]]
  /\ file_table \in [Slot -> [fd_inode : INode \cup {Null}, fd_pos : Int, fd_flag : {"read", "write"}]]
  /\ inode \in [INode -> [i_no : INo \cup {0}, i_open_cnts : Int, write_deny : BOOLEAN,
                          i_size : Nat, secs : Nat]]
  /\ open_inodes \in Seq(INode)
  /\ dir \in [Name -> INo \cup {0}]
  /\ inode_bitmap \subseteq INo
  /\ alive \subseteq Proc
  /\ \A p \in Proc : call[p] = Idle \/ call[p].slot \in Slot
  /\ owner \in Proc \cup {None}
  /\ kernel \in {"up", "panic", "fault"}

\* An inode pointer in file_table is never stale, whatever was shared by
\* fork: the inode is in the list, once, and counts at least the slots that
\* lead to it.  (A new file is counted when file_create is done.)
NoStaleINode ==
  /\ FilesTypeOK
  /\ \A a \in INode :
       LET n == Cardinality({s \in Slot : file_table[s].fd_inode = a})
           k == Cardinality({j \in DOMAIN open_inodes : open_inodes[j] = a}) IN
       (n > 0 /\ ~\E p \in Proc : call[p].op = "create" /\ call[p].at = a) =>
         k = 1 /\ inode[a].i_open_cnts >= n

\* A file that is open is not removed, nor is its number given to another:
\* it is in the bitmap and some name leads to it.
OpenFilesStay ==
  \A s \in Slot \ FreeSlots :
    LET i == inode[file_table[s].fd_inode].i_no IN
    i \in inode_bitmap /\ \E n \in Name : dir[n] = i

\* doc/0x73: a descriptor belongs to one process.  Whatever the others open,
\* close or remove, it leads to the file the process opened with it, by a
\* slot no other descriptor leads to, at a position in the file or at its
\* end.  All this until a process forks with a file open.
DescriptorsPrivate ==
  \A p \in Proc : \A f \in Fd :
    (~Shared /\ fd_table[p][f] # Unused) =>
      /\ Of(p, f) # Null
      /\ inode[Of(p, f)].i_no = opened[p][f]
      /\ SlotOf(p, f).fd_pos <= inode[Of(p, f)].i_size
      /\ \A q \in Proc : \A g \in Fd : fd_table[q][g] = fd_table[p][f] => p = q /\ f = g

\* Until then the list has one inode for each open file and no other, so
\* memory has a file once, and what the disk has of a file nobody is writing
\* is what memory has of it.
OneCurrentCopy ==
  ~Shared =>
    \A k \in DOMAIN open_inodes :
      LET a == open_inodes[k]
          i == inode[a].i_no IN
      /\ \E s \in Slot : file_table[s].fd_inode = a
      /\ InList(i) = {k}
      /\ \/ \E p \in Proc : call[p].op \in {"size", "alloc", "data"} /\ file_table[call[p].slot].fd_inode = a
         \/ disk[i].i_size = inode[a].i_size /\ disk[i].secs = inode[a].secs

\* Of(p, f) is open for writing.
Writes(p, f) == fd_table[p][f] # Unused /\ Of(p, f) # Null /\ SlotOf(p, f).fd_flag = "write"

\* fs/inode.h:11 and fs/file.c:207: two processes do not open a file for
\* writing at the same time.
OneWriter ==
  \A p, q \in Proc : \A f, g \in Fd :
    Writes(p, f) /\ Writes(q, g) /\ Of(p, f) = Of(q, g) =>
      p = q \/ fd_table[p][f] = fd_table[q][g]

\* No ASSERT of file_write fails while one process writes a file, and no
\* call meets a closed slot until a process forks with a file open.
StopsOnlyIfShared ==
  /\ kernel = "panic" => Shared \/ ~OneWriter
  /\ kernel = "fault" => Shared

=============================================================================
