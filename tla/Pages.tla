-------------------------------- MODULE Pages --------------------------------
(***************************************************************************)
(* Pages of memory (kernel/losmemory.c) and the calls that take and return *)
(* them: fork, execv, exit and wait, malloc and free of whole pages, and   *)
(* the boot of the first process.                                          *)
(*                                                                         *)
(* All of it runs with interrupts off.  A call that loops over pages is a  *)
(* step per page here, call holds what is left of it, and nothing else is  *)
(* done until it returns, or waits for the lock of the user pool.          *)
(*                                                                         *)
(* A frame is a physical page: the kernel pool has 1..KPages, the user     *)
(* pool the UPages after them; 0 stands for NULL and for an entry that is  *)
(* not present.  Page v of the kernel is K_HEAP_START + v * PG_SIZE, page  *)
(* v of a process USER_VADDR_START + v * PG_SIZE.                          *)
(***************************************************************************)
EXTENDS Bitmap, FiniteSets

CONSTANTS
  Procs,      \* processes are 1..Procs, in the order in which they get a pid
  KBytes,     \* bytes of the bitmap of the kernel pool, and of kernel_vaddr
  UBytes,     \* bytes of the bitmap of the user pool
  VBytes,     \* bytes of the bitmap of a process's addresses
  MapPages,   \* pages that bitmap takes, rounded up: 23 in the code
  PtePer,     \* pages under one entry of the page directory, 1024 in the code
  PgSize,     \* PG_SIZE
  Segments,   \* <<p_vaddr, p_filesz>> of the programs, p_vaddr from
              \* USER_VADDR_START on
  MallocPages,\* numbers of pages that programs ask malloc for
  MaxHeap     \* bound on the pages of the heap of the kernel

KPages == Byte * KBytes
UPages == Byte * UBytes
VPages == Byte * VBytes

ASSUME PagesAssumption ==
  /\ Procs \in Nat \ {0} /\ KBytes \in Nat /\ UBytes \in Nat \ {0} /\ VBytes \in Nat \ {0}
  /\ MapPages \in Nat \ {0, 1} /\ PtePer \in Nat \ {0} /\ PgSize \in Nat \ {0}
  /\ MallocPages \subseteq Nat \ {0} /\ MaxHeap \in Nat
  /\ Byte * KBytes >= MapPages + 4
  /\ Segments \subseteq (0..(PgSize * Byte * VBytes - 1)) \X Nat
  /\ \A s \in Segments : s[1] + s[2] <= PgSize * Byte * VBytes

Proc == 1..Procs
Null == 0
KFrame == 1..KPages
UFrame == (KPages + 1)..(KPages + UPages)
KPage == 0..KPages          \* the last one is after the bitmap
VPage == 0..(VPages - 1)
Pde == 0..((VPages - 1) \div PtePer)
StackPage == VPages - 1     \* the page of USER_STACK3_VADDR

VARIABLES
  kernel_pool,  \* frames of the kernel pool in use
  user_pool,    \* frames of the user pool in use
  kernel_vaddr, \* pages of the kernel in use
  kpt,          \* the frame of each page of the kernel
  status,       \* of each process: "none", "making", "ready" (not yet
                \* started), "live", "zombie", "gone", and "lost": its fork
                \* failed, and what it took by then is never freed
  vaddr,        \* pages of each process in use (userprog_vaddr)
  pt,           \* the frame of each page of a process
  pde,          \* the frame of the page table of each entry
  own,          \* pages of the kernel each process has: its pcb, the buffer
                \* of its fork, its bitmap, its page directory
  idle,         \* the page of the pcb of the idle thread
  heap,         \* pages of the heap of the kernel
  blocks,       \* <<start, number>> of the pages a process got from malloc
  lock,         \* who has kept the lock of the user pool, or Null
  waits,        \* the processes that wait for it
  call,         \* the call in progress: p makes it, c is the child it makes,
                \* at says how far it is, todo has the pages left, got is
                \* the block it returns
  short,        \* history: the processes an allocation of pages failed
  kernel        \* "up", "panic" (ASSERT), "fault" (page fault in the
                \* kernel), or "torn": page_table_add took frame 0, the
                \* interrupt vectors, for a page table, and the model ends

kmem == <<kernel_pool, kernel_vaddr, kpt>>
umem == <<user_pool, vaddr, pt, pde>>
pagesVars == <<kmem, umem, status, own, idle, heap, blocks, lock, waits, call, short, kernel>>

Idle == [at |-> "idle", p |-> Null, c |-> Null, todo |-> {}, got |-> {}]
NoPages == [pcb |-> {}, buf |-> {}, bits |-> {}, dir |-> {}]

\* mem_init, and thread_init as far as process_execute
PagesInit ==
  /\ kernel_pool = {} /\ user_pool = {} /\ kernel_vaddr = {}
  /\ kpt = [v \in KPage |-> Null]
  /\ status = [p \in Proc |-> IF p = 1 THEN "making" ELSE "none"]
  /\ vaddr = [p \in Proc |-> {}]
  /\ pt = [p \in Proc |-> [v \in VPage |-> Null]]
  /\ pde = [p \in Proc |-> [d \in Pde |-> Null]]
  /\ own = [p \in Proc |-> NoPages]
  /\ idle = {} /\ heap = {}
  /\ blocks = [p \in Proc |-> {}]
  /\ lock = Null /\ waits = {} /\ short = {}
  /\ call = [Idle EXCEPT !.at = "pcb", !.c = 1]
  /\ kernel = "up"
-----------------------------------------------------------------------------
KFree == KFrame \ kernel_pool
UFree == UFrame \ user_pool
\* palloc: the frame bitmap_scan finds in the pool (see ScanIsFirstRun)
palloc(free) == Least(free)

\* vaddr_get(PF_KERNEL, 1), and whether malloc_page(PF_KERNEL, 1) succeeds
KFirst == FirstRun(kernel_vaddr, KBytes, 1)
HasKPage == KFirst # -1 /\ KFree # {}

\* Mutant: malloc_page marks no address.
KeepAddress ==
  IF HasKPage
  THEN /\ kernel_pool' = kernel_pool \cup {palloc(KFree)}
       /\ kpt' = [kpt EXCEPT ![KFirst] = palloc(KFree)]
       /\ UNCHANGED kernel_vaddr
  ELSE UNCHANGED kmem

\* get_kernel_pages(1).  An address that gets no frame stays marked.
get_kernel_page ==
  IF HasKPage
  THEN /\ kernel_pool' = kernel_pool \cup {palloc(KFree)}
       /\ kpt' = [kpt EXCEPT ![KFirst] = palloc(KFree)]
       /\ kernel_vaddr' = bitmap_set(kernel_vaddr, {KFirst})
  ELSE /\ kernel_vaddr' = bitmap_set(kernel_vaddr, IF KFirst = -1 THEN {} ELSE {KFirst})
       /\ UNCHANGED <<kernel_pool, kpt>>

\* mfree_page(PF_KERNEL, ...) of the pages in S, and more frames with them
mfree_kernel(S, frames) ==
  /\ kernel_pool' = kernel_pool \ ({kpt[v] : v \in S} \cup frames)
  /\ kernel_vaddr' = bitmap_clear(kernel_vaddr, S)
  /\ kpt' = [v \in KPage |-> IF v \in S THEN Null ELSE kpt[v]]

\* Whether page_table_add finds no frame for a page table it needs.
NoTable(q, v) == pde[q][v \div PtePer] = Null /\ KFree = {}

\* palloc(&user_pool) and page_table_add for page v of q
page_table_add(q, v) ==
  /\ user_pool' = user_pool \cup {palloc(UFree)}
  /\ pt' = [pt EXCEPT ![q][v] = palloc(UFree)]
  /\ IF pde[q][v \div PtePer] = Null
     THEN /\ kernel_pool' = kernel_pool \cup {palloc(KFree)}
          /\ pde' = [pde EXCEPT ![q][v \div PtePer] = palloc(KFree)]
     ELSE UNCHANGED <<kernel_pool, pde>>
  /\ kernel' = IF pt[q][v] = Null THEN kernel ELSE "panic"
  /\ UNCHANGED <<kernel_vaddr, kpt>>

AtUser(p) == kernel = "up" /\ call = Idle /\ status[p] = "live" /\ p \notin waits
InCall(at) == kernel = "up" /\ call.at = at

\* Mutant: a lock that is not re-entrant.
LockedByAny(p) == lock # Null

\* lock_acquire(&user_pool.lock) of p has to wait.
Locked(p) == lock # Null /\ lock # p

Stops(why) ==
  kernel' = why /\ UNCHANGED <<kmem, umem, status, own, idle, heap, blocks, lock, waits, call, short>>

\* Nobody will release it, see get_a_page.
Waits(p) ==
  /\ waits' = waits \cup {p} /\ call' = Idle
  /\ UNCHANGED <<kmem, umem, status, own, idle, heap, blocks, lock, short, kernel>>
-----------------------------------------------------------------------------
(* Making a process: process_execute at boot (p = Null), and sys_fork       *)

Unused == {q \in Proc : status[q] = "none"}
Child == call.c
ForkFails == status' = [status EXCEPT ![Child] = "lost"] /\ call' = Idle

\* process_execute, as far as the pcb
process_execute ==
  /\ InCall("pcb")
  /\ get_kernel_page
  /\ own' = [own EXCEPT ![Child].pcb = {KFirst}]
  /\ call' = [call EXCEPT !.at = "bits"]
  /\ UNCHANGED <<umem, status, idle, heap, blocks, lock, waits, short, kernel>>

\* sys_fork, as far as copy_process; if there is no page it returns -1
sys_fork(p) ==
  /\ AtUser(p) /\ Unused # {}
  /\ get_kernel_page
  /\ IF HasKPage
     THEN LET c == Least(Unused) IN
          /\ own' = [own EXCEPT ![c].pcb = {KFirst}]
          /\ status' = [status EXCEPT ![c] = "making"]
          /\ call' = [Idle EXCEPT !.at = "buf", !.p = p, !.c = c]
     ELSE UNCHANGED <<own, status, call>>
  /\ UNCHANGED <<umem, idle, heap, blocks, lock, waits, short, kernel>>

\* copy_process: the buffer
copy_process ==
  /\ InCall("buf")
  /\ get_kernel_page
  /\ IF HasKPage
     THEN /\ own' = [own EXCEPT ![Child].buf = {KFirst}]
          /\ call' = [call EXCEPT !.at = "bits"]
          /\ UNCHANGED status
     ELSE ForkFails /\ UNCHANGED own
  /\ UNCHANGED <<umem, idle, heap, blocks, lock, waits, short, kernel>>

\* create_user_vaddr_bitmap, or copy_pcb_vaddrbitmap_stack0: the addresses of
\* the bitmap of the process
bitmap_pages ==
  /\ InCall("bits")
  /\ LET r == FirstRun(kernel_vaddr, KBytes, MapPages)
         run == r..(r + MapPages - 1) IN
     IF r # -1
     THEN /\ kernel_vaddr' = bitmap_set(kernel_vaddr, run)
          /\ own' = [own EXCEPT ![Child].bits = run]
          /\ call' = [call EXCEPT !.at = "map", !.todo = run]
          /\ UNCHANGED status
     ELSE ForkFails /\ UNCHANGED <<kernel_vaddr, own>>
  /\ UNCHANGED <<kernel_pool, kpt, umem, idle, heap, blocks, lock, waits, short, kernel>>

\* The loop of malloc_page gives them frames, and the bitmap is the parent's.
bitmap_frame ==
  /\ InCall("map")
  /\ IF KFree # {}
     THEN LET v == Least(call.todo) IN
          /\ kernel_pool' = kernel_pool \cup {palloc(KFree)}
          /\ kpt' = [kpt EXCEPT ![v] = palloc(KFree)]
          /\ IF call.todo = {v}
             THEN /\ call' = [call EXCEPT !.at = "dir", !.todo = {}]
                  /\ vaddr' = [vaddr EXCEPT ![Child] = IF call.p = Null THEN {} ELSE vaddr[call.p]]
             ELSE /\ call' = [call EXCEPT !.todo = @ \ {v}]
                  /\ UNCHANGED vaddr
          /\ UNCHANGED status
     ELSE ForkFails /\ UNCHANGED <<kernel_pool, kpt, vaddr>>
  /\ UNCHANGED <<kernel_vaddr, user_pool, pt, pde, own, idle, heap, blocks, lock, waits, short, kernel>>

\* create_page_dir; at boot the process is then ready
create_page_dir ==
  /\ InCall("dir")
  /\ get_kernel_page
  /\ IF HasKPage
     THEN /\ own' = [own EXCEPT ![Child].dir = {KFirst}]
          /\ IF call.p = Null
             THEN /\ status' = [status EXCEPT ![Child] = "ready"]
                  /\ call' = [call EXCEPT !.at = "idle thread"]
             ELSE /\ call' = [call EXCEPT !.at = "copy", !.todo = vaddr[call.p] \cap VPage]
                  /\ UNCHANGED status
     ELSE ForkFails /\ UNCHANGED own
  /\ UNCHANGED <<umem, idle, heap, blocks, lock, waits, short, kernel>>

\* thread_start of the idle thread, the end of thread_init
thread_start ==
  /\ InCall("idle thread")
  /\ get_kernel_page
  /\ idle' = {KFirst}
  /\ call' = Idle
  /\ UNCHANGED <<umem, status, own, heap, blocks, lock, waits, short, kernel>>

\* copy_body_stack3, one marked page of the parent: it is read, then the
\* child gets a page (get_a_page_without_opvaddrbitmap, whose failure nobody
\* looks at) and it is written.
copy_body_stack3 ==
  /\ InCall("copy") /\ call.todo # {}
  /\ LET v == Least(call.todo) IN
     IF pt[call.p][v] = Null THEN Stops("fault")
     ELSE IF Locked(call.p) THEN Waits(call.p)
     ELSE IF UFree = {} THEN Stops("fault")
     ELSE IF NoTable(Child, v) THEN Stops("torn")
     ELSE /\ page_table_add(Child, v)
          /\ call' = [call EXCEPT !.todo = @ \ {v}]
          /\ UNCHANGED <<vaddr, status, own, idle, heap, blocks, lock, waits, short>>

\* Mutant: copy_process keeps the buffer.
KeepBuffer ==
  /\ InCall("copy") /\ call.todo = {}
  /\ own' = [own EXCEPT ![Child].buf = {}]
  /\ status' = [status EXCEPT ![Child] = "live"]
  /\ blocks' = [blocks EXCEPT ![Child] = blocks[call.p]]
  /\ call' = Idle
  /\ UNCHANGED <<kmem, umem, idle, heap, lock, waits, short, kernel>>

\* The end of copy_process and of sys_fork
fork_ends ==
  /\ InCall("copy") /\ call.todo = {}
  /\ mfree_kernel(own[Child].buf, {})
  /\ own' = [own EXCEPT ![Child].buf = {}]
  /\ status' = [status EXCEPT ![Child] = "live"]
  /\ blocks' = [blocks EXCEPT ![Child] = blocks[call.p]]
  /\ call' = Idle
  /\ UNCHANGED <<umem, idle, heap, lock, waits, short, kernel>>
-----------------------------------------------------------------------------
(* Pages of a process                                                       *)

\* start_process, first run of the first process: its stack
start_process(p) ==
  /\ kernel = "up" /\ call = Idle /\ status[p] = "ready"
  /\ status' = [status EXCEPT ![p] = "live"]
  /\ call' = [Idle EXCEPT !.at = "load", !.p = p, !.todo = {StackPage}]
  /\ UNCHANGED <<kmem, umem, own, idle, heap, blocks, lock, waits, short, kernel>>

\* Mutant: occupy_pages forgets that the segment may start inside a page.
PagesOfSize(s) ==
  LET first == s[1] \div PgSize IN first..(first + (s[2] + PgSize - 1) \div PgSize - 1)

\* The pages segment_load goes through
segment_pages(s) ==
  LET first == s[1] \div PgSize
      size_in_first_page == PgSize - (s[1] % PgSize)
      occupy_pages == IF s[2] > size_in_first_page
                      THEN (s[2] - size_in_first_page + PgSize - 1) \div PgSize + 1
                      ELSE 1
  IN first..(first + occupy_pages - 1)

\* sys_execv of a program with one segment, as far as the loop of segment_load
sys_execv(p, s) ==
  /\ AtUser(p)
  /\ call' = [Idle EXCEPT !.at = "load", !.p = p, !.got = {s},
                          !.todo = {v \in segment_pages(s) : pt[p][v] = Null}]
  /\ UNCHANGED <<kmem, umem, status, own, idle, heap, blocks, lock, waits, short, kernel>>

\* get_a_page(PF_USER, ...) for the next page that start_process or
\* segment_load needs.  If there is no frame it returns NULL and has not
\* released the lock; the address stays marked.
get_a_page ==
  /\ InCall("load") /\ call.todo # {}
  /\ LET v == Least(call.todo) IN
     IF Locked(call.p) THEN Waits(call.p)
     ELSE IF ~(v > 0) THEN Stops("panic")
     ELSE IF UFree # {} /\ NoTable(call.p, v) THEN Stops("torn")
     ELSE /\ vaddr' = [vaddr EXCEPT ![call.p] = bitmap_set(@, {v})]
          /\ IF UFree = {}
             THEN /\ call' = Idle /\ lock' = call.p /\ short' = short \cup {call.p}
                  /\ UNCHANGED <<kmem, user_pool, pt, pde, kernel>>
             ELSE /\ page_table_add(call.p, v)
                  /\ call' = [call EXCEPT !.todo = @ \ {v}]
                  /\ UNCHANGED <<lock, short>>
          /\ UNCHANGED <<status, own, idle, heap, blocks, waits>>

\* The segment is read from the file, or the first process starts.  A new
\* program knows nothing of the blocks of the old one, whose pages stay.
load_ends ==
  /\ InCall("load") /\ call.todo = {}
  /\ blocks' = [blocks EXCEPT ![call.p] = {}]
  /\ call' = Idle
  /\ UNCHANGED <<kmem, umem, status, own, idle, heap, lock, waits, short, kernel>>

\* sys_malloc of n pages in a process: the lock, and vaddr_get
sys_malloc(p, n) ==
  /\ AtUser(p)
  /\ LET r == FirstRun(vaddr[p], VBytes, n)
         run == r..(r + n - 1) IN
     IF Locked(p) THEN Waits(p)
     ELSE IF r = -1 THEN UNCHANGED pagesVars
     ELSE IF ~(r < StackPage) THEN Stops("panic")
     ELSE /\ vaddr' = [vaddr EXCEPT ![p] = bitmap_set(@, run)]
          /\ call' = [Idle EXCEPT !.at = "malloc", !.p = p, !.todo = run, !.got = {<<r, n>>}]
          /\ UNCHANGED <<kmem, user_pool, pt, pde, status, own, idle, heap, blocks, lock, waits,
                         short, kernel>>

\* The loop of malloc_page; when it fails the pages it has, and all the
\* addresses, stay with the process.
malloc_page ==
  /\ InCall("malloc") /\ call.todo # {}
  /\ LET v == Least(call.todo) IN
     IF UFree = {}
     THEN /\ call' = Idle /\ short' = short \cup {call.p}
          /\ UNCHANGED <<kmem, umem, status, own, idle, heap, blocks, lock, waits, kernel>>
     ELSE IF NoTable(call.p, v) THEN Stops("torn")
     ELSE /\ page_table_add(call.p, v)
          /\ call' = [call EXCEPT !.todo = @ \ {v}]
          /\ UNCHANGED <<vaddr, status, own, idle, heap, blocks, lock, waits, short>>

malloc_ends ==
  /\ InCall("malloc") /\ call.todo = {}
  /\ blocks' = [blocks EXCEPT ![call.p] = @ \cup call.got]
  /\ call' = Idle
  /\ UNCHANGED <<kmem, umem, status, own, idle, heap, lock, waits, short, kernel>>

\* sys_free of a block of pages: mfree_page(PF_USER, ...)
sys_free(p, b) ==
  /\ AtUser(p)
  /\ IF Locked(p) THEN Waits(p)
     ELSE LET run == b[1]..(b[1] + b[2] - 1) IN
          /\ user_pool' = user_pool \ {pt[p][v] : v \in run}
          /\ pt' = [pt EXCEPT ![p] = [v \in VPage |-> IF v \in run THEN Null ELSE pt[p][v]]]
          /\ vaddr' = [vaddr EXCEPT ![p] = bitmap_clear(@, run)]
          /\ blocks' = [blocks EXCEPT ![p] = @ \ {b}]
          /\ UNCHANGED <<kmem, pde, status, own, idle, heap, lock, waits, call, short, kernel>>
-----------------------------------------------------------------------------
(* The end of a process, and the heap of the kernel                         *)

Tables(p) == {pde[p][d] : d \in Pde} \ {Null}
Frames(p) == {pt[p][v] : v \in VPage} \ {Null}

\* release_prog_resource, in sys_exit: the frames and the page tables of the
\* process, and its bitmap, but for the last page of it: the number of pages
\* is rounded down here.
release_prog_resource(p) ==
  /\ AtUser(p)
  /\ p # 1
  /\ LET last == CHOOSE v \in own[p].bits : \A w \in own[p].bits : w <= v IN
     /\ user_pool' = user_pool \ Frames(p)
     /\ mfree_kernel(own[p].bits \ {last}, Tables(p))
     /\ own' = [own EXCEPT ![p].bits = {last}]
  /\ pt' = [pt EXCEPT ![p] = [v \in VPage |-> Null]]
  /\ pde' = [pde EXCEPT ![p] = [d \in Pde |-> Null]]
  /\ status' = [status EXCEPT ![p] = "zombie"]
  /\ blocks' = [blocks EXCEPT ![p] = {}]
  /\ UNCHANGED <<vaddr, idle, heap, lock, waits, call, short, kernel>>

\* thread_exit, in sys_wait: the page directory and the pcb of a process that
\* has ended
thread_exit(c) ==
  /\ kernel = "up" /\ call = Idle /\ status[c] = "zombie"
  /\ mfree_kernel(own[c].dir \cup own[c].pcb, {})
  /\ own' = [own EXCEPT ![c].dir = {}, ![c].pcb = {}]
  /\ status' = [status EXCEPT ![c] = "gone"]
  /\ UNCHANGED <<umem, idle, heap, blocks, lock, waits, call, short, kernel>>

\* sys_malloc with pgdir = NULL takes a page for an arena, and sys_free gives
\* it back.
kernel_malloc ==
  /\ kernel = "up" /\ call = Idle /\ Cardinality(heap) < MaxHeap
  /\ get_kernel_page
  /\ heap' = heap \cup (IF HasKPage THEN {KFirst} ELSE {})
  /\ UNCHANGED <<umem, status, own, idle, blocks, lock, waits, call, short, kernel>>

kernel_free(v) ==
  /\ kernel = "up" /\ call = Idle /\ v \in heap
  /\ mfree_kernel({v}, {})
  /\ heap' = heap \ {v}
  /\ UNCHANGED <<umem, status, own, idle, blocks, lock, waits, call, short, kernel>>

\* painc_spin, or the loop of general_intr_handler
Halted == kernel # "up" /\ UNCHANGED pagesVars

PagesNext ==
  \/ process_execute \/ copy_process \/ bitmap_pages \/ bitmap_frame \/ create_page_dir
  \/ thread_start \/ copy_body_stack3 \/ fork_ends
  \/ get_a_page \/ load_ends \/ malloc_page \/ malloc_ends
  \/ \E p \in Proc :
       \/ sys_fork(p) \/ start_process(p) \/ release_prog_resource(p) \/ thread_exit(p)
       \/ \E s \in Segments : sys_execv(p, s)
       \/ \E n \in MallocPages : sys_malloc(p, n)
       \/ \E b \in blocks[p] : sys_free(p, b)
  \/ kernel_malloc
  \/ \E v \in KPage : kernel_free(v)
  \/ Halted

PagesSpec == PagesInit /\ [][PagesNext]_pagesVars
-----------------------------------------------------------------------------
PagesTypeOK ==
  /\ kernel_pool \subseteq KFrame /\ user_pool \subseteq UFrame
  /\ kernel_vaddr \subseteq KPage
  /\ kpt \in [KPage -> KFrame \cup {Null}]
  /\ status \in [Proc -> {"none", "making", "ready", "live", "zombie", "gone", "lost"}]
  /\ vaddr \in [Proc -> SUBSET (0..VPages)]
  /\ pt \in [Proc -> [VPage -> UFrame \cup {Null}]]
  /\ pde \in [Proc -> [Pde -> KFrame \cup {Null}]]
  /\ own \in [Proc -> [pcb : SUBSET KPage, buf : SUBSET KPage, bits : SUBSET KPage, dir : SUBSET KPage]]
  /\ idle \subseteq KPage /\ heap \subseteq KPage
  /\ blocks \in [Proc -> SUBSET (VPage \X MallocPages)]
  /\ lock \in Proc \cup {Null} /\ waits \subseteq Proc /\ short \subseteq Proc
  /\ call \in [at : {"idle", "pcb", "buf", "bits", "map", "dir", "idle thread", "copy", "load", "malloc"},
               p : Proc \cup {Null}, c : Proc \cup {Null}, todo : SUBSET Nat,
               got : SUBSET (Nat \X Nat)]
  /\ kernel \in {"up", "panic", "fault", "torn"}

\* No frame is under two pages, under a page and a page table, or in two page
\* directories.
OneOwner ==
  /\ \A v, w \in KPage : kpt[v] # Null /\ kpt[v] = kpt[w] => v = w
  /\ \A p, q \in Proc : \A d, e \in Pde : pde[p][d] # Null /\ pde[p][d] = pde[q][e] => p = q /\ d = e
  /\ \A v \in KPage : \A p \in Proc : \A d \in Pde : kpt[v] # Null => kpt[v] # pde[p][d]
  /\ \A p, q \in Proc : \A v, w \in VPage : pt[p][v] # Null /\ pt[p][v] = pt[q][w] => p = q /\ v = w

\* The bitmaps of the pools have exactly the frames in use.
PoolsExact ==
  /\ kernel_pool = ({kpt[v] : v \in KPage} \ {Null}) \cup UNION {Tables(p) : p \in Proc}
  /\ user_pool = UNION {Frames(p) : p \in Proc}

\* Every frame has one user or is free in its pool, whatever was forked,
\* loaded, freed or given up half way: palloc gives away no frame in use, and
\* none is lost that no page and no page table has (palloc, pfree,
\* page_table_add, free_a_phy_page).
FramesExact == PagesTypeOK /\ OneOwner /\ PoolsExact

PagesOf(p) == own[p].pcb \cup own[p].buf \cup own[p].bits \cup own[p].dir
KMapped == {v \in KPage : kpt[v] # Null}

\* A page of the kernel that has a frame belongs to the idle thread, to the
\* heap or to one process, so what it costs is known: a process that lives has
\* its pcb, its page directory and the MapPages pages of its bitmap.  Of one
\* that has exited no page is left but pcb, directory and at most one of its
\* bitmap (release_prog_resource rounds the number of its pages down), of one
\* that was waited for at most that one, and only a fork that failed or waits
\* leaves more.
KernelPagesKnown ==
  /\ \A v \in KMapped : v \in kernel_vaddr
  /\ KMapped \subseteq idle \cup heap \cup UNION {PagesOf(p) : p \in Proc}
  /\ \A p \in Proc :
       /\ PagesOf(p) \cap (idle \cup heap) = {}
       /\ \A q \in Proc \ {p} : PagesOf(p) \cap PagesOf(q) = {}
       /\ status[p] \in {"ready", "live", "zombie", "gone"} => PagesOf(p) \subseteq KMapped
       /\ status[p] \in {"ready", "live"} => Cardinality(PagesOf(p)) = MapPages + 2
       /\ status[p] = "zombie" => Cardinality(PagesOf(p) \ (own[p].pcb \cup own[p].dir)) <= 1
       /\ status[p] = "gone" => Cardinality(PagesOf(p)) <= 1 /\ PagesOf(p) \subseteq own[p].bits

InPages(p) == call.p = p /\ call.at \in {"load", "malloc"}

\* The bitmap of a process agrees with its page table, as fork takes for
\* granted (userprog/fork.c:63: the pages that have data): a page that has a
\* frame is marked, and a page that is marked has a frame unless an allocation
\* of the process failed.  The pages of the blocks malloc returned have one,
\* and so has every byte of a segment when segment_load reads it.
MarkedIsMapped ==
  \A p \in Proc : status[p] = "live" =>
    LET mapped == {v \in VPage : pt[p][v] # Null} IN
    /\ mapped \subseteq vaddr[p]
    /\ p \in short \/ InPages(p) \/ vaddr[p] \subseteq mapped
    /\ \A b \in blocks[p] : b[1]..(b[1] + b[2] - 1) \subseteq mapped
    /\ (InCall("load") /\ call.p = p /\ call.todo = {}) =>
         \A s \in call.got : {b \div PgSize : b \in s[1]..(s[1] + s[2] - 1)} \subseteq mapped

\* The kernel stops only for want of memory, or to load page 0 of a process:
\* page_table_add finds no page in its place, and fork meets no unmapped page
\* of a process whose allocations all succeeded.  And a process waits for the
\* lock of the user pool only if get_a_page has kept it, having found no frame
\* (kernel/losmemory.c:333).
StopsExplained ==
  /\ kernel = "panic" => call.at = "load" /\ 0 \in call.todo
  /\ kernel = "fault" => call.at = "copy" /\ (call.p \in short \/ UFree = {})
  /\ kernel = "torn" => KFree = {}
  /\ lock # Null => lock \in short
  /\ waits # {} => lock # Null /\ lock \notin waits

\* bitmap_scan of n bits: the first run in the map if there is one, and
\* if there is none -1 or a run that ends with the bit after the map.  This is
\* what vaddr_get is modelled with.
ScansRight(map, len, n) ==
  LET runs == {b \in 0..(Byte * len - n) : b..(b + n - 1) \cap map = {}}
      found == bitmap_scan(map, len, n) IN
  /\ found = FirstRun(map, len, n)
  /\ runs # {} => found = Least(runs)
  /\ runs = {} => found \in {-1, Byte * len - n + 1}

=============================================================================
