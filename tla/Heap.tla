-------------------------------- MODULE Heap ---------------------------------
(***************************************************************************)
(* sys_malloc and sys_free (kernel/losmemory.c): blocks of DescCnt sizes   *)
(* cut from pages (arenas), lists of free blocks, and larger blocks of     *)
(* whole pages; for the kernel and for each process, with what fork and    *)
(* execv do to the heap of a process.                                      *)
(*                                                                         *)
(* A block is <<page, number in its arena>>, a large one <<page, 0>>.  The *)
(* order of a list of free blocks is left out: malloc takes any of them.   *)
(* Pages come from a first fit (module Pages has how), or there are none.  *)
(***************************************************************************)
EXTENDS Integers, FiniteSets

CONSTANTS
  Kernel,      \* the kernel's address space: k_block_descs
  Proc,        \* the processes': u_block_desc
  MaxPage,     \* pages of an address space are 0..MaxPage - 1
  DescCnt,     \* DESC_CNT, 7 in the code
  MinBlock,    \* the smallest block_size, 16 in the code
  PgSize,      \* PG_SIZE
  ArenaSize,   \* sizeof(struct arena), 12 in the code
  Sizes,       \* bytes that callers ask for
  KernelSizes, \* those the kernel asks for
  SegPages,    \* the pages execv loads programs to
  MaxLive      \* bound on the blocks in use in an address space

Space == Proc \cup {Kernel}
Page == 0..(MaxPage - 1)
Desc == 1..DescCnt
Large == 0                 \* desc = NULL and large = true

block_size[d \in Desc] == IF d = 1 THEN MinBlock ELSE 2 * block_size[d - 1]
blocks_per_arena(d) == (PgSize - ArenaSize) \div block_size[d]

ASSUME HeapAssumption ==
  /\ Kernel \notin Proc
  /\ MaxPage \in Nat /\ DescCnt \in Nat \ {0} /\ MinBlock \in Nat \ {0}
  /\ PgSize \in Nat /\ ArenaSize \in Nat
  /\ Sizes \subseteq Nat \ {0} /\ KernelSizes \subseteq Sizes
  /\ \A s \in SegPages : s \subseteq 0..(MaxPage - 1)
  /\ \A d \in Desc : blocks_per_arena(d) \in Nat \ {0}

VARIABLES
  pages,     \* in each space, the pages in use
  arena,     \* the header of the arena at each page: its desc, and whose desc
             \* that is, and cnt; of = None if there is no arena
  free_list, \* of each desc of each space: the free blocks
  live,      \* in each space the blocks in use, with the bytes asked for
  born,      \* the processes there are
  kernel     \* "up", "panic" (ASSERT), or "torn": lists or bitmaps were
             \* changed that belong to another, and the model ends

heapVars == <<pages, arena, free_list, live, born, kernel>>

None == "none"
NoArena == [of |-> None, desc |-> Large, cnt |-> 0]

\* block_desc_init of every space
HeapInit ==
  /\ pages = [s \in Space |-> {}]
  /\ arena = [s \in Space |-> [g \in Page |-> NoArena]]
  /\ free_list = [s \in Space |-> [d \in Desc |-> {}]]
  /\ live = [s \in Space |-> {}]
  /\ \E p \in Proc : born = {Kernel, p}
  /\ kernel = "up"

Least(S) == CHOOSE x \in S : \A y \in S : x <= y

\* malloc_page: the first run of n pages that are free, if there is one
FreeRuns(s, n) == {g \in 0..(MaxPage - n) : g..(g + n - 1) \cap pages[s] = {}}

\* arena2block of every block of an arena
BlocksOf(g, d) == {<<g, i>> : i \in 0..(blocks_per_arena(d) - 1)}
block2arena(b) == b[1]

\* The desc for n bytes, Large if they are more than the largest block
DescFor(n) == IF n > block_size[DescCnt] THEN Large
              ELSE Least({d \in Desc : n <= block_size[d]})

\* Mutant: the header is forgotten.
PagesNoHeader(n) == (n + PgSize - 1) \div PgSize

PagesFor(n) == (n + ArenaSize + PgSize - 1) \div PgSize
-----------------------------------------------------------------------------
Up(s) == kernel = "up" /\ s \in born
MayMalloc(s) == Up(s) /\ Cardinality(live[s]) < MaxLive[s]
Tears == kernel' = "torn" /\ UNCHANGED <<pages, arena, free_list, live, born>>

\* sys_malloc of more than the largest block
malloc_large(s, n) ==
  /\ MayMalloc(s) /\ DescFor(n) = Large
  /\ LET runs == FreeRuns(s, PagesFor(n))
         g == Least(runs) IN
     IF runs = {} THEN UNCHANGED <<pages, arena, live>>
     ELSE /\ pages' = [pages EXCEPT ![s] = @ \cup g..(g + PagesFor(n) - 1)]
          /\ arena' = [arena EXCEPT ![s][g] = [of |-> s, desc |-> Large, cnt |-> PagesFor(n)]]
          /\ live' = [live EXCEPT ![s] = @ \cup {<<g, 0, n>>}]
  /\ UNCHANGED <<free_list, born, kernel>>

\* sys_malloc when the list of the desc is empty: a new arena, all of whose
\* blocks go to the list, and one of them is taken.
malloc_arena(s, n) ==
  /\ MayMalloc(s) /\ DescFor(n) # Large
  /\ LET d == DescFor(n)
         g == Least(FreeRuns(s, 1)) IN
     /\ free_list[s][d] = {}
     /\ IF FreeRuns(s, 1) = {} THEN UNCHANGED <<pages, arena, free_list, live>>
        ELSE \E b \in BlocksOf(g, d) :
             /\ pages' = [pages EXCEPT ![s] = @ \cup {g}]
             /\ arena' = [arena EXCEPT ![s][g] = [of |-> s, desc |-> d, cnt |-> blocks_per_arena(d) - 1]]
             /\ free_list' = [free_list EXCEPT ![s][d] = BlocksOf(g, d) \ {b}]
             /\ live' = [live EXCEPT ![s] = @ \cup {<<b[1], b[2], n>>}]
  /\ UNCHANGED <<born, kernel>>

\* Mutant: cnt is not counted down.
KeepCount(s, n) ==
  /\ MayMalloc(s) /\ DescFor(n) # Large
  /\ \E b \in free_list[s][DescFor(n)] :
       /\ free_list' = [free_list EXCEPT ![s][DescFor(n)] = @ \ {b}]
       /\ live' = [live EXCEPT ![s] = @ \cup {<<b[1], b[2], n>>}]
  /\ UNCHANGED <<arena, pages, born, kernel>>

\* sys_malloc from the list
malloc_block(s, n) ==
  /\ MayMalloc(s) /\ DescFor(n) # Large
  /\ \E b \in free_list[s][DescFor(n)] :
       /\ free_list' = [free_list EXCEPT ![s][DescFor(n)] = @ \ {b}]
       /\ arena' = [arena EXCEPT ![s][block2arena(b)].cnt = @ - 1]
       /\ live' = [live EXCEPT ![s] = @ \cup {<<b[1], b[2], n>>}]
  /\ UNCHANGED <<pages, born, kernel>>

\* sys_free of a large block
free_large(s, x) ==
  /\ Up(s) /\ x \in live[s] /\ arena[s][x[1]].desc = Large
  /\ pages' = [pages EXCEPT ![s] = @ \ x[1]..(x[1] + arena[s][x[1]].cnt - 1)]
  /\ arena' = [arena EXCEPT ![s][x[1]] = NoArena]
  /\ live' = [live EXCEPT ![s] = @ \ {x}]
  /\ UNCHANGED <<free_list, born, kernel>>

\* sys_free of a block of an arena.  The list is the one a->desc is in.  If
\* the arena was copied by fork it is that of the parent, and the code links
\* nodes of one address space into a list whose nodes are in another: the
\* model ends.  When all blocks of the arena are free it goes, and its page is
\* given back to the space PF: that of the kernel if pgdir is NULL, that of
\* the process else.
free_block(s, x, PF) ==
  /\ Up(s) /\ x \in live[s] /\ arena[s][x[1]].desc # Large
  /\ LET g == x[1]
         a == arena[s][g]
         list == free_list[s][a.desc] \cup {<<x[1], x[2]>>} IN
     IF a.of # s THEN Tears
     ELSE IF a.cnt + 1 # blocks_per_arena(a.desc)
     THEN /\ free_list' = [free_list EXCEPT ![s][a.desc] = list]
          /\ arena' = [arena EXCEPT ![s][g].cnt = @ + 1]
          /\ live' = [live EXCEPT ![s] = @ \ {x}]
          /\ UNCHANGED <<pages, born, kernel>>
     ELSE IF ~(BlocksOf(g, a.desc) \subseteq list)
     THEN kernel' = "panic" /\ UNCHANGED <<pages, arena, free_list, live, born>>
     ELSE IF PF # s THEN Tears
     ELSE /\ free_list' = [free_list EXCEPT ![s][a.desc] = list \ BlocksOf(g, a.desc)]
          /\ arena' = [arena EXCEPT ![s][g] = NoArena]
          /\ pages' = [pages EXCEPT ![s] = @ \ {g}]
          /\ live' = [live EXCEPT ![s] = @ \ {x}]
          /\ UNCHANGED <<born, kernel>>

\* sys_fork: the child has a copy of the memory, arenas included, and empty
\* lists (block_desc_init in copy_pcb_vaddrbitmap_stack0).
fork(p, c) ==
  /\ Up(p) /\ p # Kernel /\ c \notin born
  /\ born' = born \cup {c}
  /\ pages' = [pages EXCEPT ![c] = pages[p]]
  /\ arena' = [arena EXCEPT ![c] = arena[p]]
  /\ live' = [live EXCEPT ![c] = live[p]]
  /\ UNCHANGED <<free_list, kernel>>

\* sys_execv: the program is loaded over what is there, and the lists stay.
\* If it covers an arena with free blocks, the list leads into the program.
execv(p, S) ==
  /\ Up(p) /\ p # Kernel
  /\ IF \E d \in Desc : \E b \in free_list[p][d] : block2arena(b) \in S
     THEN Tears
     ELSE /\ pages' = [pages EXCEPT ![p] = @ \cup S]
          /\ arena' = [arena EXCEPT ![p] = [g \in Page |-> IF g \in S THEN NoArena ELSE @[g]]]
          /\ live' = [live EXCEPT ![p] = {}]
          /\ UNCHANGED <<free_list, born, kernel>>

\* painc_spin, and the end of the model
Halted == kernel # "up" /\ UNCHANGED heapVars

HeapNext ==
  \/ \E s \in Space :
       \/ \E n \in IF s = Kernel THEN KernelSizes ELSE Sizes :
            malloc_large(s, n) \/ malloc_arena(s, n) \/ malloc_block(s, n)
       \/ \E x \in live[s] : free_large(s, x) \/ free_block(s, x, s)
  \/ \E p \in born \ {Kernel} :
       \* the rollback of file_create frees an inode of the kernel with the
       \* pgdir of the process
       \/ \E x \in live[Kernel] : free_block(Kernel, x, p)
       \/ \E c \in Proc : fork(p, c)
       \/ \E S \in SegPages : execv(p, S)
  \/ Halted

HeapSpec == HeapInit /\ [][HeapNext]_heapVars
-----------------------------------------------------------------------------
HeapTypeOK ==
  /\ pages \in [Space -> SUBSET Page]
  /\ arena \in [Space -> [Page -> [of : Space \cup {None}, desc : Desc \cup {Large}, cnt : Nat]]]
  /\ free_list \in [Space -> [Desc -> SUBSET (Page \X Nat)]]
  /\ live \in [Space -> SUBSET (Page \X Nat \X Sizes)]
  /\ born \subseteq Space
  /\ kernel \in {"up", "panic", "torn"}

InUse(s) == {<<x[1], x[2]>> : x \in live[s]}

\* The lists and the counters of a heap agree with its arenas: a block in a
\* list is in an arena of that desc and not in use, cnt is the number of
\* blocks of the arena in the list, no arena is kept that is all free, and so
\* the ASSERT of sys_free does not fail.
ListsExact ==
  /\ kernel # "panic"
  /\ \A s \in Space : \A d \in Desc : \A b \in free_list[s][d] :
       /\ arena[s][b[1]].of = s /\ arena[s][b[1]].desc = d
       /\ b \in BlocksOf(b[1], d) /\ b \notin InUse(s)
  /\ \A s \in Space : \A g \in Page :
       LET a == arena[s][g] IN
       (a.of = s /\ a.desc # Large) =>
         /\ g \in pages[s]
         /\ a.cnt = Cardinality({b \in free_list[s][a.desc] : b[1] = g})
         /\ a.cnt < blocks_per_arena(a.desc)

\* A block in use is as large as was asked for, and inside its arena, after
\* the header, on pages of the space that no other arena has.
BlocksFit ==
  \A s \in Space : \A x \in live[s] :
    LET g == x[1]
        a == arena[s][g]
        n == IF a.desc = Large THEN a.cnt ELSE 1
        end == IF a.desc = Large THEN x[3] ELSE (x[2] + 1) * block_size[a.desc] IN
    /\ a.of # None
    /\ a.desc # Large => x[3] <= block_size[a.desc]
    /\ ArenaSize + end <= n * PgSize
    /\ g..(g + n - 1) \subseteq pages[s]
    /\ \A h \in (g + 1)..(g + n - 1) : arena[s][h].of = None

\* What malloc and free know of a heap is right, as long as nothing but its
\* own space has changed it: its lists, its counters, and where its blocks
\* end.
HeapExact == HeapTypeOK /\ ListsExact /\ BlocksFit

Addr(s, x) ==
  x[1] * PgSize + ArenaSize + (IF arena[s][x[1]].desc = Large THEN 0 ELSE x[2] * block_size[arena[s][x[1]].desc])

A == INSTANCE Allocator WITH
       Memory <- MaxPage * PgSize,
       held <- [s \in Space |-> {<<Addr(s, x), Addr(s, x) + x[3]>> : x \in live[s]}]

\* doc/0x41: malloc and free, byte for byte.  No byte is in two blocks of one
\* address space, for the kernel and for processes that fork and load
\* programs, up to the first step that changes the lists of another space.
\* There the model ends (see free_block): nothing is said of a child that
\* frees a block it inherited, after which its parent may be given a block
\* that is in use.
ImplementsAllocator == A!AllocSpec
=============================================================================
