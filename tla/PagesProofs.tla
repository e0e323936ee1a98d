----------------------------- MODULE PagesProofs -----------------------------
(***************************************************************************)
(* Proofs about module Pages, for pools, address spaces and numbers of     *)
(* processes of any size.                                                  *)
(***************************************************************************)
EXTENDS PagesMaking, PagesUsing, FiniteSetTheorems

\* Every leaf has half a minute.
USE SMTT(30)

\* A set of naturals that is not empty has a least element.
LEMMA WellOrdered == Leasts
<1> SUFFICES ASSUME NEW S \in SUBSET Nat, S # {}
             PROVE  Least(S) \in S /\ \A y \in S : Least(S) <= y
  BY DEF Leasts
<1> DEFINE Below(x) == {y \in S : y < x}
           T == {Below(x) : x \in S}
<1>1. T \subseteq FiniteSubsetsOf(Nat)
  <2> SUFFICES ASSUME NEW x \in S PROVE Below(x) \in FiniteSubsetsOf(Nat)
    OBVIOUS
  <2>1. x \in Nat /\ \A y \in S : y \in Nat
    OBVIOUS
  <2>2. \A y \in Below(x) : y \in Nat /\ y <= x
    BY <2>1
  <2> QED BY <2>1, <2>2, FS_BoundedSetOfNaturals, Zenon DEF FiniteSubsetsOf
<1>2. T # {}
  BY Zenon
<1> HIDE DEF T
<1>3. PICK B \in T : \A C \in T : ~(<<C, B>> \in StrictSubsetOrdering(Nat))
  BY <1>1, <1>2, WFMin, FS_StrictSubsetOrderingWellFounded
<1>4. PICK x \in S : B = Below(x)
  BY DEF T
<1>5. ASSUME NEW y \in S PROVE x <= y
  <2> SUFFICES ASSUME y < x PROVE FALSE
    OBVIOUS
  <2>1. Below(y) \in T
    BY DEF T
  <2>2. x \in Nat /\ \A z \in S : z \in Nat
    OBVIOUS
  <2>3. ASSUME NEW z \in Below(y) PROVE z \in Below(x)
    BY <2>2
  <2>4. y \in Below(x) /\ y \notin Below(y)
    BY <2>2
  <2>5. QED BY <2>1, <2>3, <2>4, <1>3, <1>4, Zenon DEF StrictSubsetOrdering
<1> QED BY <1>5, Zenon DEF Least

\* The frames of a process that ends go back, the last page of its bitmap does
\* not.
LEMMA release_prog_resourceInv ==
  ASSUME PagesInv, NEW p \in Proc, release_prog_resource(p) PROVE PagesInv'
<1> USE NullNoProc DEF PagesInv
<1>1. call = Idle /\ kernel = "up" /\ status[p] = "live" /\ p \notin waits /\ call.at = "idle"
  BY Zenon DEF release_prog_resource, AtUser, Idle
<1>2. own[p].bits \subseteq KPage /\ own[p].bits # {}
  BY <1>1 DEF RestTypes, ProcTypes, Owned, MarkInv, MadeInv
<1>3. PICK last \in own[p].bits : last = CHOOSE v \in own[p].bits : \A w \in own[p].bits : w <= v
  BY <1>2, Sizes, HasGreatest DEF KPage
<1>4. /\ user_pool' = user_pool \ Frames(p)
      /\ mfree_kernel(own[p].bits \ {last}, Tables(p))
      /\ own' = [own EXCEPT ![p].bits = {last}]
  BY <1>3, Zenon DEF release_prog_resource
<1>5. /\ pt' = [pt EXCEPT ![p] = [v \in VPage |-> Null]]
      /\ pde' = [pde EXCEPT ![p] = [d \in Pde |-> Null]]
      /\ status' = [status EXCEPT ![p] = "zombie"]
      /\ blocks' = [blocks EXCEPT ![p] = {}]
  BY Zenon DEF release_prog_resource
<1>6. UNCHANGED <<vaddr, idle, heap, lock, waits, call, short, kernel>>
  BY Zenon DEF release_prog_resource
<1>7. KernelMem'
  BY <1>2, <1>4, <1>5, TablesFreed, Zenon
<1>8. UserMem'
  <2>1. \A f : f \in user_pool' <=> f \in user_pool /\ ~\E v \in VPage : f = pt[p][v]
    BY Palloc, <1>4 DEF Frames, UserMem, UserTypes
  <2>2. [v \in VPage |-> Null] = [v \in VPage |-> IF v \in VPage THEN Null ELSE pt[p][v]]
    OBVIOUS
  <2> QED BY <1>6, <1>5, <2>1, <2>2, UserPagesFreed, Zenon DEF UserMem, UserTypes
<1>9. Changed(p, own[p].pcb, own[p].buf, {last}, own[p].dir)
  BY <1>2, <1>4, OwnChanges, Zenon DEF RestTypes, ProcTypes
<1>10. own' \in [Proc -> Owned] /\ \A q \in Proc : q # p => own'[q].bits = own[q].bits
  BY <1>9 DEF Changed
<1>11. call' \in Calls /\ CallInv' /\ TodoInv' /\ BootInv'
  BY <1>1, <1>6, IdleCall, Zenon
<1>12. RestTypes'
  BY <1>5, <1>10, <1>6, <1>11, UseTypesSame, Zenon DEF RestTypes, ProcTypes
<1>13. /\ status'[p] = "zombie" /\ blocks'[p] = {}
       /\ \A q \in Proc : q # p => status'[q] = status[q] /\ blocks'[q] = blocks[q] /\ pt'[q] = pt[q]
  BY <1>5 DEF RestTypes, ProcTypes, UserMem, UserTypes
<1>14. MarkInv'
  <2>1. MadeInv'
    BY <1>1, <1>6, <1>10, <1>13 DEF MarkInv, MadeInv, Fresh
  <2>2. StackInv' /\ FullInv'
    BY <1>6, <1>13 DEF MarkInv, StackInv, FullInv
  <2> QED BY <1>6, <1>13, <2>1, <2>2 DEF MarkInv, BlocksInv
<1>15. StopsExplained'
  BY <1>1, <1>6, StopsSame, Zenon
<1> QED BY <1>7, <1>8, <1>11, <1>12, <1>14, <1>15, Zenon DEF Leasts

\* The page directory and the pcb go back.
LEMMA thread_exitInv == ASSUME PagesInv, NEW c \in Proc, thread_exit(c) PROVE PagesInv'
<1> USE NullNoProc DEF PagesInv
<1>1. kernel = "up" /\ call = Idle /\ status[c] = "zombie" /\ call.at = "idle"
  BY DEF thread_exit, Idle
<1>2. /\ mfree_kernel(own[c].dir \cup own[c].pcb, {})
      /\ own' = [own EXCEPT ![c].dir = {}, ![c].pcb = {}]
      /\ status' = [status EXCEPT ![c] = "gone"]
  BY DEF thread_exit
<1>3. /\ UNCHANGED <<user_pool, vaddr, pt, pde>>
      /\ UNCHANGED <<idle, heap, blocks, lock, waits, call, short, kernel>>
  BY DEF thread_exit, umem
<1>4. own[c] \in Owned /\ own[c].dir \cup own[c].pcb \subseteq KPage
  BY DEF RestTypes, ProcTypes, Owned
<1>5. KernelMem' /\ UserMem'
  BY <1>2, <1>3, <1>4, KernelPagesFreed, UserMemSame
<1>6. own' \in [Proc -> Owned] /\ \A q \in Proc : own'[q].bits = own[q].bits
  BY <1>2, <1>4, Zenon DEF RestTypes, ProcTypes, Owned
<1>7. call' \in Calls /\ CallInv' /\ TodoInv' /\ BootInv'
  BY <1>1, <1>3, IdleCall, Zenon
<1>8. RestTypes'
  BY <1>2, <1>3, <1>6, <1>7, UseTypesSame, Zenon DEF RestTypes, ProcTypes
<1>9. status'[c] = "gone" /\ \A q \in Proc : q # c => status'[q] = status[q]
  BY <1>2, Zenon DEF RestTypes, ProcTypes
<1>10. MarkInv'
  BY <1>1, <1>3, <1>6, <1>9, MarkInvKept
<1>11. StopsExplained'
  BY <1>1, <1>3, StopsSame, Zenon
<1> QED BY <1>5, <1>7, <1>8, <1>10, <1>11, Zenon DEF Leasts

\* The heap of the kernel takes a page or gives one back.
LEMMA HeapInv ==
  ASSUME PagesInv, KernelMem', heap' \subseteq KPage, kernel = "up", call = Idle,
         UNCHANGED <<umem, status, own, idle, blocks, lock, waits, call, short, kernel>>
  PROVE  PagesInv'
<1> USE NullNoProc DEF PagesInv
<1>1. /\ call' = Idle /\ call.at = "idle"
      /\ UNCHANGED <<user_pool, vaddr, pt, pde, status, own, idle, blocks, lock, waits, call, short, kernel>>
  BY DEF umem, Idle
<1>2. RestTypes'
  BY <1>1, IdleCall, Zenon DEF RestTypes, ProcTypes, UseTypes
<1>3. MarkInv'
  BY <1>1, MarkInvKept DEF RestTypes, ProcTypes
<1>4. UserMem' /\ StopsExplained'
  BY <1>1, UserMemSame, StopsSame, Zenon
<1> QED BY <1>1, <1>2, <1>3, <1>4, IdleCall, Zenon DEF Leasts

\* An arena of the kernel
LEMMA kernel_mallocInv == ASSUME PagesInv, kernel_malloc PROVE PagesInv'
<1> QED BY GetKernelPage, HeapInv DEF PagesInv, RestTypes, UseTypes, HasKPage, umem, kernel_malloc

\* and its end
LEMMA kernel_freeInv == ASSUME PagesInv, NEW v \in KPage, kernel_free(v) PROVE PagesInv'
<1> QED BY KernelPagesFreed, HeapInv, Zenon DEF PagesInv, RestTypes, UseTypes, umem, kernel_free

\* Before boot nothing is in use.
LEMMA PagesInvInit == PagesInit => PagesInv
<1> SUFFICES ASSUME PagesInit PROVE PagesInv
  OBVIOUS
<1> USE NullNoProc, Sizes DEF PagesInit
<1>1. KernelMem
  BY DEF KernelMem, KernelTypes, KernelFrames
<1>2. UserMem
  BY DEF UserMem, UserTypes, UserFrames
<1>3. RestTypes
  BY Zenon DEF ProcTypes, Owned, NoPages, UseTypes, Calls, Idle, RestTypes
<1>4. MarkInv
  BY DEF MarkInv, MadeInv, StackInv, FullInv, BlocksInv, Fresh, Idle
<1>5. call.at = "pcb" /\ call.p = Null /\ call.c = 1
  BY DEF Idle
<1>6. CallInv
  BY <1>5 DEF CallInv, Fresh
<1>7. TodoInv /\ BootInv
  BY <1>5, Zenon DEF BootInv, TodoInv, MapTodo, CopyTodo, LoadTodo, MallocTodo
<1>8. Leasts /\ StopsExplained
  BY WellOrdered, Zenon DEF StopsExplained
<1> QED BY <1>1, <1>2, <1>3, <1>4, <1>6, <1>7, <1>8, Zenon DEF PagesInv

\* Every step keeps the invariant.
LEMMA PagesInvNext == ASSUME PagesInv, [PagesNext]_pagesVars PROVE PagesInv'
<1>1. ASSUME NEW p \in Proc,
             \/ sys_fork(p) \/ start_process(p) \/ release_prog_resource(p) \/ thread_exit(p)
             \/ \E s \in Segments : sys_execv(p, s)
             \/ \E n \in MallocPages : sys_malloc(p, n)
             \/ \E b \in blocks[p] : sys_free(p, b)
      PROVE  PagesInv'
  BY <1>1, sys_forkInv, start_processInv, release_prog_resourceInv, thread_exitInv, sys_execvInv,
     sys_mallocInv, sys_freeInv, Zenon
<1>2. CASE \/ process_execute \/ copy_process \/ bitmap_pages \/ bitmap_frame \/ create_page_dir
           \/ thread_start \/ copy_body_stack3 \/ fork_ends
  BY <1>2, process_executeInv, copy_processInv, bitmap_pagesInv, bitmap_frameInv, create_page_dirInv,
     thread_startInv, copy_body_stack3Inv, fork_endsInv, Zenon
<1>3. CASE \/ get_a_page \/ load_ends \/ malloc_page \/ malloc_ends \/ kernel_malloc
           \/ \E v \in KPage : kernel_free(v)
  BY <1>3, get_a_pageInv, load_endsInv, malloc_pageInv, malloc_endsInv, kernel_mallocInv, kernel_freeInv, Zenon
<1>4. CASE Halted \/ UNCHANGED pagesVars
  BY <1>4, StutterInv, Zenon DEF Halted
<1> QED BY <1>1, <1>2, <1>3, <1>4, Zenon DEF PagesNext

\* Everything the invariant says holds in every state: which frames are in
\* use and by whom, what a call that is under way has still to do, and how
\* bitmap, page table and blocks of a process fit together.
THEOREM PagesInvariant == PagesSpec => []PagesInv
<1>1. PagesInit => PagesInv
  BY PagesInvInit
<1>2. PagesInv /\ [PagesNext]_pagesVars => PagesInv'
  BY PagesInvNext
<1> QED BY <1>1, <1>2, PTL DEF PagesSpec

\* For pools, address spaces and numbers of processes of any size, every frame
\* has one user or is free in its pool (palloc, pfree, page_table_add,
\* free_a_phy_page), after forks, loads and allocations that succeed or stop
\* half way.
THEOREM FramesExactSafe == PagesSpec => []FramesExact
<1>1. PagesInv => FramesExact
  <2> SUFFICES ASSUME PagesInv PROVE FramesExact
    OBVIOUS
  <2> USE DEF PagesInv
  <2>1. PagesTypeOK
    <3>1. vaddr \in [Proc -> SUBSET (0..VPages)]
      BY Sizes DEF VPage, UserMem, UserTypes
    <3> QED BY <3>1, Zenon DEF PagesTypeOK, KernelMem, KernelTypes, UserMem, UserTypes, RestTypes,
                        ProcTypes, UseTypes, Calls, Owned
  <2>2. PoolsExact
    BY Palloc DEF KernelMem, KernelTypes, UserMem, UserTypes, UserFrames, Frames, KernelFrames,
       Tables, PoolsExact
  <2>3. OneOwner
    BY DEF OneOwner, KernelMem, KernelFrames, UserMem, UserFrames
  <2> QED BY <2>1, <2>2, <2>3, Zenon DEF FramesExact
<1> QED BY <1>1, PagesInvariant, PTL

\* The bitmap of a process agrees with its page table, the blocks malloc
\* returned are mapped, and so is every byte of a segment when it is read, for
\* every segment that lies in the address space (segment_load's count of pages
\* is never short).
THEOREM MarkedIsMappedSafe == PagesSpec => []MarkedIsMapped
<1>1. PagesInv => MarkedIsMapped
  <2> SUFFICES ASSUME PagesInv, NEW p \in Proc, status[p] = "live"
               PROVE  /\ Mapped(p) \subseteq vaddr[p]
                      /\ p \in short \/ InPages(p) \/ vaddr[p] \subseteq Mapped(p)
                      /\ \A b \in blocks[p] : Run(b) \subseteq Mapped(p)
                      /\ (InCall("load") /\ call.p = p /\ call.todo = {}) =>
                           \A s \in call.got : \A b \in Run(s) : PageOf(b) \in Mapped(p)
    BY DEF MarkedIsMapped, Mapped, Run, PageOf
  <2> USE DEF PagesInv
  <2>1. ASSUME InCall("load"), call.p = p, call.todo = {}, NEW s \in call.got, NEW b \in Run(s)
        PROVE  PageOf(b) \in Mapped(p)
    BY <2>1 DEF InCall, Mapped, TodoInv, LoadTodo
  <2> QED BY <2>1 DEF Mapped, MarkInv, BlocksInv, UserMem, UserTypes, FullInv, InPages, UserFrames
<1> QED BY <1>1, PagesInvariant, PTL

\* The kernel stops only for want of memory or to load page 0, and a process
\* waits for the lock of the user pool only if get_a_page has kept it.
THEOREM StopsExplainedSafe == PagesSpec => []StopsExplained
<1>1. PagesInv => StopsExplained
  BY DEF PagesInv
<1> QED BY <1>1, PagesInvariant, PTL
=============================================================================
