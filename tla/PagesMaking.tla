----------------------------- MODULE PagesMaking -----------------------------
(***************************************************************************)
(* Making a process, by process_execute and by sys_fork: the pages of its  *)
(* bitmap and directory, the idle thread and the copies of a fork keep the *)
(* invariant of PagesLemmas.                                               *)
(***************************************************************************)
EXTENDS PagesLemmas

\* Every leaf has half a minute.
USE SMTT(30)

\* The addresses of a bitmap: a run that is free.
LEMMA bitmap_pagesInv == ASSUME PagesInv, bitmap_pages PROVE PagesInv'
<1> USE NullNoProc DEF PagesInv
<1> DEFINE r == FirstRun(kernel_vaddr, KBytes, MapPages)
           run == r..(r + MapPages - 1)
<1>1. call.at = "bits" /\ kernel = "up" /\ UNCHANGED <<kernel_pool, kpt, pde>>
  BY DEF bitmap_pages, InCall, umem
<1>2. UNCHANGED <<user_pool, vaddr, pt>> /\ UNCHANGED <<idle, heap, blocks, lock, waits, short, kernel>>
  BY DEF bitmap_pages, umem
<1>3. call.c \in Proc /\ status[call.c] = "making"
  BY <1>1, Zenon DEF CallInv, RestTypes, Calls
<1>4. UserMem'
  BY <1>2, UserMemSame
<1>5. CASE r # -1
  <2>1. /\ kernel_vaddr' = kernel_vaddr \cup run
        /\ own' = [own EXCEPT ![call.c].bits = run]
        /\ call' = [[call EXCEPT !.at = "map"] EXCEPT !.todo = run]
        /\ status' = status
    BY <1>5 DEF bitmap_pages, bitmap_set, Child
  <2>2. r \in Nat /\ r + MapPages <= KPages + 1 /\ \A b \in run : b \notin kernel_vaddr
    BY PagesAssumption, <1>5, RunIsFree, Zenon DEF KPages
  <2>3. kernel_vaddr \subseteq {0} => r <= 1
    BY PagesAssumption, Sizes, RunIsFirst DEF KPages
  <2> HIDE DEF r
  <2>4. run \subseteq KPage /\ r \in run /\ run \subseteq Nat
    BY <2>2, Sizes DEF KPage
  <2>5. kernel_vaddr \subseteq {0} => kernel_vaddr' \subseteq 0..MapPages
    BY <2>1, <2>2, <2>3, Sizes
  <2> HIDE DEF run
  <2>6. Changed(call.c, own[call.c].pcb, own[call.c].buf, run, own[call.c].dir)
    BY <1>3, <2>1, <2>4, OwnChanges, Zenon DEF RestTypes, ProcTypes
  <2>7. /\ own' \in [Proc -> Owned] /\ own'[call.c].bits # {}
        /\ \A q \in Proc : q # call.c => own'[q].bits = own[q].bits
    BY <1>3, <2>4, <2>6, Zenon DEF Changed
  <2>8. call' \in Calls /\ call'.at = "map" /\ call'.p = call.p /\ call'.c = call.c /\ call'.todo = run
    BY <2>1, <2>4, Zenon DEF RestTypes, Calls
  <2>9. RestTypes'
    BY <1>2, <2>1, <2>7, <2>8, UseTypesSame, Zenon DEF RestTypes, ProcTypes
  <2>10. KernelMem'
    BY <1>1, <2>1, <2>4 DEF KernelMem, KernelTypes, KernelFrames
  <2>11. CallInv'
    <3>1. Fresh(call.c) /\ status'[call.c] = "making" /\ UNCHANGED <<pt, waits>>
      BY <1>1, <1>2, <1>3, <2>1, Zenon DEF CallInv
    <3> QED BY <1>1, <2>1, <2>7, <2>8, <3>1 DEF CallInv, Fresh
  <2>12. TodoInv'
    <3>1. kpt' = kpt /\ \A v \in run : kpt[v] = Null
      BY <1>1, <2>2, <2>4 DEF KernelMem, KernelFrames
    <3>2. MapTodo'
      BY <2>1, <2>4, <2>8, <3>1 DEF MapTodo
    <3> QED BY <2>8, <3>2, OnlyTodo, Zenon
  <2>13. MarkInv'
    BY <1>1, <1>2, <1>3, <2>1, <2>7, <2>8, MarkInvKept, Zenon
  <2>14. BootInv'
    BY <1>1, <2>5, <2>8 DEF BootInv
  <2>15. StopsExplained'
    BY <1>1, <1>2, StopsSame
  <2> QED BY <1>4, <2>9, <2>10, <2>11, <2>12, <2>13, <2>14, <2>15 DEF Leasts
<1>6. CASE r = -1
  BY <1>6, <1>1, KernelMemSame, <1>2, <1>4, ForkFailsInv, Zenon DEF bitmap_pages
<1> QED BY <1>5, <1>6

\* The frames of a bitmap, and the copy of the bitmap of the parent.
LEMMA bitmap_frameInv == ASSUME PagesInv, bitmap_frame PROVE PagesInv'
<1> USE NullNoProc DEF PagesInv
<1>1. call.at = "map" /\ kernel = "up" /\ UNCHANGED <<kernel_vaddr, pde>>
  BY DEF bitmap_frame, InCall
<1>2. UNCHANGED <<user_pool, pt>> /\ UNCHANGED <<own, idle, heap, blocks, lock, waits, short, kernel>>
  BY DEF bitmap_frame
<1>3. /\ call.c \in Proc /\ status[call.c] = "making" /\ Fresh(call.c) /\ own[call.c].bits # {}
      /\ call.p # Null => /\ call.p \in Proc /\ call.p # call.c
                         /\ status[call.p] = "live" /\ call.p \notin waits
  BY <1>1, Zenon DEF CallInv, RestTypes, Calls
<1>4. CASE KFree # {}
  <2>1. PICK v \in call.todo : v = Least(call.todo)
    BY <1>1, HasLeast, Zenon DEF RestTypes, Calls, TodoInv, MapTodo
  <2>2. v \in KPage /\ kpt[v] = Null /\ v \in kernel_vaddr
    BY <1>1 DEF TodoInv, MapTodo
  <2>3. /\ kernel_pool' = kernel_pool \cup {palloc(KFree)}
        /\ kpt' = [kpt EXCEPT ![v] = palloc(KFree)]
        /\ status' = status
    BY <1>4, <2>1 DEF bitmap_frame
  <2>4. KernelMem' /\ \A w \in KPage : w # v => kpt'[w] = kpt[w]
    BY <1>1, <2>2, <2>3, <1>4, KernelPageAdded, Zenon DEF KernelMem, KernelTypes
  <2>5. StopsExplained' /\ UNCHANGED <<pt, status, own, waits>>
    BY <1>1, <1>2, <2>3, StopsSame
  <2>6. CASE call.todo = {v}
    <3>1. /\ call' = [[call EXCEPT !.at = "dir"] EXCEPT !.todo = {}]
          /\ vaddr' = [vaddr EXCEPT ![call.c] = IF call.p = Null THEN {} ELSE vaddr[call.p]]
      BY <1>4, <2>1, <2>6, Zenon DEF bitmap_frame, Child
    <3>2. call' \in Calls /\ call'.at = "dir" /\ call'.p = call.p /\ call'.c = call.c
      BY <3>1, Zenon DEF RestTypes, Calls
    <3>3. /\ vaddr' \in [Proc -> SUBSET VPage] /\ \A q \in Proc : q # call.c => vaddr'[q] = vaddr[q]
          /\ vaddr'[call.c] = IF call.p = Null THEN {} ELSE vaddr[call.p]
      BY <1>3, <3>1, Zenon DEF UserMem, UserTypes
    <3>4. UserMem'
      BY <1>2, <3>3, <1>3 DEF UserMem, UserTypes, UserFrames, Fresh
    <3>5. RestTypes'
      BY <1>2, <2>3, <3>2, UseTypesSame, Zenon DEF RestTypes, ProcTypes
    <3>6. CallInv'
      BY <1>3, <2>5, <3>2, Zenon DEF CallInv, Fresh
    <3>7. TodoInv'
      BY <1>3, <3>2, <3>3, OnlyTodo, Zenon DEF CopyTodo
    <3>8. MarkInv'
      BY <1>1, <1>2, <1>3, <2>3, <3>2, <3>3, MarkInvKept, Zenon
    <3>9. BootInv'
      BY <1>1, <3>2 DEF BootInv
    <3> QED BY <2>4, <2>5, <3>4, <3>5, <3>6, <3>7, <3>8, <3>9 DEF Leasts
  <2>7. CASE call.todo # {v}
    <3>1. call' = [call EXCEPT !.todo = call.todo \ {v}] /\ vaddr' = vaddr
      BY <1>4, <2>1, <2>7, Zenon DEF bitmap_frame
    <3>2. /\ call' \in Calls /\ call'.at = "map" /\ call'.p = call.p /\ call'.c = call.c
          /\ call'.todo = call.todo \ {v}
      BY <1>1, <3>1, Zenon DEF RestTypes, Calls
    <3>3. UserMem'
      BY <1>2, <3>1, UserMemSame
    <3>4. RestTypes'
      BY <1>2, <2>3, <3>2, UseTypesSame, Zenon DEF RestTypes, ProcTypes
    <3>5. CallInv'
      BY <1>3, <2>5, <3>2, Zenon DEF CallInv, Fresh
    <3>6. TodoInv'
      BY <1>1, <2>4, <2>7, <3>2, OnlyTodo, Zenon DEF TodoInv, MapTodo
    <3>7. MarkInv'
      BY <1>1, <1>2, <2>3, <3>1, <3>2, MarkInvKept
    <3>8. BootInv'
      BY <1>1, <3>2 DEF BootInv
    <3> QED BY <2>4, <2>5, <3>3, <3>4, <3>5, <3>6, <3>7, <3>8 DEF Leasts
  <2> QED BY <2>6, <2>7
<1>5. CASE KFree = {}
  BY <1>5, <1>1, <1>2, KernelMemSame, UserMemSame, ForkFailsInv, Zenon DEF bitmap_frame
<1> QED BY <1>4, <1>5

-----------------------------------------------------------------------------
\* The page directory, where the first process is made and a fork begins to
\* copy.
LEMMA create_page_dirInv == ASSUME PagesInv, create_page_dir PROVE PagesInv'
<1> USE NullNoProc DEF PagesInv
<1>1. call.at = "dir" /\ kernel = "up" /\ get_kernel_page
  BY Zenon DEF create_page_dir, InCall
<1>2. /\ UNCHANGED <<user_pool, vaddr, pt, pde>>
      /\ UNCHANGED <<idle, heap, blocks, lock, waits, short, kernel>>
  BY Zenon DEF create_page_dir, umem
<1>3. /\ call.c \in Proc /\ status[call.c] = "making" /\ Fresh(call.c) /\ own[call.c].bits # {}
      /\ call.p # Null => call.p \in Proc /\ call.p # call.c
      /\ vaddr[call.c] = IF call.p = Null THEN {} ELSE vaddr[call.p]
  BY <1>1, Zenon DEF CallInv, TodoInv, CopyTodo, RestTypes, Calls
<1>4. /\ KernelMem' /\ (HasKPage => {KFirst} \subseteq KPage)
      /\ kernel_vaddr' = kernel_vaddr \cup (IF KFirst = -1 THEN {} ELSE {KFirst})
  BY <1>1, <1>2, GetKernelPage DEF HasKPage
<1>5. UserMem'
  BY <1>2, UserMemSame
<1>6. CASE HasKPage
  <2>1. Changed(call.c, own[call.c].pcb, own[call.c].buf, own[call.c].bits, {KFirst})
    BY <1>3, <1>4, <1>6, OwnChanges, Zenon DEF RestTypes, ProcTypes, create_page_dir, Child
  <2>2. own' \in [Proc -> Owned] /\ \A q \in Proc : own'[q].bits = own[q].bits
    BY <1>3, <2>1, Zenon DEF Changed
  <2>3. StopsExplained'
    BY <1>1, <1>2, StopsSame
  <2>4. CASE call.p = Null
    <3>1. /\ status' = [status EXCEPT ![call.c] = "ready"]
          /\ call' = [call EXCEPT !.at = "idle thread"]
      BY <1>6, <2>4, Zenon DEF create_page_dir, Child
    <3>2. call' \in Calls /\ call'.at = "idle thread" /\ call'.p = Null
      BY <2>4, <3>1, Zenon DEF RestTypes, Calls
    <3>3. RestTypes'
      BY <1>2, <2>2, <3>1, <3>2, UseTypesSame, Zenon DEF RestTypes, ProcTypes
    <3>4. status'[call.c] = "ready" /\ \A q \in Proc : q # call.c => status'[q] = status[q]
      BY <1>3, <3>1, Zenon DEF RestTypes, ProcTypes
    <3>5. MarkInv'
      <4>1. MadeInv'
        BY <1>2, <1>3, <2>2, <2>4, <3>4 DEF MarkInv, MadeInv, Fresh
      <4>2. call.at \notin {"load", "malloc"} /\ call'.at \notin {"load", "malloc"}
        BY <1>1, <3>2, Zenon
      <4>4. StackInv' /\ FullInv'
        BY <1>2, <3>4, <4>2 DEF MarkInv, StackInv, FullInv
      <4>3. BlocksInv'
        BY <1>2, Zenon DEF MarkInv, BlocksInv
      <4> QED BY <4>1, <4>3, <4>4, Zenon DEF MarkInv
    <3>6. kernel_vaddr' \subseteq 0..(MapPages + 1)
      BY <1>1, <2>4, Sizes, NextPage, <1>4 DEF BootInv
    <3> QED BY <3>2, <3>6, <1>4, <1>5, <2>3, <3>3, <3>5, OnlyTodo, Zenon DEF Leasts, BootInv, CallInv
  <2>5. CASE call.p # Null
    <3>0. status' = status
      BY <1>6, <2>5 DEF create_page_dir
    <3>1. call' = [[call EXCEPT !.at = "copy"] EXCEPT !.todo = vaddr[call.p] \cap VPage]
      BY <1>6, <2>5 DEF create_page_dir
    <3>2. VPage \subseteq Nat /\ vaddr[call.p] \subseteq VPage
      BY <1>3, <2>5 DEF VPage, UserMem, UserTypes
    <3>3. /\ call' \in Calls /\ call'.at = "copy" /\ call'.p = call.p /\ call'.c = call.c
          /\ call'.todo = vaddr[call.p]
      BY <3>1, <3>2, Zenon DEF RestTypes, Calls
    <3>4. RestTypes'
      BY <1>2, <2>2, <3>0, <3>3, UseTypesSame, Zenon DEF RestTypes, ProcTypes
    <3>5. CallInv'
      <4>1. own'[call.c].bits # {} /\ status'[call.c] = "making" /\ waits' = waits
        BY <1>2, <1>3, <2>2, <3>0, Zenon
      <4>2. status'[call.p] = "live" /\ call.p \notin waits
        BY <2>5, <3>0, Zenon DEF CallInv
      <4> QED BY <1>3, <2>5, <3>3, <4>1, <4>2, Zenon DEF CallInv
    <3>6. TodoInv'
      <4>1. vaddr'[call.c] = vaddr[call.p] /\ call.p # Null
        BY <1>2, <1>3, <2>5, Zenon
      <4>2. \A w \in call'.todo : w \in vaddr'[call.c] /\ pt'[call.c][w] = Null
        BY <1>2, <1>3, <3>2, <3>3, <4>1, Zenon DEF Fresh
      <4>3. \A w \in vaddr'[call.c] : w \in call'.todo
        BY <3>3, <4>1, Zenon
      <4>4. CopyTodo'
        BY <1>2, <3>3, <4>1, <4>2, <4>3, Zenon DEF CopyTodo
      <4> QED BY <3>3, <4>4, OnlyTodo, Zenon
    <3>7. MarkInv'
      BY <1>1, <1>2, <2>2, <3>0, <3>3, MarkInvKept, Zenon
    <3>8. BootInv'
      BY <2>5, <3>3, Zenon DEF BootInv
    <3> QED BY <1>4, <1>5, <2>3, <3>4, <3>5, <3>6, <3>7, <3>8 DEF Leasts
  <2> QED BY <2>4, <2>5
<1>7. CASE ~HasKPage
  BY <1>7, <1>1, <1>2, <1>4, <1>5, ForkFailsInv, Zenon DEF create_page_dir
<1> QED BY <1>6, <1>7

\* The idle thread has its page: boot leaves room for it.
LEMMA thread_startInv == ASSUME PagesInv, thread_start PROVE PagesInv'
<1> USE NullNoProc DEF PagesInv
<1>1. /\ call.at = "idle thread" /\ kernel = "up" /\ get_kernel_page
      /\ call' = Idle /\ idle' = {KFirst}
  BY Zenon DEF thread_start, InCall
<1>2. /\ UNCHANGED <<user_pool, vaddr, pt, pde>>
      /\ UNCHANGED <<status, own, heap, blocks, lock, waits, short, kernel>>
  BY Zenon DEF thread_start, umem
<1>3. KFirst # -1
  <2>1. kernel_vaddr \subseteq 0..(MapPages + 1)
    BY <1>1, Zenon DEF BootInv
  <2> QED BY <2>1, Sizes, NextPage
<1>4. KernelMem' /\ {KFirst} \subseteq KPage
  BY <1>1, <1>2, <1>3, GetKernelPage, Zenon
<1>5. UserMem'
  BY <1>2, UserMemSame
<1>6. call' \in Calls /\ CallInv' /\ TodoInv' /\ BootInv' /\ call'.at = "idle"
  BY <1>1, IdleCall, Zenon DEF Idle
<1>7. RestTypes'
  BY <1>2, <1>1, <1>4, <1>6, Zenon DEF RestTypes, ProcTypes, UseTypes
<1>8. MarkInv'
  BY <1>1, <1>2, <1>6, MarkInvKept, Zenon
<1> QED BY <1>1, <1>2, StopsSame, <1>4, <1>5, <1>6, <1>7, <1>8, Zenon DEF Leasts

\* A page of the parent is copied.  One that has no frame means that an
\* allocation of the parent failed.
LEMMA copy_body_stack3Inv == ASSUME PagesInv, copy_body_stack3 PROVE PagesInv'
<1> USE NullNoProc DEF PagesInv
<1>0. /\ call.at = "copy" /\ kernel = "up" /\ call.todo # {} /\ call.c \in Proc /\ call.p \in Proc
      /\ status[call.c] = "making" /\ status[call.p] = "live" /\ call.p # call.c
  BY Zenon DEF copy_body_stack3, InCall, CallInv, RestTypes, Calls
<1>1. PICK v \in call.todo : v = Least(call.todo)
  BY <1>0, HasLeast, Zenon DEF RestTypes, Calls
<1>2. v \in vaddr[call.c] /\ v \in VPage /\ pt[call.c][v] = Null /\ v \in vaddr[call.p]
  BY <1>0, Zenon DEF TodoInv, CopyTodo, UserMem, UserTypes
<1>3. CASE pt[call.p][v] = Null
  BY <1>1, <1>3, <1>0, <1>2, StopsInv, Zenon DEF copy_body_stack3, MarkInv, FullInv
<1>4. CASE pt[call.p][v] # Null /\ Locked(call.p)
  BY <1>1, <1>4, <1>0, WaitsInv, Zenon DEF copy_body_stack3
<1>5. CASE pt[call.p][v] # Null /\ ~Locked(call.p) /\ UFree = {}
  BY <1>1, <1>5, <1>0, StopsInv, Zenon DEF copy_body_stack3
<1>6. CASE pt[call.p][v] # Null /\ ~Locked(call.p) /\ UFree # {} /\ NoTable(call.c, v)
  BY <1>1, <1>6, StopsInv, Zenon DEF copy_body_stack3, Child, NoTable
<1>7. CASE pt[call.p][v] # Null /\ ~Locked(call.p) /\ UFree # {} /\ ~NoTable(call.c, v)
  <2>1. /\ page_table_add(call.c, v)
        /\ call' = [call EXCEPT !.todo = call.todo \ {v}]
        /\ UNCHANGED <<vaddr, status, own, idle, heap, blocks, lock, waits, short>>
    BY <1>1, <1>7 DEF copy_body_stack3, Child
  <2>2. /\ KernelMem' /\ UserMem' /\ kernel' = kernel
        /\ pt'[call.c][v] # Null
        /\ \A r \in Proc : \A w \in VPage : (r # call.c \/ w # v) => pt'[r][w] = pt[r][w]
    BY <1>2, <2>1, <1>0, <1>7, PageTableAdd, Zenon DEF UserMem, UserTypes
  <2>3. /\ call' \in Calls /\ call'.at = "copy" /\ call'.p = call.p /\ call'.c = call.c
        /\ call'.todo = call.todo \ {v}
    BY <1>0, <2>1, Zenon DEF RestTypes, Calls
  <2>4. RestTypes'
    BY <2>1, <2>2, <2>3, UseTypesSame, Zenon DEF RestTypes, ProcTypes
  <2>5. CallInv'
    BY <2>1, <1>0, <2>3 DEF CallInv
  <2>6. TodoInv'
    <3>1. vaddr[call.c] \subseteq VPage
      BY <1>0 DEF UserMem, UserTypes
    <3>2. CopyTodo'
      BY <1>0, <2>1, <2>2, <2>3, <3>1 DEF TodoInv, CopyTodo
    <3> QED BY <2>3, <3>2, OnlyTodo, Zenon
  <2>7. MarkInv'
    <3>1. UNCHANGED <<status, vaddr, own, waits, short, blocks>>
      BY <2>1, Zenon
    <3>2. \A q \in Proc : vaddr[q] \subseteq VPage
      BY DEF UserMem, UserTypes
    <3>3. FullInv'
      BY <1>0, <2>2, <2>3, <3>1, <3>2 DEF MarkInv, FullInv
    <3>4. StackInv' /\ BlocksInv'
      BY <1>0, <2>2, <2>3, <3>1 DEF MarkInv, BlocksInv, StackInv
    <3>5. MadeInv'
      BY <1>0, <2>2, <3>1 DEF MarkInv, MadeInv, Fresh
    <3> QED BY <3>3, <3>4, <3>5, Zenon DEF MarkInv
  <2>8. StopsExplained'
    BY <1>0, <2>1, <2>2, StopsSame, Zenon
  <2>9. BootInv'
    BY <1>0, <2>2, <2>3, Zenon DEF BootInv
  <2> QED BY <2>2, <2>4, <2>5, <2>6, <2>7, <2>8, <2>9 DEF Leasts
<1> QED BY <1>3, <1>4, <1>5, <1>6, <1>7, Zenon

\* The child lives, with the blocks of its parent.
LEMMA fork_endsInv == ASSUME PagesInv, fork_ends PROVE PagesInv'
<1> USE NullNoProc DEF PagesInv
<1>1. /\ call.at = "copy" /\ kernel = "up" /\ call.todo = {} /\ call.c \in Proc /\ call.p \in Proc
      /\ status[call.c] = "making" /\ status[call.p] = "live" /\ call.p # call.c /\ call.p \notin waits
      /\ vaddr[call.c] = vaddr[call.p] /\ own[call.c].bits # {}
  BY Zenon DEF fork_ends, InCall, CallInv, TodoInv, CopyTodo, RestTypes, Calls
<1>2. /\ mfree_kernel(own[call.c].buf, {})
      /\ own' = [own EXCEPT ![call.c].buf = {}]
      /\ status' = [status EXCEPT ![call.c] = "live"]
      /\ blocks' = [blocks EXCEPT ![call.c] = blocks[call.p]]
      /\ call' = Idle
  BY DEF fork_ends, Child
<1>3. UNCHANGED <<user_pool, vaddr, pt, pde>> /\ UNCHANGED <<idle, heap, lock, waits, short, kernel>>
  BY DEF fork_ends, umem
<1>4. own[call.c].buf \subseteq KPage /\ {} \subseteq KPage
  BY <1>1 DEF RestTypes, ProcTypes, Owned
<1>5. KernelMem' /\ UserMem'
  BY <1>2, <1>3, <1>4, KernelPagesFreed, UserMemSame, Zenon
<1>6. Changed(call.c, own[call.c].pcb, {}, own[call.c].bits, own[call.c].dir)
  BY <1>1, <1>2, <1>4, OwnChanges, Zenon DEF RestTypes, ProcTypes
<1>7. own' \in [Proc -> Owned] /\ \A q \in Proc : own'[q].bits = own[q].bits
  BY <1>1, <1>6, Zenon DEF Changed
<1>8. call' \in Calls /\ CallInv' /\ TodoInv' /\ BootInv' /\ call'.at = "idle"
  BY <1>2, IdleCall DEF Idle
<1>9. RestTypes'
  BY <1>1, <1>2, <1>7, <1>3, <1>8, UseTypesSame, Zenon DEF RestTypes, ProcTypes
<1>10. status'[call.c] = "live" /\ \A q \in Proc : q # call.c => status'[q] = status[q]
  BY <1>1, <1>2, Zenon DEF RestTypes, ProcTypes
<1>11. MarkInv'
  <2>1. blocks'[call.c] = blocks[call.p] /\ \A q \in Proc : q # call.c => blocks'[q] = blocks[q]
    BY <1>1, <1>2 DEF RestTypes, ProcTypes
  <2>2. \A v \in vaddr[call.c] : pt[call.c][v] # Null
    BY <1>1 DEF TodoInv, CopyTodo
  <2>3. StackPage \in vaddr[call.p]
    BY <1>1 DEF MarkInv, StackInv
  <2>4. MadeInv'
    BY <1>1, <1>3, <1>7, <1>10 DEF MarkInv, MadeInv, Fresh
  <2>5. StackInv'
    BY <1>1, <1>3, <1>8, <1>10, <2>3 DEF MarkInv, StackInv
  <2>6. FullInv'
    BY <1>1, <1>3, <1>8, <1>10, <2>2 DEF MarkInv, FullInv
  <2>7. BlocksInv'
    <3>1. \A v \in VPage : pt[call.p][v] # Null => pt[call.c][v] # Null
      BY <1>1, <2>2 DEF UserMem, UserFrames
    <3> QED BY <1>1, <1>3, <2>1, <3>1 DEF MarkInv, BlocksInv
  <2> QED BY <2>4, <2>5, <2>6, <2>7, Zenon DEF MarkInv
<1> QED BY <1>1, <1>3, StopsSame, <1>5, <1>8, <1>9, <1>11, Zenon
=============================================================================
