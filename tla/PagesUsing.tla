----------------------------- MODULE PagesUsing ------------------------------
(***************************************************************************)
(* Loading a program, malloc and free in a process keep the invariant of   *)
(* PagesLemmas.                                                            *)
(***************************************************************************)
EXTENDS PagesLemmas

\* Every leaf has half a minute.
USE SMTT(30)

\* The frames of a block go back, and the addresses with them.
LEMMA sys_freeInv ==
  ASSUME PagesInv, NEW p \in Proc, NEW b \in blocks[p], sys_free(p, b) PROVE PagesInv'
<1> USE NullNoProc DEF PagesInv
<1>0. call = Idle /\ kernel = "up" /\ status[p] = "live" /\ p \notin waits /\ call.at = "idle"
  BY Zenon DEF sys_free, AtUser, Idle
<1>1. CASE Locked(p)
  BY <1>1, <1>0, WaitsInv, Zenon DEF sys_free
<1>2. CASE ~Locked(p)
  <2>1. /\ user_pool' = user_pool \ {pt[p][v] : v \in Run(b)}
        /\ pt' = [pt EXCEPT ![p] = [v \in VPage |-> IF v \in Run(b) THEN Null ELSE pt[p][v]]]
        /\ vaddr' = [vaddr EXCEPT ![p] = vaddr[p] \ Run(b)]
        /\ blocks' = [blocks EXCEPT ![p] = blocks[p] \ {b}]
        /\ UNCHANGED <<kernel_pool, kernel_vaddr, kpt, pde, status, own, idle, heap, lock, waits, call,
                       short, kernel>>
    BY <1>2, Zenon DEF sys_free, Run, bitmap_clear, kmem
  <2>2. Run(b) \subseteq VPage /\ StackPage \notin Run(b)
    BY DEF MarkInv, BlocksInv
  <2>3. /\ vaddr' \in [Proc -> SUBSET VPage] /\ vaddr'[p] = vaddr[p] \ Run(b)
        /\ \A q \in Proc : q # p => vaddr'[q] = vaddr[q]
    BY <2>1 DEF UserMem, UserTypes
  <2>4. UserMem'
    <3>1. \A f : f \in user_pool' <=> f \in user_pool /\ ~\E v \in Run(b) : f = pt[p][v]
      BY <2>1, Zenon
    <3> QED BY <2>1, <2>2, <2>3, <3>1, UserPagesFreed, Zenon
  <2>5. blocks'[p] = blocks[p] \ {b} /\ \A q \in Proc : q # p => blocks'[q] = blocks[q]
    BY <2>1, Zenon DEF RestTypes, ProcTypes, UseTypes, Calls
  <2>6. KernelMem'
    BY <2>1, KernelMemSame, Zenon
  <2>7. RestTypes'
    BY <2>1, UseTypesSame, Zenon DEF RestTypes, ProcTypes, Calls
  <2>8. CallInv' /\ TodoInv' /\ BootInv'
    BY <1>0, <2>1, IdleCall, Zenon
  <2>9. /\ \A v \in VPage : pt'[p][v] = IF v \in Run(b) THEN Null ELSE pt[p][v]
        /\ \A q \in Proc : q # p => pt'[q] = pt[q]
        /\ vaddr[p] \subseteq VPage
    BY <2>1 DEF UserMem, UserTypes
  <2>10. MadeInv' /\ StackInv'
    BY <1>0, <2>1, <2>2, <2>3, <2>9 DEF MarkInv, MadeInv, Fresh, StackInv
  <2>11. FullInv'
    BY <1>0, <2>1, <2>3, <2>9 DEF MarkInv, FullInv
  <2>12. BlocksInv'
    BY <2>5, <2>9 DEF MarkInv, BlocksInv
  <2>13. MarkInv'
    BY <2>10, <2>11, <2>12, Zenon DEF MarkInv
  <2> QED BY <1>0, <2>1, StopsSame, <2>4, <2>6, <2>7, <2>8, <2>13, Zenon
<1> QED BY <1>1, <1>2

\* The run malloc marks is free and below the stack page, which is marked: the
\* assertion of vaddr_get holds.
LEMMA sys_mallocInv ==
  ASSUME PagesInv, NEW p \in Proc, NEW n \in MallocPages, sys_malloc(p, n) PROVE PagesInv'
<1> USE NullNoProc DEF PagesInv
<1> DEFINE r == FirstRun(vaddr[p], VBytes, n)
           run == r..(r + n - 1)
<1>0. call = Idle /\ kernel = "up" /\ status[p] = "live" /\ p \notin waits /\ call.at = "idle"
  BY DEF sys_malloc, AtUser, Idle
<1>1. CASE Locked(p)
  BY <1>1, <1>0, WaitsInv, Zenon DEF sys_malloc
<1>2. CASE ~Locked(p) /\ r = -1
  BY <1>2, StutterInv, Zenon DEF sys_malloc
<1>3. CASE ~Locked(p) /\ r # -1
  <2>1. StackPage \in vaddr[p] /\ StackPage = VPages - 1 /\ VPages \in Nat \ {0} /\ n \in Nat \ {0}
    BY <1>0, Sizes, PagesAssumption, Zenon DEF MarkInv, StackInv, StackPage
  <2>2. r \in Nat /\ r + n <= VPages + (IF n = 1 THEN 0 ELSE 1) /\ \A b \in run : b \notin vaddr[p]
    BY PagesAssumption, <1>3, <2>1, RunIsFree, Zenon DEF VPages
  <2>3. sys_malloc(p, n) => (~(r < StackPage) => Stops("panic"))
    BY <1>3, Zenon DEF sys_malloc
  <2>4. (r < StackPage) =>
          /\ vaddr' = [vaddr EXCEPT ![p] = vaddr[p] \cup run]
          /\ call' = [Idle EXCEPT !.at = "malloc", !.p = p, !.todo = run, !.got = {<<r, n>>}]
          /\ UNCHANGED <<kernel_pool, kernel_vaddr, kpt, user_pool, pt, pde, status, own, idle, heap, blocks,
                         lock, waits, short, kernel>>
    BY <1>3 DEF sys_malloc, bitmap_set, kmem
  <2> HIDE DEF r
  <2>5. StackPage \notin run
    BY <2>1, <2>2
  <2>6. r < StackPage
    BY <2>1, <2>2, <2>5
  <2>7. /\ run \subseteq VPage /\ run \subseteq Nat /\ StackPage \notin run
        /\ r \in VPage /\ Run(<<r, n>>) = run
    BY <2>1, <2>2, <2>5, <2>6 DEF VPage, Run
  <2>8. \A v \in run : v \in VPage /\ v \notin vaddr[p] /\ pt[p][v] = Null /\ v # StackPage
    BY <2>2, <2>7, Zenon DEF UserMem, UserFrames
  <2> HIDE DEF run
  <2>9. /\ vaddr' \in [Proc -> SUBSET VPage] /\ vaddr'[p] = vaddr[p] \cup run
         /\ \A q \in Proc : q # p => vaddr'[q] = vaddr[q]
    BY <2>4, <2>6, <2>7 DEF UserMem, UserTypes
  <2>10. call'.at = "malloc" /\ call'.p = p /\ call'.todo = run /\ call'.got = {<<r, n>>} /\ call'.c = Null
    BY <2>4, <2>6, Zenon DEF Idle
  <2>11. UNCHANGED <<kernel_pool, kernel_vaddr, kpt, user_pool, pt, pde, status, own, idle, heap, blocks,
                     lock, waits, short, kernel>>
    BY <2>4, <2>6
  <2>12. KernelMem'
    BY <2>11, KernelMemSame
  <2>13. RestTypes'
    <3>1. call' = [at |-> "malloc", p |-> p, c |-> Null, todo |-> run, got |-> {<<r, n>>}]
      BY <2>4, <2>6, Zenon DEF Idle
    <3>2. <<r, n>> \in Nat \X Nat
      BY <2>1, <2>2
    <3> QED BY <2>7, <2>11, <3>1, <3>2, Zenon DEF RestTypes, ProcTypes, UseTypes, Calls
  <2>14. CallInv' /\ BootInv'
    BY <1>0, <2>11, <2>10, Zenon DEF CallInv, BootInv
  <2>15. TodoInv'
    <3>1. \A v \in run : \A x \in blocks'[p] : v \notin Run(x)
      BY <2>8, <2>11, Zenon DEF MarkInv, BlocksInv, UserMem, UserFrames
    <3>2. <<r, n>> \in VPage \X MallocPages
      BY <2>7
    <3>3. \E b \in VPage \X MallocPages :
            /\ call'.got = {b}
            /\ \A v \in Run(b) :
                 /\ v \in VPage /\ v # StackPage
                 /\ v \in call'.todo \/ pt'[p][v] # Null
                 /\ \A x \in blocks'[p] : v \notin Run(x)
      <4> WITNESS <<r, n>> \in VPage \X MallocPages
      <4> QED BY <2>7, <2>8, <2>10, <3>1, Zenon
    <3>4. \A v \in call'.todo : v \in VPage /\ pt'[p][v] = Null /\ v \in vaddr'[p]
      BY <2>8, <2>9, <2>10, <2>11
    <3>5. MallocTodo'
      BY <2>10, <3>3, <3>4, Zenon DEF MallocTodo
    <3> QED BY <2>10, <3>5, OnlyTodo, Zenon
  <2>16. MarkInv'
    <3>1. MadeInv'
      BY <1>0, <2>9, <2>11 DEF MarkInv, MadeInv, Fresh
    <3>2. StackInv' /\ FullInv'
      BY <1>0, <2>9, <2>10, <2>11 DEF MarkInv, StackInv, FullInv
    <3>3. BlocksInv'
      BY <2>11, Zenon DEF MarkInv, BlocksInv
    <3> QED BY <3>1, <3>2, <3>3, Zenon DEF MarkInv
  <2>17. StopsExplained'
    BY <1>0, <2>11, StopsSame
  <2>18. UserMem'
    BY <2>9, <2>11 DEF UserMem, UserTypes, UserFrames
  <2> QED BY <2>12, <2>13, <2>14, <2>15, <2>16, <2>17, <2>18, Zenon
<1> QED BY <1>1, <1>2, <1>3, Zenon

\* The pages of a block get their frames one by one, or the call fails and the
\* process is in short.
LEMMA malloc_pageInv == ASSUME PagesInv, malloc_page PROVE PagesInv'
<1> USE NullNoProc DEF PagesInv
<1> DEFINE v == Least(call.todo)
           p == call.p
<1>0. /\ call.at = "malloc" /\ kernel = "up" /\ call.todo # {} /\ p \in Proc
      /\ status[p] = "live" /\ p \notin waits
  BY Zenon DEF malloc_page, InCall, CallInv, RestTypes, ProcTypes, UseTypes, Calls
<1>1. v \in call.todo /\ v \in VPage /\ pt[p][v] = Null /\ v \in vaddr[p]
  <2>1. v \in call.todo
    BY <1>0, HasLeast, Zenon DEF RestTypes, ProcTypes, UseTypes, Calls
  <2> HIDE DEF v
  <2> QED BY <1>0, <2>1, Zenon DEF TodoInv, MallocTodo
<1> HIDE DEF v
<1>2. CASE UFree = {}
  <2>1. /\ call' = Idle /\ short' = short \cup {p}
        /\ UNCHANGED <<kernel_pool, kernel_vaddr, kpt, user_pool, vaddr, pt, pde, status, own, idle, heap,
                       blocks, lock, waits, kernel>>
    BY <1>2 DEF malloc_page, kmem, umem
  <2>2. KernelMem' /\ UserMem'
    BY <2>1, UserMemSame, KernelMemSame, Zenon
  <2>3. call' \in Calls /\ CallInv' /\ TodoInv' /\ BootInv' /\ call'.at = "idle"
    BY <2>1, IdleCall, Zenon DEF Idle
  <2>4. RestTypes'
    BY <1>0, <2>1, <2>3, Zenon DEF RestTypes, ProcTypes, UseTypes
  <2>5. MadeInv' /\ BlocksInv'
    BY <2>1, Zenon DEF MarkInv, MadeInv, Fresh, BlocksInv
  <2>6. StackInv' /\ FullInv'
    BY <1>0, <2>1, <2>3 DEF MarkInv, StackInv, FullInv
  <2>7. StopsExplained'
    BY <1>0, <2>1 DEF StopsExplained
  <2> QED BY <2>2, <2>3, <2>4, <2>5, <2>6, <2>7, Zenon DEF Leasts, MarkInv
<1>3. CASE UFree # {} /\ NoTable(p, v)
  BY <1>3, StopsInv, Zenon DEF malloc_page, v, NoTable
<1>4. CASE UFree # {} /\ ~NoTable(p, v)
  <2>1. /\ page_table_add(p, v)
        /\ call' = [call EXCEPT !.todo = call.todo \ {v}]
        /\ UNCHANGED <<vaddr, status, own, idle, heap, blocks, lock, waits, short>>
    BY <1>4 DEF malloc_page, v
  <2>2. /\ KernelMem' /\ UserMem' /\ kernel' = kernel
        /\ pt'[p][v] # Null
        /\ \A q \in Proc : \A w \in VPage : (q # p \/ w # v) => pt'[q][w] = pt[q][w]
    BY <1>1, <2>1, <1>0, <1>4, PageTableAdd, Zenon DEF UserMem, UserTypes
  <2>3. /\ call'.at = "malloc" /\ call'.p = call.p /\ call'.c = call.c /\ call'.todo = call.todo \ {v}
        /\ call'.got = call.got
    BY <1>0, <2>1, Zenon DEF RestTypes, Calls
  <2>4. CallInv' /\ BootInv'
    <3>1. status'[p] = "live" /\ p \notin waits'
      BY <1>0, <2>1
    <3> QED BY <1>0, <2>3, <3>1, Zenon DEF CallInv, BootInv
  <2>5. TodoInv'
    <3>1. \A w \in call'.todo : w \in VPage /\ pt'[p][w] = Null /\ w \in vaddr'[p]
      BY <1>0, <2>1, <2>2, <2>3 DEF TodoInv, MallocTodo
    <3>2. PICK b \in VPage \X MallocPages :
            /\ call.got = {b}
            /\ \A w \in Run(b) :
                 /\ w \in VPage /\ w # StackPage
                 /\ w \in call.todo \/ pt[p][w] # Null
                 /\ \A x \in blocks[p] : w \notin Run(x)
      BY <1>0, Zenon DEF TodoInv, MallocTodo
    <3>3. MallocTodo'
      BY <1>0, <2>1, <2>2, <2>3, <3>1, <3>2 DEF MallocTodo
    <3> QED BY <2>3, <3>3, OnlyTodo, Zenon
  <2>6. MarkInv'
    <3>0. UNCHANGED <<status, vaddr, own, blocks, waits, short>>
      BY <2>1
    <3>1. FullInv'
      BY <1>0, <2>2, <2>3, <3>0 DEF MarkInv, FullInv, UserMem, UserTypes
    <3>2. MadeInv'
      BY <1>0, <2>2, <3>0 DEF MarkInv, MadeInv, Fresh
    <3> QED BY <1>0, <2>2, <2>3, <3>0, <3>1, <3>2 DEF MarkInv, BlocksInv, StackInv
  <2>7. StopsExplained'
    BY <1>0, <2>1, <2>2, StopsSame, Zenon
  <2> QED BY <2>1, UseTypesSame, <2>2, <2>4, <2>5, <2>6, <2>7, Zenon DEF RestTypes, ProcTypes, Calls
<1> QED BY <1>2, <1>3, <1>4, Zenon

\* A block that malloc returns has all its frames and shares none with another.
LEMMA malloc_endsInv == ASSUME PagesInv, malloc_ends PROVE PagesInv'
<1> USE NullNoProc DEF PagesInv
<1> DEFINE p == call.p
<1>0. /\ call.at = "malloc" /\ kernel = "up" /\ call.todo = {} /\ p \in Proc /\ call' = Idle
      /\ blocks' = [blocks EXCEPT ![p] = blocks[p] \cup call.got]
      /\ UNCHANGED <<kernel_pool, kernel_vaddr, kpt, user_pool, vaddr, pt, pde, status, own, idle, heap,
                     lock, waits, short, kernel>>
  <2>1. p \in Proc
    BY Zenon DEF malloc_ends, InCall, CallInv, RestTypes, Calls
  <2> QED BY <2>1, Zenon DEF malloc_ends, InCall, kmem, umem
<1>1. KernelMem' /\ UserMem'
  BY <1>0, UserMemSame, KernelMemSame, Zenon
<1>2. PICK b \in VPage \X MallocPages :
        /\ call.got = {b}
        /\ \A w \in Run(b) :
             /\ w \in VPage /\ w # StackPage
             /\ w \in call.todo \/ pt[p][w] # Null
             /\ \A x \in blocks[p] : w \notin Run(x)
  BY <1>0, Zenon DEF TodoInv, MallocTodo
<1>3. RestTypes'
  BY <1>0, <1>2, IdleCall, UseTypesSame DEF RestTypes, ProcTypes
<1>4. blocks'[p] = blocks[p] \cup {b} /\ \A q \in Proc : q # p => blocks'[q] = blocks[q]
  BY <1>0, <1>2, Zenon DEF RestTypes, ProcTypes
<1>5. MarkInv'
  <2>1. call'.at = "idle" /\ UNCHANGED <<status, vaddr, own, pt, waits, short>>
    BY <1>0, Zenon DEF Idle
  <2>2. MadeInv'
    BY <2>1, Zenon DEF MarkInv, MadeInv, Fresh
  <2>3. StackInv' /\ FullInv'
    BY <1>0, <2>1 DEF MarkInv, StackInv, FullInv
  <2>4. BlocksInv'
    BY <1>0, <1>2, <1>4, <2>1 DEF MarkInv, BlocksInv
  <2> QED BY <2>2, <2>3, <2>4, Zenon DEF MarkInv
<1> QED BY IdleCall, <1>0, StopsSame, <1>1, <1>3, <1>5, Zenon

-----------------------------------------------------------------------------
\* The first process asks for its stack.
LEMMA start_processInv == ASSUME PagesInv, NEW p \in Proc, start_process(p) PROVE PagesInv'
<1> USE NullNoProc DEF PagesInv
<1>0. /\ UNCHANGED <<kernel_pool, kernel_vaddr, kpt, user_pool, vaddr, pt, pde, own, idle, heap,
                     blocks, lock, waits, short, kernel>>
      /\ call = Idle /\ kernel = "up" /\ status[p] = "ready"
      /\ status' = [status EXCEPT ![p] = "live"]
      /\ call' = [Idle EXCEPT !.at = "load", !.p = p, !.todo = {StackPage}]
  BY DEF start_process, kmem, umem
<1>1. KernelMem' /\ UserMem'
  BY <1>0, UserMemSame, KernelMemSame
<1>2. StackPage \in Nat /\ StackPage \in VPage
  BY Sizes DEF VPage
<1>3. RestTypes'
  BY <1>0, <1>2, UseTypesSame, Zenon DEF RestTypes, ProcTypes, Calls, Idle
<1>4. call'.at = "load" /\ call'.p = p /\ call'.todo = {StackPage} /\ call'.got = {} /\ call'.c = Null
  BY <1>0 DEF Idle
<1>5. status'[p] = "live" /\ \A q \in Proc : q # p => status'[q] = status[q]
  BY <1>0, Zenon DEF RestTypes, ProcTypes, UseTypes, Calls
<1>6. CallInv' /\ BootInv'
  <2>1. p \notin waits'
    BY <1>0 DEF MarkInv, MadeInv
  <2> QED BY <1>4, <1>5, <2>1, Zenon DEF CallInv, BootInv
<1>7. TodoInv'
  BY <1>0, <1>2, <1>4, OnlyTodo DEF LoadTodo, MarkInv, MadeInv, Fresh
<1>8. MarkInv'
  BY <1>0, <1>5, <1>4 DEF MarkInv, MadeInv, Fresh, StackInv, FullInv, Idle, BlocksInv
<1> QED BY <1>0, StopsSame, <1>1, <1>3, <1>6, <1>7, <1>8

\* A program asks for the pages of its segment that have no frame.
LEMMA sys_execvInv ==
  ASSUME PagesInv, NEW p \in Proc, NEW s \in Segments, sys_execv(p, s) PROVE PagesInv'
<1> USE NullNoProc DEF PagesInv
<1> DEFINE need == {v \in segment_pages(s) : pt[p][v] = Null}
<1>0. /\ UNCHANGED <<kernel_pool, kernel_vaddr, kpt, user_pool, vaddr, pt, pde, status, own, idle, heap,
                     blocks, lock, waits, short, kernel>>
      /\ call = Idle /\ kernel = "up" /\ status[p] = "live" /\ p \notin waits
      /\ call' = [Idle EXCEPT !.at = "load", !.p = p, !.got = {s}, !.todo = need]
  BY DEF sys_execv, AtUser, kmem, umem
<1>1. KernelMem' /\ UserMem'
  BY <1>0, UserMemSame, KernelMemSame
<1>2. /\ \A v \in need : v \in VPage /\ pt[p][v] = Null
      /\ \A b \in Run(s) : PageOf(b) \in VPage /\ (PageOf(b) \in need \/ pt[p][PageOf(b)] # Null)
  BY SegmentPages
<1>3. call'.at = "load" /\ call'.p = p /\ call'.todo = need /\ call'.got = {s} /\ call'.c = Null
  BY <1>0 DEF Idle
<1>4. RestTypes'
  <2>1. need \subseteq Nat
    BY <1>2 DEF VPage
  <2>2. s \in Nat \X Nat
    BY PagesAssumption
  <2> QED BY <2>1, <2>2, <1>0, UseTypesSame, Zenon DEF RestTypes, Calls, Idle, ProcTypes
<1> HIDE DEF need
<1>5. CallInv' /\ BootInv'
  <2>1. status'[p] = "live" /\ p \notin waits'
    BY <1>0
  <2> QED BY <1>3, <2>1, Zenon DEF CallInv, BootInv
<1>6. TodoInv'
  BY <1>0, <1>2, <1>3, OnlyTodo, Zenon DEF LoadTodo, MarkInv, StackInv, Idle
<1>7. MarkInv'
  <2>1. MadeInv' /\ BlocksInv'
    BY <1>0 DEF MarkInv, MadeInv, Fresh, BlocksInv
  <2>2. StackInv' /\ FullInv'
    BY <1>0, <1>3 DEF MarkInv, StackInv, FullInv, Idle
  <2> QED BY <2>1, <2>2, Zenon DEF MarkInv
<1> QED BY <1>0, StopsSame, <1>1, <1>4, <1>5, <1>6, <1>7, Zenon

\* A page is marked and gets a frame, or the lock is kept.
LEMMA get_a_pageInv == ASSUME PagesInv, get_a_page PROVE PagesInv'
<1> USE NullNoProc DEF PagesInv
<1> DEFINE v == Least(call.todo)
           p == call.p
<1>0. /\ call.at = "load" /\ kernel = "up" /\ call.todo # {} /\ p \in Proc
      /\ status[p] = "live" /\ p \notin waits
  BY Zenon DEF get_a_page, InCall, CallInv, RestTypes, ProcTypes, UseTypes, Calls
<1>1. v \in call.todo /\ v \in VPage /\ pt[p][v] = Null /\ v \in Nat
  <2>1. call.todo \subseteq Nat
    BY Zenon DEF RestTypes, ProcTypes, UseTypes, Calls
  <2>2. v \in call.todo
    BY <1>0, <2>1, HasLeast
  <2> HIDE DEF v
  <2> QED BY <1>0, <2>1, <2>2, Zenon DEF TodoInv, LoadTodo
<1>2. StackPage \in vaddr[p] \cup {v}
  BY <1>0, <1>1, Zenon DEF TodoInv, LoadTodo
<1> HIDE DEF v
<1>3. CASE Locked(p)
  BY <1>3, <1>0, WaitsInv, Zenon DEF get_a_page
<1>4. CASE ~Locked(p) /\ ~(v > 0)
  BY <1>4, <1>1, <1>0, StopsInv DEF get_a_page, v
<1>5. CASE ~Locked(p) /\ v > 0 /\ UFree # {} /\ NoTable(p, v)
  BY <1>5, StopsInv, Zenon DEF get_a_page, v, NoTable
<1>6. ASSUME ~Locked(p), v > 0, ~(UFree # {} /\ NoTable(p, v))
      PROVE  /\ UNCHANGED <<status, own, idle, heap, blocks, waits>>
             /\ vaddr' \in [Proc -> SUBSET VPage]
             /\ vaddr'[p] = vaddr[p] \cup {v} /\ \A q \in Proc : q # p => vaddr'[q] = vaddr[q]
  BY <1>6, <1>0, <1>1 DEF get_a_page, bitmap_set, v, UserMem, UserTypes
<1>7. CASE ~Locked(p) /\ v > 0 /\ UFree = {}
  <2>1. /\ call' = Idle /\ lock' = p /\ short' = short \cup {p}
        /\ UNCHANGED <<kernel_pool, kernel_vaddr, kpt, user_pool, pt, pde, kernel>>
    BY <1>7, Zenon DEF get_a_page, v, kmem
  <2>2. UserMem'
    BY <1>6, <1>7, <2>1 DEF UserMem, UserTypes, UserFrames
  <2>3. RestTypes'
    BY <1>0, <1>6, <1>7, <2>1, Zenon DEF RestTypes, ProcTypes, Calls, Idle, UseTypes
  <2>4. MarkInv'
    <3>1. call'.at = "idle" /\ UNCHANGED <<status, own, blocks, waits, pt>>
      BY <1>6, <1>7, <2>1, Zenon DEF Idle
    <3>2. /\ vaddr'[p] = vaddr[p] \cup {v} /\ p \in short'
          /\ \A q \in Proc : q # p => vaddr'[q] = vaddr[q] /\ (q \in short => q \in short')
      BY <1>6, <1>7, <2>1
    <3>3. MadeInv'
      BY <1>0, <3>1, <3>2 DEF MarkInv, MadeInv, Fresh
    <3>4. StackInv' /\ FullInv'
      BY <1>0, <1>2, <3>1, <3>2 DEF MarkInv, StackInv, FullInv
    <3>5. BlocksInv'
      BY <3>1, Zenon DEF MarkInv, BlocksInv
    <3> QED BY <3>3, <3>4, <3>5, Zenon DEF MarkInv
  <2>5. StopsExplained'
    BY <1>0, <1>6, <1>7, <2>1, Zenon DEF StopsExplained
  <2> QED BY KernelMemSame, <2>1, IdleCall, <2>2, <2>3, <2>4, <2>5
<1>8. CASE ~Locked(p) /\ v > 0 /\ UFree # {} /\ ~NoTable(p, v)
  <2>1. /\ page_table_add(p, v)
        /\ call' = [call EXCEPT !.todo = call.todo \ {v}]
        /\ UNCHANGED <<lock, short>>
    BY <1>8 DEF get_a_page, v
  <2>2. /\ KernelMem' /\ UserMem' /\ kernel' = kernel
        /\ pt'[p][v] # Null
        /\ \A r \in Proc : \A w \in VPage : (r # p \/ w # v) => pt'[r][w] = pt[r][w]
    BY <1>6, <1>8, <1>0, <1>1, <2>1, PageTableAdd
  <2>3. /\ call'.at = "load" /\ call'.p = call.p /\ call'.c = call.c /\ call'.todo = call.todo \ {v}
        /\ call'.got = call.got
    BY <1>0, <2>1, Zenon DEF RestTypes, ProcTypes, UseTypes, Calls
  <2>4. RestTypes'
    BY <1>6, <1>8, <2>1, <2>2, Zenon DEF RestTypes, ProcTypes, Calls, UseTypes
  <2>5. CallInv' /\ BootInv'
    BY <1>0, <1>6, <1>8, <2>3, Zenon DEF CallInv, BootInv
  <2>6. TodoInv'
    <3>1. LoadTodo'
      <4>1. \A w \in call'.todo : w \in VPage /\ pt'[p][w] = Null
        BY <1>0, <2>2, <2>3 DEF TodoInv, LoadTodo
      <4>2. StackPage \in vaddr'[p]
        BY <1>2, <1>6, <1>8
      <4>3. \A s \in call'.got : \A b \in Run(s) :
              PageOf(b) \in VPage /\ (PageOf(b) \in call'.todo \/ pt'[p][PageOf(b)] # Null)
        BY <1>0, <2>2, <2>3 DEF TodoInv, LoadTodo
      <4> QED BY <2>3, <4>1, <4>2, <4>3, Zenon DEF LoadTodo
    <3> QED BY <2>3, <3>1, OnlyTodo, Zenon
  <2>7. MarkInv'
    <3>1. MadeInv'
      BY <1>0, <1>6, <1>8, <2>2 DEF MarkInv, MadeInv, Fresh
    <3>2. StackInv'
      BY <1>0, <1>2, <1>6, <1>8, <2>3, Zenon DEF MarkInv, StackInv
    <3>3. FullInv'
      BY <1>0, <1>6, <1>8, <2>1, <2>2 DEF MarkInv, FullInv, UserMem, UserTypes
    <3> QED BY <1>6, <1>8, <2>2, <3>1, <3>2, <3>3 DEF MarkInv, BlocksInv
  <2>8. StopsExplained'
    BY <1>0, <1>6, <1>8, <2>1, <2>2, Zenon DEF StopsExplained
  <2> QED BY <2>2, <2>4, <2>5, <2>6, <2>7, <2>8
<1> QED BY <1>3, <1>4, <1>5, <1>7, <1>8, Zenon

\* What a program loads is mapped; the stack page is marked by now.
LEMMA load_endsInv == ASSUME PagesInv, load_ends PROVE PagesInv'
<1> USE NullNoProc DEF PagesInv
<1>0. /\ call.at = "load" /\ kernel = "up" /\ call.todo = {} /\ call.p \in Proc /\ call' = Idle
      /\ blocks' = [blocks EXCEPT ![call.p] = {}]
      /\ UNCHANGED <<kernel_pool, kernel_vaddr, kpt, user_pool, vaddr, pt, pde, status, own, idle, heap,
                     lock, waits, short, kernel>>
  BY Zenon DEF load_ends, InCall, CallInv, RestTypes, ProcTypes, UseTypes, Calls, kmem, umem
<1>1. RestTypes'
  BY <1>0, Zenon DEF RestTypes, ProcTypes, Calls, Idle, UseTypes
<1>2. \A q \in Proc : blocks'[q] \subseteq blocks[q]
  BY <1>0, Zenon DEF RestTypes, ProcTypes
<1>3. MarkInv'
  <2>1. MadeInv'
    BY <1>0, Zenon DEF MarkInv, MadeInv, Fresh
  <2>2. StackPage \in vaddr[call.p] /\ call'.at = "idle"
    BY <1>0 DEF TodoInv, LoadTodo, Idle
  <2>3. StackInv' /\ FullInv'
    BY <1>0, <2>2 DEF MarkInv, StackInv, FullInv
  <2>4. BlocksInv'
    BY <1>0, <1>2 DEF MarkInv, BlocksInv
  <2> QED BY <2>1, <2>3, <2>4, Zenon DEF MarkInv
<1> QED BY <1>0, <1>1, <1>3, UserMemSame, KernelMemSame, IdleCall, StopsSame, Zenon DEF Leasts
=============================================================================
