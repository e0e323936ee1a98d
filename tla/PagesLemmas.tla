----------------------------- MODULE PagesLemmas -----------------------------
(***************************************************************************)
(* The inductive invariant of module Pages, the lemmas that its proofs     *)
(* share, and the steps that begin a process: process_execute, sys_fork    *)
(* and copy_process.                                                       *)
(***************************************************************************)
EXTENDS Pages, TLAPS

\* Every leaf has half a minute.
USE SMTT(30)

\* A set of naturals that is not empty has a least element.  PagesProofs proves
\* it, with the theorems on finite sets; here it is a part of the invariant, so
\* that these modules do without them.
Leasts == \A S \in SUBSET Nat : S # {} => Least(S) \in S /\ \A y \in S : Least(S) <= y

\* Least of a set that is not empty is in it, below all others.
LEMMA HasLeast ==
  ASSUME Leasts, NEW S, S \subseteq Nat, S # {}
  PROVE  Least(S) \in S /\ \A y \in S : Least(S) <= y
  BY DEF Leasts

\* A bounded one has a greatest element, too.
LEMMA HasGreatest ==
  ASSUME Leasts, NEW n \in Nat, NEW S, S \subseteq 0..n, S # {}
  PROVE  \E x \in S : \A y \in S : y <= x
<1> DEFINE T == {n - y : y \in S}
<1>0. \A y \in S : y \in 0..n /\ n - y \in Nat
  OBVIOUS
<1>1. T \subseteq Nat /\ T # {}
  BY <1>0, Zenon
<1>2. Least(T) \in T /\ \A z \in T : Least(T) <= z
  BY <1>1, HasLeast, Zenon
<1>3. PICK x \in S : Least(T) = n - x
  BY <1>2, Zenon
<1>4. \A y \in S : n - x <= n - y
  BY <1>2, <1>3, Zenon
<1> QED BY <1>0, <1>4

\* Division
LEMMA DivMod ==
  ASSUME NEW a \in Nat, NEW n \in Nat \ {0}
  PROVE  /\ a \div n \in Nat /\ a % n \in Nat /\ a % n < n
         /\ a = n * (a \div n) + (a % n)
  BY SMT

\* Multiplying by n is strictly monotonic.
LEMMA MulLess ==
  ASSUME NEW x \in Int, NEW y \in Int, NEW n \in Nat \ {0}, n * x < n * y
  PROVE  x < y
<1> SUFFICES ASSUME y <= x PROVE FALSE
  OBVIOUS
<1> QED OBVIOUS

\* Division by n against a bound that is a multiple of n.
LEMMA DivBounds ==
  ASSUME NEW a \in Nat, NEW n \in Nat \ {0}, NEW q \in Nat
  PROVE  /\ n * q <= a => q <= a \div n
         /\ a < n * q => a \div n < q
<1> DEFINE d == a \div n
           m == a % n
<1>1. d \in Nat /\ m \in Nat /\ m < n /\ a = n * d + m
  BY DivMod
<1> HIDE DEF d, m
<1>2. ASSUME n * q <= a PROVE q <= d
  BY <1>1, <1>2, MulLess
<1>3. ASSUME a < n * q PROVE d < q
  BY <1>1, <1>3, MulLess
<1> QED BY <1>2, <1>3 DEF d

-----------------------------------------------------------------------------
\* What the constants are.
LEMMA Sizes ==
  /\ Procs \in Nat /\ KPages \in Nat /\ UPages \in Nat /\ VPages \in Nat \ {0}
  /\ MapPages \in Nat /\ MapPages > 1 /\ KPages >= MapPages + 4 /\ PtePer \in Nat \ {0}
  /\ StackPage \in VPage /\ 1 \in Proc
  BY PagesAssumption, ByteAssumption DEF KPages, UPages, VPages, StackPage, VPage, Proc

\* vaddr_get of one page, and of more: a run of clear bits, the last of which
\* may be the bit after the map.
LEMMA RunIsFree ==
  ASSUME Leasts, NEW map, NEW len \in Nat, NEW cnt \in Nat \ {0}, FirstRun(map, len, cnt) # -1
  PROVE  LET r == FirstRun(map, len, cnt) IN
         /\ r \in Nat
         /\ r + cnt <= Byte * len + (IF cnt = 1 THEN 0 ELSE 1)
         /\ \A b \in r..(r + cnt - 1) : b \notin map
<1> DEFINE seen == Byte * len + (IF cnt = 1 THEN 0 ELSE 1)
           runs == {r \in 0..(seen - cnt) : \A b \in r..(r + cnt - 1) : b \notin map}
<1>1. FirstRun(map, len, cnt) = IF runs = {} THEN -1 ELSE Least(runs)
  BY DEF FirstRun
<1> HIDE DEF seen
<1> DEFINE r == Least(runs)
<1>2. r \in 0..(seen - cnt) /\ \A b \in r..(r + cnt - 1) : b \notin map
  BY <1>1, HasLeast
<1>3. FirstRun(map, len, cnt) = r
  BY <1>1
<1> HIDE DEF r
<1> QED BY ByteAssumption, <1>2, <1>3 DEF seen

\* It is the first one.
LEMMA RunIsFirst ==
  ASSUME Leasts, NEW map, NEW len \in Nat, NEW cnt \in Nat \ {0}, NEW r \in Nat,
         r + cnt <= Byte * len,
         \A b \in r..(r + cnt - 1) : b \notin map
  PROVE  FirstRun(map, len, cnt) # -1 /\ FirstRun(map, len, cnt) <= r
<1> DEFINE seen == Byte * len + (IF cnt = 1 THEN 0 ELSE 1)
           runs == {x \in 0..(seen - cnt) : \A b \in x..(x + cnt - 1) : b \notin map}
<1>1. FirstRun(map, len, cnt) = IF runs = {} THEN -1 ELSE Least(runs)
  BY DEF FirstRun
<1>2. runs \subseteq Nat
  OBVIOUS
<1>3. r \in runs
  BY ByteAssumption
<1>4. Least(runs) \in runs /\ Least(runs) <= r
  BY <1>2, <1>3, HasLeast, Zenon
<1> HIDE DEF runs
<1> QED BY <1>1, <1>2, <1>3, <1>4

-----------------------------------------------------------------------------
(* The frames.  In each pool the bits that are set are the frames that a     *)
(* page or a page table has, no two of them have the same, and a page that   *)
(* has one is marked in its bitmap.                                          *)

KernelTypes ==
  /\ kernel_pool \subseteq KFrame /\ kernel_vaddr \subseteq KPage
  /\ kpt \in [KPage -> KFrame \cup {Null}]
  /\ pde \in [Proc -> [Pde -> KFrame \cup {Null}]]

KernelFrames ==
  /\ \A v, w \in KPage : kpt[v] # Null /\ kpt[v] = kpt[w] => v = w
  /\ \A p, q \in Proc : \A d, e \in Pde : pde[p][d] # Null /\ pde[p][d] = pde[q][e] => p = q /\ d = e
  /\ \A v \in KPage : \A p \in Proc : \A d \in Pde : kpt[v] # Null => kpt[v] # pde[p][d]
  /\ \A v \in KPage : kpt[v] # Null => kpt[v] \in kernel_pool /\ v \in kernel_vaddr
  /\ \A p \in Proc : \A d \in Pde : pde[p][d] # Null => pde[p][d] \in kernel_pool
  /\ \A f \in kernel_pool : \/ \E v \in KPage : kpt[v] = f
                            \/ \E p \in Proc : \E d \in Pde : pde[p][d] = f

UserTypes ==
  /\ user_pool \subseteq UFrame
  /\ vaddr \in [Proc -> SUBSET VPage]
  /\ pt \in [Proc -> [VPage -> UFrame \cup {Null}]]

UserFrames ==
  /\ \A p, q \in Proc : \A v, w \in VPage : pt[p][v] # Null /\ pt[p][v] = pt[q][w] => p = q /\ v = w
  /\ \A p \in Proc : \A v \in VPage : pt[p][v] # Null => pt[p][v] \in user_pool /\ v \in vaddr[p]
  /\ \A f \in user_pool : \E p \in Proc : \E v \in VPage : pt[p][v] = f

KernelMem == KernelTypes /\ KernelFrames
UserMem == UserTypes /\ UserFrames

\* Null is no frame, and palloc returns a frame that is free.
LEMMA Palloc ==
  ASSUME Leasts
  PROVE  /\ Null \notin KFrame /\ Null \notin UFrame
         /\ KFree # {} => palloc(KFree) \in KFree
         /\ UFree # {} => palloc(UFree) \in UFree
<1> QED BY Sizes, HasLeast DEF palloc, KFree, UFree, KFrame, UFrame, Null

\* A page of the kernel gets a frame.
LEMMA KernelPageAdded ==
  ASSUME Leasts, KernelMem, NEW v \in KPage, kpt[v] = Null, KFree # {},
         kernel_pool' = kernel_pool \cup {palloc(KFree)},
         kpt' = [kpt EXCEPT ![v] = palloc(KFree)],
         kernel_vaddr' \subseteq KPage, kernel_vaddr \cup {v} \subseteq kernel_vaddr',
         pde' = pde
  PROVE  KernelMem'
<1> DEFINE f == palloc(KFree)
<1>1. f \in KFrame /\ f \notin kernel_pool /\ Null \notin KFrame
  BY Palloc DEF KFree
<1> HIDE DEF f
<1>2. KernelTypes'
  BY <1>1 DEF KernelMem, KernelTypes, f
<1> QED BY <1>1, <1>2 DEF KernelMem, KernelFrames, KernelTypes, f

\* A page table gets a frame.
LEMMA TableAdded ==
  ASSUME Leasts, KernelMem, NEW p \in Proc, NEW d \in Pde, pde[p][d] = Null, KFree # {},
         kernel_pool' = kernel_pool \cup {palloc(KFree)},
         pde' = [pde EXCEPT ![p][d] = palloc(KFree)],
         kpt' = kpt, kernel_vaddr' = kernel_vaddr
  PROVE  KernelMem'
<1> DEFINE f == palloc(KFree)
<1>1. f \in KFrame /\ f \notin kernel_pool /\ Null \notin KFrame
  BY Palloc DEF KFree
<1> HIDE DEF f
<1> QED BY <1>1 DEF KernelMem, KernelFrames, KernelTypes, f

\* mfree_page of pages of the kernel
LEMMA KernelPagesFreed ==
  ASSUME KernelMem, NEW S, S \subseteq KPage, mfree_kernel(S, {}), pde' = pde
  PROVE  KernelMem'
<1> QED BY DEF KernelMem, KernelFrames, KernelTypes, mfree_kernel, bitmap_clear

\* release_prog_resource, as far as the kernel pool
LEMMA TablesFreed ==
  ASSUME KernelMem, NEW S, S \subseteq KPage, NEW p \in Proc, mfree_kernel(S, Tables(p)),
         pde' = [pde EXCEPT ![p] = [d \in Pde |-> Null]]
  PROVE  KernelMem'
<1> QED BY DEF KernelMem, KernelFrames, mfree_kernel, bitmap_clear, Tables, KernelTypes

\* A page of a process gets a frame.
LEMMA UserPageAdded ==
  ASSUME Leasts, UserMem, NEW p \in Proc, NEW v \in VPage, pt[p][v] = Null, UFree # {},
         user_pool' = user_pool \cup {palloc(UFree)},
         pt' = [pt EXCEPT ![p][v] = palloc(UFree)],
         vaddr' \in [Proc -> SUBSET VPage], v \in vaddr'[p],
         \A q \in Proc : vaddr[q] \subseteq vaddr'[q]
  PROVE  UserMem'
<1> DEFINE f == palloc(UFree)
<1>1. f \in UFrame /\ f \notin user_pool /\ Null \notin UFrame
  BY Palloc DEF UFree
<1> HIDE DEF f
<1>2. UserTypes'
  BY <1>1, Zenon DEF UserMem, UserTypes, f
<1> QED BY <1>1, <1>2 DEF UserMem, UserFrames, UserTypes, f

\* Pages of a process lose their frames.
LEMMA UserPagesFreed ==
  ASSUME UserMem, NEW p \in Proc, NEW S, S \subseteq VPage,
         \A f : f \in user_pool' <=> f \in user_pool /\ ~\E v \in S : f = pt[p][v],
         pt' = [pt EXCEPT ![p] = [v \in VPage |-> IF v \in S THEN Null ELSE pt[p][v]]],
         vaddr' \in [Proc -> SUBSET VPage],
         \A q \in Proc : \A v \in vaddr[q] : v \in vaddr'[q] \/ (q = p /\ v \in S)
  PROVE  UserMem'
<1>1. UserTypes'
  <2>1. [v \in VPage |-> IF v \in S THEN Null ELSE pt[p][v]] \in [VPage -> UFrame \cup {Null}]
    BY DEF UserMem, UserTypes
  <2> QED BY <2>1, Zenon DEF UserMem, UserTypes
<1> QED BY <1>1 DEF UserMem, UserFrames, UserTypes

-----------------------------------------------------------------------------
(* The inductive invariant.                                                  *)

Mapped(p) == {v \in VPage : pt[p][v] # Null}
Fresh(p) == \A v \in VPage : pt[p][v] = Null
Run(b) == b[1]..(b[1] + b[2] - 1)

Owned == [pcb : SUBSET KPage, buf : SUBSET KPage, bits : SUBSET KPage, dir : SUBSET KPage]

ProcTypes ==
  /\ status \in [Proc -> {"none", "making", "ready", "live", "zombie", "gone", "lost"}]
  /\ own \in [Proc -> Owned]
  /\ blocks \in [Proc -> SUBSET (VPage \X MallocPages)]

UseTypes ==
  /\ idle \subseteq KPage /\ heap \subseteq KPage
  /\ lock \in Proc \cup {Null} /\ waits \subseteq Proc /\ short \subseteq Proc
  /\ kernel \in {"up", "panic", "fault", "torn"}

Calls == [at : {"idle", "pcb", "buf", "bits", "map", "dir", "idle thread", "copy", "load", "malloc"},
          p : Proc \cup {Null}, c : Proc \cup {Null}, todo : SUBSET Nat, got : SUBSET (Nat \X Nat)]

RestTypes == ProcTypes /\ UseTypes /\ call \in Calls

\* Who takes part in a call: a process that is alive and does not wait for the
\* lock, and the child that is made, which has no page before "copy".
CallInv ==
  /\ call.p # Null => status[call.p] = "live" /\ call.p \notin waits
  /\ call.at \in {"buf", "copy", "load", "malloc"} => call.p # Null
  /\ call.at \in {"pcb", "buf", "bits", "map", "dir", "copy"} =>
       call.c # Null /\ status[call.c] = "making"
  /\ call.at \in {"pcb", "buf", "bits", "map", "dir"} => Fresh(call.c)
  /\ call.at \in {"map", "dir", "copy"} => own[call.c].bits # {}

\* What is left of it: pages that are marked, or are being, and have no frame.
PageOf(b) == b \div PgSize

MapTodo ==
  call.at = "map" =>
    /\ call.todo # {}
    /\ \A v \in call.todo : v \in KPage /\ kpt[v] = Null /\ v \in kernel_vaddr

CopyTodo ==
  /\ call.at \in {"dir", "copy"} =>
       vaddr[call.c] = IF call.p = Null THEN {} ELSE vaddr[call.p]
  /\ call.at = "copy" =>
       /\ \A v \in call.todo : v \in vaddr[call.c] /\ pt[call.c][v] = Null
       /\ \A v \in vaddr[call.c] : v \in call.todo \/ pt[call.c][v] # Null

LoadTodo ==
  call.at = "load" =>
    /\ \A v \in call.todo : v \in VPage /\ pt[call.p][v] = Null
    /\ StackPage \in vaddr[call.p] \/ call.todo = {StackPage}
    /\ \A s \in call.got : \A b \in Run(s) :
         PageOf(b) \in VPage /\ (PageOf(b) \in call.todo \/ pt[call.p][PageOf(b)] # Null)

MallocTodo ==
  call.at = "malloc" =>
    /\ \A v \in call.todo : v \in VPage /\ pt[call.p][v] = Null /\ v \in vaddr[call.p]
    /\ \E b \in VPage \X MallocPages :
         /\ call.got = {b}
         /\ \A v \in Run(b) :
              /\ v \in VPage /\ v # StackPage
              /\ v \in call.todo \/ pt[call.p][v] # Null
              /\ \A x \in blocks[call.p] : v \notin Run(x)

TodoInv == MapTodo /\ CopyTodo /\ LoadTodo /\ MallocTodo

\* Bitmap and page table of a process, and its blocks.
MadeInv ==
  /\ \A p \in Proc : status[p] \in {"none", "ready"} => Fresh(p)
  /\ \A p \in Proc : status[p] = "ready" => vaddr[p] = {}
  /\ \A p \in Proc : status[p] \in {"ready", "live"} => own[p].bits # {}
  /\ \A p \in Proc : p \in waits => status[p] = "live"

StackInv ==
  \A p \in Proc : status[p] = "live" /\ p \notin waits /\ ~(call.at = "load" /\ call.p = p) =>
    StackPage \in vaddr[p]

FullInv ==
  \A p \in Proc : status[p] = "live" =>
    \/ p \in short
    \/ \A v \in vaddr[p] : pt[p][v] # Null \/ (call.at = "malloc" /\ call.p = p /\ v \in call.todo)

BlocksInv ==
  \A p \in Proc : \A b \in blocks[p] : \A v \in Run(b) :
    /\ v \in VPage /\ v # StackPage /\ pt[p][v] # Null
    /\ \A x \in blocks[p] : v \in Run(x) => x = b

MarkInv == MadeInv /\ StackInv /\ FullInv /\ BlocksInv

\* Boot has all the pages it asks for.
BootInv ==
  /\ call.at = "pcb" => kernel_vaddr = {} /\ kernel_pool = {}
  /\ call.p = Null =>
       /\ call.at = "bits" => kernel_vaddr \subseteq {0}
       /\ call.at \in {"map", "dir"} => kernel_vaddr \subseteq 0..MapPages
  /\ call.at = "idle thread" => kernel_vaddr \subseteq 0..(MapPages + 1)

PagesInv ==
  Leasts /\ KernelMem /\ UserMem /\ RestTypes /\ CallInv /\ TodoInv /\ MarkInv /\ BootInv /\ StopsExplained

\* A step that touches nothing of the kernel's memory keeps KernelMem.
LEMMA KernelMemSame ==
  ASSUME KernelMem, UNCHANGED <<kernel_pool, kernel_vaddr, kpt, pde>> PROVE KernelMem'
<1> QED BY DEF KernelMem, KernelFrames, KernelTypes

\* The same for the memory of the processes.
LEMMA UserMemSame == ASSUME UserMem, UNCHANGED <<user_pool, vaddr, pt>> PROVE UserMem'
  BY DEF UserMem, UserTypes, UserFrames

\* get_kernel_page
LEMMA GetKernelPage ==
  ASSUME Leasts, KernelMem, get_kernel_page, pde' = pde
  PROVE  /\ KernelMem'
         /\ KFirst # -1 => KFirst \in KPage /\ KFirst \notin kernel_vaddr
         /\ kernel_vaddr' = kernel_vaddr \cup (IF KFirst = -1 THEN {} ELSE {KFirst})
         /\ \A v \in KPage : kpt'[v] # Null <=> kpt[v] # Null \/ (HasKPage /\ v = KFirst)
<1>1. ASSUME KFirst # -1 PROVE KFirst \in KPage /\ KFirst \notin kernel_vaddr
  BY PagesAssumption, Sizes, <1>1, RunIsFree DEF KPages, KFirst, KPage
<1>2. CASE HasKPage
  BY <1>2, <1>1, KernelPageAdded, Palloc DEF HasKPage, get_kernel_page, bitmap_set, KernelMem,
     KernelFrames, KernelTypes, KFree
<1>3. CASE ~HasKPage
  BY <1>3, <1>1 DEF get_kernel_page, bitmap_set, KernelMem, KernelTypes, KernelFrames
<1> QED BY <1>2, <1>3

\* Steps that leave the processes that live alone
LEMMA MarkInvKept ==
  ASSUME MarkInv, UNCHANGED <<pt, blocks, waits, short>>,
         \A q \in Proc : status'[q] \in {"none", "ready", "live"} =>
           status'[q] = status[q] /\ vaddr'[q] = vaddr[q] /\ own'[q].bits = own[q].bits,
         \A q \in Proc : status[q] = "live" => status'[q] = "live",
         call.at \notin {"load", "malloc"}, call'.at \notin {"load", "malloc"}
  PROVE  MarkInv'
<1> QED BY DEF MarkInv, BlocksInv, FullInv, StackInv, MadeInv, Fresh

\* A kernel that runs on, with lock, waits and short as they were, needs no
\* new explanation.
LEMMA StopsSame ==
  ASSUME StopsExplained, kernel = "up", UNCHANGED <<kernel, lock, waits, short>>
  PROVE  StopsExplained'
  BY DEF StopsExplained

\* Types of what most steps leave alone.
LEMMA UseTypesSame ==
  ASSUME UseTypes, UNCHANGED <<idle, heap, lock, waits, short, kernel>>
  PROVE  UseTypes'
  BY DEF UseTypes

\* Null is no process.
LEMMA NullNoProc == Null \notin Proc
  BY DEF Null, Proc

\* A field of what the process c has changes.
Changed(c, pcb, buf, bits, dir) ==
  /\ own' \in [Proc -> Owned]
  /\ own'[c].pcb = pcb /\ own'[c].buf = buf /\ own'[c].bits = bits /\ own'[c].dir = dir
  /\ \A q \in Proc : q # c => own'[q] = own[q]

\* An assignment to one field of own[c] changes just that field.
LEMMA OwnChanges ==
  ASSUME own \in [Proc -> Owned], NEW c \in Proc, NEW S, S \subseteq KPage
  PROVE  /\ own' = [own EXCEPT ![c].pcb = S] =>
              Changed(c, S, own[c].buf, own[c].bits, own[c].dir)
         /\ own' = [own EXCEPT ![c].buf = S] =>
              Changed(c, own[c].pcb, S, own[c].bits, own[c].dir)
         /\ own' = [own EXCEPT ![c].bits = S] =>
              Changed(c, own[c].pcb, own[c].buf, S, own[c].dir)
         /\ own' = [own EXCEPT ![c].dir = S] =>
              Changed(c, own[c].pcb, own[c].buf, own[c].bits, S)
<1>1. own[c] \in Owned
  OBVIOUS
<1>2. /\ [own[c] EXCEPT !.pcb = S] \in Owned /\ [own[c] EXCEPT !.buf = S] \in Owned
      /\ [own[c] EXCEPT !.bits = S] \in Owned /\ [own[c] EXCEPT !.dir = S] \in Owned
  BY <1>1 DEF Owned
<1>3. ASSUME own' = [own EXCEPT ![c].pcb = S] PROVE Changed(c, S, own[c].buf, own[c].bits, own[c].dir)
  BY <1>2, <1>3, <1>1, Zenon DEF Changed, Owned
<1>4. ASSUME own' = [own EXCEPT ![c].buf = S] PROVE Changed(c, own[c].pcb, S, own[c].bits, own[c].dir)
  BY <1>2, <1>4, <1>1, Zenon DEF Changed, Owned
<1>5. ASSUME own' = [own EXCEPT ![c].bits = S] PROVE Changed(c, own[c].pcb, own[c].buf, S, own[c].dir)
  BY <1>2, <1>5, <1>1, Zenon DEF Changed, Owned
<1>6. ASSUME own' = [own EXCEPT ![c].dir = S] PROVE Changed(c, own[c].pcb, own[c].buf, own[c].bits, S)
  BY <1>2, <1>6, <1>1, Zenon DEF Changed, Owned
<1> QED BY <1>3, <1>4, <1>5, <1>6, Zenon

\* When a call ends nothing is left to be said about it.
LEMMA IdleCall ==
  ASSUME call' = Idle PROVE call' \in Calls /\ CallInv' /\ TodoInv' /\ BootInv'
<1> QED BY DEF Idle, BootInv, CallInv, TodoInv, MapTodo, CopyTodo, LoadTodo, MallocTodo, Calls

\* What a call has left depends on where it is.
LEMMA OnlyTodo ==
  /\ MapTodo' /\ call'.at = "map" => TodoInv'
  /\ CopyTodo' /\ call'.at \in {"dir", "copy"} => TodoInv'
  /\ LoadTodo' /\ call'.at = "load" => TodoInv'
  /\ MallocTodo' /\ call'.at = "malloc" => TodoInv'
  /\ call'.at \in {"idle", "pcb", "buf", "bits", "idle thread"} => TodoInv'
  BY Zenon DEF TodoInv, MapTodo, CopyTodo, LoadTodo, MallocTodo

\* Nothing changes, or only what the kernel is.
LEMMA AllSame ==
  ASSUME PagesInv, kernel' \in {"up", "panic", "fault", "torn"},
         UNCHANGED <<kernel_pool, kernel_vaddr, kpt, user_pool, vaddr, pt, pde, status, own, idle, heap,
                     blocks, lock, waits, call, short>>,
         StopsExplained'
  PROVE  PagesInv'
<1> USE DEF PagesInv
<1>1. RestTypes'
  BY DEF RestTypes, ProcTypes, UseTypes
<1>2. CallInv' /\ TodoInv'
  <2>1. CallInv' /\ MapTodo' /\ CopyTodo'
    BY Zenon DEF CallInv, TodoInv, MapTodo, CopyTodo, Fresh
  <2>2. LoadTodo' /\ MallocTodo'
    BY Zenon DEF TodoInv, LoadTodo, MallocTodo
  <2> QED BY <2>1, <2>2, Zenon DEF TodoInv
<1>3. BootInv'
  BY Zenon DEF BootInv
<1>4. MarkInv'
  BY DEF MarkInv, MadeInv, StackInv, FullInv, BlocksInv, Fresh
<1> QED BY UserMemSame, KernelMemSame, <1>1, <1>2, <1>3, <1>4, Zenon DEF Leasts

\* A step that changes nothing keeps the invariant.
LEMMA StutterInv == ASSUME PagesInv, UNCHANGED pagesVars PROVE PagesInv'
<1>1. UNCHANGED <<kernel_pool, kernel_vaddr, kpt, user_pool, vaddr, pt, pde, status, own, idle, heap,
                  blocks, lock, waits, call, short, kernel>>
  BY DEF pagesVars, kmem, umem
<1>2. kernel' \in {"up", "panic", "fault", "torn"} /\ StopsExplained'
  BY <1>1 DEF PagesInv, RestTypes, UseTypes, StopsExplained, KFree, UFree
<1> QED BY <1>1, <1>2, AllSame

\* Stops keeps the invariant if there is a reason for it.
LEMMA StopsInv ==
  ASSUME PagesInv, NEW why \in {"panic", "fault", "torn"}, Stops(why),
         why = "panic" => call.at = "load" /\ 0 \in call.todo,
         why = "fault" => call.at = "copy" /\ (call.p \in short \/ UFree = {}),
         why = "torn" => KFree = {}
  PROVE  PagesInv'
<1> QED BY AllSame, Zenon DEF StopsExplained, PagesInv, KFree, UFree, Stops, kmem, umem

\* Waits keeps the invariant: the caller waits for a lock another has kept.
LEMMA WaitsInv ==
  ASSUME PagesInv, NEW p \in Proc, Locked(p), Waits(p), kernel = "up", status[p] = "live",
         (call.at \in {"load", "copy"} /\ call.p = p) \/ call.at = "idle"
  PROVE  PagesInv'
<1> USE NullNoProc DEF PagesInv
<1>0. /\ waits' = waits \cup {p} /\ call' = Idle
      /\ UNCHANGED <<kernel_pool, kernel_vaddr, kpt, user_pool, vaddr, pt, pde, status, own, idle, heap,
                     blocks, lock, short, kernel>>
  BY Zenon DEF Waits, kmem, umem
<1>1. call' \in Calls /\ CallInv' /\ TodoInv' /\ BootInv'
  BY <1>0, IdleCall
<1>2. RestTypes'
  BY <1>0, <1>1, Zenon DEF RestTypes, ProcTypes, UseTypes
<1>3. MadeInv'
  BY <1>0 DEF MarkInv, MadeInv, Fresh
<1> QED BY UserMemSame, KernelMemSame, <1>0, <1>1, <1>2, <1>3 DEF MarkInv, Leasts, StopsExplained,
     Locked, FullInv, Idle, StackInv, BlocksInv

\* A page of a process has an entry in its page directory.
LEMMA EntryOf == ASSUME NEW v \in VPage PROVE v \div PtePer \in Pde
<1>1. ASSUME NEW a \in Nat, NEW b \in Nat, NEW n \in Nat \ {0}, a <= b
      PROVE  a \div n \in 0..(b \div n)
  BY <1>1, SMT
<1> QED BY Sizes, <1>1 DEF Pde, VPage

\* page_table_add gives page v of q a frame, and a page table if it needs one.
LEMMA PageTableAdd ==
  ASSUME Leasts, KernelMem, UserMem, NEW q \in Proc, NEW v \in VPage, pt[q][v] = Null, UFree # {},
         ~NoTable(q, v), page_table_add(q, v),
         vaddr' \in [Proc -> SUBSET VPage], v \in vaddr'[q],
         \A r \in Proc : vaddr[r] \subseteq vaddr'[r]
  PROVE  /\ KernelMem' /\ UserMem' /\ kernel' = kernel
         /\ pt'[q][v] # Null
         /\ \A r \in Proc : \A w \in VPage : (r # q \/ w # v) => pt'[r][w] = pt[r][w]
<1> DEFINE d == v \div PtePer
<1>1. KernelMem'
  <2>1. kpt' = kpt /\ kernel_vaddr' = kernel_vaddr
    BY DEF page_table_add
  <2>2. CASE pde[q][d] = Null
    BY EntryOf, <2>2, TableAdded, Zenon DEF page_table_add, NoTable
  <2>3. CASE pde[q][d] # Null
    BY <2>3 DEF page_table_add, KernelMem, KernelTypes, KernelFrames
  <2> QED BY <2>2, <2>3
<1> QED BY UserPageAdded, Palloc, <1>1, Zenon DEF UserMem, UserTypes, page_table_add

\* segment_load goes through pages of the process, and through all that the
\* segment has bytes in.
LEMMA SegmentPages ==
  ASSUME NEW s \in Segments
  PROVE  /\ segment_pages(s) \subseteq VPage
         /\ \A b \in Run(s) : PageOf(b) \in segment_pages(s)
<1> DEFINE n == PgSize
           a == s[1]
           z == s[2]
           first == a \div n
           m == a % n
           x == z - (n - m)
           k == (x + n - 1) \div n
<1>1. n \in Nat \ {0} /\ a \in Nat /\ z \in Nat /\ a < n * VPages /\ a + z <= n * VPages /\ VPages \in Nat
  BY PagesAssumption, ByteAssumption, Sizes DEF VPages
<1>2. first \in Nat /\ m \in Nat /\ m < n /\ a = n * first + m
  BY <1>1, DivMod, Zenon
<1>3. segment_pages(s) = first..(first + (IF z > n - m THEN k + 1 ELSE 1) - 1)
  BY DEF segment_pages
<1> HIDE DEF n, a, z, first, m, k
<1>4. VPage = 0..(VPages - 1) /\ Run(s) = a..(a + z - 1)
  BY DEF VPage, Run, a, z
<1>5. first < VPages
  BY <1>1, DivBounds DEF first
<1>6. \A b \in Run(s) : b \in Nat /\ first <= b \div n /\ b \div n \in Nat
  <2> SUFFICES ASSUME NEW b \in Run(s) PROVE b \in Nat /\ first <= b \div n /\ b \div n \in Nat
    OBVIOUS
  <2> QED BY <1>4, <1>1, <1>2, DivBounds, DivMod
<1>7. CASE ~(z > n - m)
  <2>1. segment_pages(s) = first..first
    BY <1>2, <1>3, <1>7
  <2>2. ASSUME NEW b \in Run(s) PROVE b \div n < first + 1
    <3>1. b \in Nat /\ b < n * (first + 1)
      BY <1>1, <1>2, <1>4, <1>7
    <3> QED BY <1>1, <1>2, <3>1, DivBounds
  <2>3. \A b \in Run(s) : PageOf(b) \in segment_pages(s)
    BY <1>2, <1>6, <2>1, <2>2 DEF n, PageOf
  <2> QED BY <1>2, <1>4, <1>5, <2>1, <2>3, Sizes
<1>8. CASE z > n - m
  <2>1. x \in Nat /\ x + n - 1 \in Nat /\ x = z - n + m
    BY <1>1, <1>2, <1>8
  <2>2. k \in Nat /\ n * k <= x + n - 1 /\ x <= n * k
    <3> DEFINE u == (x + n - 1) % n
    <3>1. k \in Nat /\ u \in Nat /\ u < n /\ x + n - 1 = n * k + u
      BY <1>1, <2>1, DivMod, Zenon DEF k
    <3> HIDE DEF u, x
    <3> QED BY <1>1, <2>1, <3>1
  <2> HIDE DEF x
  <2>3. segment_pages(s) = first..(first + k)
    BY <1>2, <1>3, <1>8, <2>2
  <2>4. first + k < VPages
    BY <1>1, <1>2, <2>2, <2>1, MulLess
  <2>5. ASSUME NEW b \in Run(s) PROVE b \div n < first + k + 1
    <3>1. b \in Nat /\ b < n * (first + k + 1)
      BY <1>1, <1>2, <1>4, <2>1, <2>2
    <3> QED BY <1>1, <1>2, <2>2, <3>1, DivBounds
  <2>6. \A b \in Run(s) : PageOf(b) \in segment_pages(s)
    BY <1>2, <1>6, <2>2, <2>3, <2>5 DEF n, PageOf
  <2> QED BY <1>2, <1>4, <2>2, <2>3, <2>4, <2>6, Sizes
<1> QED BY <1>7, <1>8

-----------------------------------------------------------------------------
(* The first pages of a process that is made.                               *)

\* The first page after those that are in use.
LEMMA NextPage ==
  ASSUME Leasts, NEW n \in Nat, n < KPages, n \notin kernel_vaddr
  PROVE  KFirst \in Nat /\ KFirst <= n
<1> QED BY PagesAssumption, Sizes, RunIsFirst, RunIsFree DEF KFirst, KPages

\* The pcb of the first process is page 0, so boot does not fail here.
LEMMA process_executeInv == ASSUME PagesInv, process_execute PROVE PagesInv'
<1> USE NullNoProc DEF PagesInv
<1>1. /\ call.at = "pcb" /\ kernel = "up" /\ get_kernel_page
      /\ own' = [own EXCEPT ![call.c].pcb = {KFirst}]
      /\ call' = [call EXCEPT !.at = "bits"]
  BY DEF process_execute, InCall, Child
<1>2. /\ UNCHANGED <<user_pool, vaddr, pt, pde>>
      /\ UNCHANGED <<status, idle, heap, blocks, lock, waits, short, kernel>>
  BY DEF process_execute, umem
<1>3. call.c \in Proc /\ status[call.c] = "making" /\ Fresh(call.c)
  BY <1>1, Zenon DEF CallInv, RestTypes, Calls
<1>4. KFirst = 0
  BY <1>1, Sizes, NextPage DEF BootInv
<1>5. KernelMem' /\ {KFirst} \subseteq KPage /\ kernel_vaddr' = kernel_vaddr \cup {KFirst}
  BY <1>1, <1>2, <1>4, GetKernelPage
<1>6. UserMem'
  BY <1>2, UserMemSame
<1>7. Changed(call.c, {KFirst}, own[call.c].buf, own[call.c].bits, own[call.c].dir)
  BY <1>1, <1>3, <1>5, OwnChanges, Zenon DEF RestTypes, ProcTypes
<1>8. own' \in [Proc -> Owned] /\ \A q \in Proc : own'[q].bits = own[q].bits
  BY <1>3, <1>7, Zenon DEF Changed
<1>9. call' \in Calls /\ call'.at = "bits" /\ call'.p = call.p /\ call'.c = call.c
  BY <1>1, Zenon DEF RestTypes, Calls
<1>10. RestTypes'
  BY <1>2, <1>8, <1>9, UseTypesSame, Zenon DEF RestTypes, ProcTypes
<1>11. CallInv'
  BY <1>1, <1>2, <1>3, <1>9 DEF CallInv, Fresh
<1>12. MarkInv'
  BY <1>1, <1>2, <1>8, <1>9, MarkInvKept, Zenon
<1>13. BootInv'
  BY <1>1, <1>4, <1>5, <1>9 DEF BootInv
<1>14. StopsExplained'
  BY <1>1, <1>2, StopsSame
<1> QED BY <1>9, <1>5, <1>6, <1>10, <1>11, <1>12, <1>13, <1>14, OnlyTodo DEF Leasts

\* The pcb of a child; without a page for it nothing is left behind.
LEMMA sys_forkInv == ASSUME PagesInv, NEW p \in Proc, sys_fork(p) PROVE PagesInv'
<1> USE NullNoProc DEF PagesInv
<1>1. call = Idle /\ kernel = "up" /\ get_kernel_page /\ status[p] = "live" /\ p \notin waits
  BY DEF sys_fork, AtUser
<1>2. /\ UNCHANGED <<user_pool, vaddr, pt, pde>>
      /\ UNCHANGED <<idle, heap, blocks, lock, waits, short, kernel>>
  BY DEF sys_fork, umem
<1>3. PICK c \in Proc : c = Least(Unused) /\ status[c] = "none"
  <2>1. Unused # {}
    BY Zenon DEF sys_fork
  <2>2. Unused \subseteq Nat
    BY DEF Unused, Proc
  <2> QED BY <2>1, <2>2, HasLeast DEF Unused
<1>4. KernelMem' /\ (HasKPage => {KFirst} \subseteq KPage)
  BY <1>1, <1>2, GetKernelPage DEF HasKPage
<1>5. UserMem'
  BY <1>2, UserMemSame
<1>6. StopsExplained'
  BY <1>1, <1>2, StopsSame
<1>7. call.at = "idle"
  BY <1>1 DEF Idle
<1>8. CASE HasKPage
  <2>1. /\ own' = [own EXCEPT ![c].pcb = {KFirst}]
        /\ status' = [status EXCEPT ![c] = "making"]
        /\ call' = [at |-> "buf", p |-> p, c |-> c, todo |-> {}, got |-> {}]
    BY <1>3, <1>8, Zenon DEF sys_fork, Idle
  <2>2. Changed(c, {KFirst}, own[c].buf, own[c].bits, own[c].dir)
    BY <1>3, <1>4, <1>8, <2>1, OwnChanges, Zenon DEF RestTypes, ProcTypes
  <2>3. own' \in [Proc -> Owned] /\ \A q \in Proc : own'[q].bits = own[q].bits
    BY <1>3, <2>2 DEF Changed
  <2>4. call' \in Calls /\ call'.at = "buf" /\ call'.p = p /\ call'.c = c
    BY <1>3, <2>1 DEF Calls
  <2>5. status'[c] = "making" /\ \A q \in Proc : q # c => status'[q] = status[q]
    BY <1>3, <2>1 DEF RestTypes, ProcTypes
  <2>6. RestTypes'
    BY <1>2, <2>1, <2>3, <2>4, UseTypesSame, Zenon DEF RestTypes, ProcTypes
  <2>7. CallInv'
    <3>1. Fresh(c)
      BY <1>3, Zenon DEF MarkInv, MadeInv
    <3> QED BY <1>1, <1>2, <2>4, <2>5, <1>3, <3>1 DEF Fresh, CallInv
  <2>8. MarkInv'
    BY <1>2, <1>3, <1>7, <2>3, <2>4, <2>5, MarkInvKept, Zenon
  <2> QED BY <2>4, <1>4, <1>5, <1>6, <2>6, <2>7, <2>8, OnlyTodo, Zenon DEF Leasts, BootInv
<1>9. CASE ~HasKPage
  <2>1. UNCHANGED <<status, own>> /\ call' = Idle
    BY <1>1, <1>9 DEF sys_fork
  <2>2. call' \in Calls /\ CallInv' /\ TodoInv' /\ BootInv' /\ call'.at = "idle"
    BY <2>1, IdleCall, Zenon DEF Idle
  <2>3. RestTypes'
    BY <1>2, <2>1, <2>2, UseTypesSame, Zenon DEF RestTypes, ProcTypes
  <2>4. MarkInv'
    BY <1>2, <1>7, <2>1, <2>2, MarkInvKept, Zenon
  <2> QED BY <1>4, <1>5, <1>6, <2>2, <2>3, <2>4, Zenon DEF Leasts
<1> QED BY <1>8, <1>9

\* A fork that fails leaves the child behind.
LEMMA ForkFailsInv ==
  ASSUME PagesInv, KernelMem', UserMem', call.at \in {"buf", "bits", "map", "dir"}, kernel = "up",
         ForkFails,
         UNCHANGED <<vaddr, pt, own, idle, heap, blocks, lock, waits, short, kernel>>
  PROVE  PagesInv'
<1> USE NullNoProc DEF PagesInv
<1>1. call.c \in Proc /\ status[call.c] = "making"
  BY Zenon DEF CallInv, RestTypes, Calls
<1> QED BY IdleCall, UseTypesSame, <1>1, MarkInvKept, StopsSame, Zenon DEF Leasts, RestTypes, ProcTypes,
     ForkFails, Child, Idle

\* The buffer of a fork.
LEMMA copy_processInv == ASSUME PagesInv, copy_process PROVE PagesInv'
<1> USE NullNoProc DEF PagesInv
<1>1. call.at = "buf" /\ kernel = "up" /\ get_kernel_page
  BY DEF copy_process, InCall
<1>2. /\ UNCHANGED <<user_pool, vaddr, pt, pde>>
      /\ UNCHANGED <<idle, heap, blocks, lock, waits, short, kernel>>
  BY DEF copy_process, umem
<1>3. call.c \in Proc /\ call.p # Null
  BY <1>1, Zenon DEF CallInv, RestTypes, Calls
<1>4. KernelMem' /\ (HasKPage => {KFirst} \subseteq KPage)
  BY <1>1, <1>2, GetKernelPage DEF HasKPage
<1>5. UserMem'
  BY <1>2, UserMemSame
<1>6. CASE HasKPage
  <2>1. /\ own' = [own EXCEPT ![call.c].buf = {KFirst}]
        /\ status' = status /\ call' = [call EXCEPT !.at = "bits"]
    BY <1>6 DEF copy_process, Child
  <2>2. Changed(call.c, own[call.c].pcb, {KFirst}, own[call.c].bits, own[call.c].dir)
    BY <1>3, <1>4, <1>6, <2>1, OwnChanges, Zenon DEF RestTypes, ProcTypes
  <2>3. own' \in [Proc -> Owned] /\ \A q \in Proc : own'[q].bits = own[q].bits
    BY <1>3, <2>2, Zenon DEF Changed
  <2>4. call' \in Calls /\ call'.at = "bits" /\ call'.p = call.p /\ call'.c = call.c
    BY <2>1, Zenon DEF RestTypes, Calls
  <2>5. RestTypes'
    BY <1>2, <2>1, <2>3, <2>4, UseTypesSame, Zenon DEF RestTypes, ProcTypes
  <2>6. CallInv'
    BY <1>1, <1>2, <2>1, <2>4 DEF CallInv, Fresh
  <2>7. MarkInv'
    BY <1>1, <1>2, <2>1, <2>3, <2>4, MarkInvKept, Zenon
  <2>8. StopsExplained'
    BY <1>1, <1>2, StopsSame
  <2> QED BY <1>3, <2>4, <1>4, <1>5, <2>5, <2>6, <2>7, <2>8, OnlyTodo, Zenon DEF Leasts, BootInv
<1>7. CASE ~HasKPage
  BY <1>7, <1>1, <1>2, <1>4, <1>5, ForkFailsInv, Zenon DEF copy_process
<1> QED BY <1>6, <1>7
=============================================================================
