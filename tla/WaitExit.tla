------------------------------ MODULE WaitExit ------------------------------
(***************************************************************************)
(* The life of a process: sys_fork (userprog/fork.c), sys_wait and sys_exit *)
(* (userprog/wait_exit.c), thread_exit (thread/thread.c) and the init      *)
(* process (kernel/main.c).                                                *)
(*                                                                         *)
(* A PCB is named by its pid.  allocate_pid counts up and new PCBs are     *)
(* appended to thread_all_list, so the list is ordered by pid and          *)
(* list_traversal finds the smallest one that matches.  A system call runs *)
(* with interrupts off and is one step up to the point where it blocks.    *)
(***************************************************************************)
EXTENDS Thread, Integers

CONSTANTS
  MaxPid,      \* bound: no more than MaxPid - 3 forks
  PgSize,      \* PG_SIZE
  BtmpBytes,   \* btmp_bytes_len, the length of a user address bitmap
  KernelPages, \* size of the kernel pool, in pages
  Taken        \* pages the rest of the kernel may have taken from it

ASSUME WaitExitAssumption ==
  /\ MaxPid \in Nat /\ Thread = 1..MaxPid
  /\ InitProc = 1 /\ Main = 2 /\ Idle = 3
  /\ PgSize \in Nat \ {0} /\ BtmpBytes \in Nat \ {0}
  /\ KernelPages \in Nat /\ Taken \subseteq Nat
  /\ \A n \in Taken : KernelPages > n + 2 * (BtmpBytes \div PgSize + 3)

Shell == 4   \* forked by init, loops for ever in my_shell

VARIABLES
  parent,       \* TaskStruct.parent_pid, -1 for the threads of boot
  next_pid,     \* allocate_pid's counter
  pc,           \* "user" mode, inside sys_"wait", or in "io" of another call
  used          \* pages taken from the kernel pool

procVars == <<parent, next_pid, pc, used>>
weVars == <<threadVars, procVars>>

Live == {p \in Thread : status[p] # "DIED"}       \* thread_all_list
Children(p) == {c \in Live : parent[c] = p}       \* find_child
HangingChildren(p) == {c \in Children(p) : status[c] = "HANGING"}

DIV_ROUND_UP(x, step) == (x + step - 1) \div step

\* Kernel pages of a process: PCB, page directory, address bitmap.
BitmapPages == DIV_ROUND_UP(BtmpBytes, PgSize)
ProcPages == 1 + 1 + BitmapPages

\* bitmap_pg_cnt in release_prog_resource
ReleasedBitmapPages == BtmpBytes \div PgSize

\* thread_init; process_execute gave init its pages.
WEInit ==
  /\ ThreadInit
  /\ parent = [p \in Thread |-> -1]
  /\ next_pid = 3
  /\ pc = [p \in Thread |-> "user"]
  /\ \E n \in Taken : used = ProcPages + n

\* The running process is in user mode and about to make a system call.
InUser == kernel = "up" /\ cur \notin {Main, Idle} /\ pc[cur] = "user"

\* init forks the shell and from then on only waits; the shell never exits.
MayFork == cur = InitProc => next_pid < Shell
MayExit == cur \notin {InitProc, Shell}
MayWait == cur = InitProc => next_pid >= Shell

\* The calls of get_kernel_pages by sys_fork, in order: PCB, buffer, bitmap,
\* page directory.  A call that fails keeps the pages it already got, and
\* sys_fork returns without giving back those of the earlier calls.
ForkFits == used + ProcPages + 1 <= KernelPages

\* Only once PCB and buffer are there is a pid taken (copy_pcb_...).
ForkTakesPid == used + 2 <= KernelPages

\* sys_fork
sys_fork ==
  /\ InUser /\ MayFork /\ next_pid < MaxPid
  /\ LET child == next_pid + 1
     IN \/ /\ ForkFits
           /\ next_pid' = child
           /\ parent' = [parent EXCEPT ![child] = cur]
           /\ pc' = [pc EXCEPT ![child] = "user"]
           /\ used' = used + ProcPages      \* the buffer is freed again
           /\ status' = StartStatus(status, child)
           /\ ready' = AppendReady(ready, child)
           /\ ticks' = [ticks EXCEPT ![child] = Prio[child]]
           /\ AssertThat(child \notin Range(ready))
        \/ /\ ~ForkFits
           /\ next_pid' = IF ForkTakesPid THEN child ELSE next_pid
           /\ used' = KernelPages
           /\ UNCHANGED <<parent, pc, status, ready, ticks, kernel>>
  /\ UNCHANGED <<cur, intr>>

\* Mutants: the children of an exiting process are not given to init; the
\* parent is not woken.
NoAdoption(p) == parent
NeverWakes(p) == FALSE

\* init_adopt_a_child over thread_all_list
Adopted(p) == [c \in Thread |-> IF c \in Children(p) THEN InitProc ELSE parent[c]]

\* The parent is woken only if it is asleep in sys_wait.
WakesParent(p) == status[parent[p]] = "WAITING"

\* sys_exit: hand the children to init, release memory, wake the parent, hang.
\* pid2thread(parent_pid) is dereferenced without a test for NULL.
sys_exit ==
  /\ InUser /\ MayExit
  /\ LET par == parent[cur]
         wake == par # -1 /\ WakesParent(cur)
         st == IF wake THEN UnblockStatus(status, par) ELSE status
         rd == IF wake THEN UnblockReady(ready, par) ELSE ready
         ok == /\ par # -1 /\ status[par] # "DIED"
               /\ wake => UnblockOK(status, ready, par)
     IN thread_block(st, rd, ok, "HANGING")
  /\ parent' = Adopted(cur)
  /\ used' = used - ReleasedBitmapPages
  /\ intr' = [intr EXCEPT ![cur] = "off"]
  /\ UNCHANGED <<next_pid, pc>>

\* Mutant: the loop tests for a living child before it looks for a zombie.
ReapsIfAllHang(p) == HangingChildren(p) # {} /\ HangingChildren(p) = Children(p)

\* The first test of the loop in sys_wait.
Reaps(p) == HangingChildren(p) # {}

\* One round of the loop in sys_wait: reap the first zombie (thread_exit frees
\* page directory and PCB), fail without children, or sleep until a child
\* exits.
sys_wait ==
  /\ kernel = "up" /\ cur \notin {Main, Idle} /\ MayWait
  /\ pc[cur] \in {"user", "wait"}
  /\ \/ /\ Reaps(cur)
        /\ \E child \in HangingChildren(cur) :
              /\ \A c \in HangingChildren(cur) : child <= c
              /\ status' = [status EXCEPT ![child] = "DIED"]
              /\ ready' = IF child \in Range(ready)
                          THEN SelectSeq(ready, LAMBDA u : u # child)
                          ELSE ready
        /\ used' = used - 2
        /\ pc' = [pc EXCEPT ![cur] = "user"]
        /\ intr' = [intr EXCEPT ![cur] = "on"]
        /\ UNCHANGED <<cur, ticks, kernel>>
     \/ /\ ~Reaps(cur) /\ Children(cur) = {}
        /\ pc' = [pc EXCEPT ![cur] = "user"]
        /\ intr' = [intr EXCEPT ![cur] = "on"]
        /\ UNCHANGED <<status, ready, cur, ticks, kernel, used>>
     \/ /\ ~Reaps(cur) /\ Children(cur) # {}
        /\ thread_block(status, ready, TRUE, "WAITING")
        /\ pc' = [pc EXCEPT ![cur] = "wait"]
        /\ intr' = [intr EXCEPT ![cur] = "off"]
        /\ UNCHANGED used
  /\ UNCHANGED <<parent, next_pid>>

\* Other system calls sleep until an interrupt wakes the process (keyboard,
\* disk) and then return.
IoBlock ==
  /\ InUser /\ cur # InitProc
  /\ thread_block(status, ready, TRUE, "BLOCKED")
  /\ pc' = [pc EXCEPT ![cur] = "io"]
  /\ intr' = [intr EXCEPT ![cur] = "off"]
  /\ UNCHANGED <<parent, next_pid, used>>

IoReturn ==
  /\ kernel = "up" /\ pc[cur] = "io"
  /\ pc' = [pc EXCEPT ![cur] = "user"]
  /\ intr' = [intr EXCEPT ![cur] = "on"]
  /\ UNCHANGED <<status, ready, cur, ticks, kernel, parent, next_pid,
                 used>>

\* Interrupts, idle, and main, which sleeps for the disk while it boots and
\* turns interrupts on when it is done.
Background ==
  /\ \/ TimerIntr
     \/ IdleLoop
     \/ \E t \in Thread : status[t] = "BLOCKED" /\ Unblock(t)
     \/ cur = Main /\ SyscallExit
     \/ cur = Main /\ Block("BLOCKED")
  /\ UNCHANGED procVars

WENext ==
  \/ Background
  \/ sys_fork
  \/ sys_exit
  \/ sys_wait
  \/ IoBlock
  \/ IoReturn

WESafety == WEInit /\ [][WENext]_weVars

\* The timer ticks for ever (latched while interrupts are off), a process in
\* the kernel goes on when it has the CPU, init calls wait again and again,
\* the disk and the keyboard answer, and main finishes booting.
WEFairness ==
  /\ SF_weVars(TimerIntr /\ Background)
  /\ WF_weVars(IdleLoop /\ Background)
  /\ SF_weVars(cur = Main /\ SyscallExit /\ Background)
  /\ WF_weVars(Background /\ \E t \in Thread : status[t] = "BLOCKED" /\ Unblock(t))
  /\ SF_weVars(cur = InitProc /\ (sys_fork \/ sys_wait))
  /\ \A p \in Thread \ {InitProc} :
       SF_weVars(cur = p /\ ((pc[p] = "wait" /\ sys_wait) \/ IoReturn))

WESpec == WESafety /\ WEFairness

-----------------------------------------------------------------------------
(* Properties.                                                             *)

WETypeOK ==
  /\ ThreadTypeOK
  /\ parent \in [Thread -> Thread \cup {-1}]
  /\ next_pid \in 3..MaxPid
  /\ pc \in [Thread -> {"user", "wait", "io"}]
  /\ used \in 0..KernelPages

\* The parent of a process in thread_all_list is in that list too and has not
\* exited, although processes exit and are reaped in any order: sys_exit
\* dereferences pid2thread(parent_pid) without a test for NULL, and only a
\* living parent can reap the child.  No ASSERT fails on the way.
ParentLives ==
  /\ WETypeOK /\ NoPanic
  /\ \A p \in Live \ {InitProc, Main, Idle} :
       parent[p] \in Live /\ status[parent[p]] # "HANGING"

\* A process other than init never sleeps in sys_wait over a child that has
\* already exited, and never sleeps in it without a child to wake it.
NoSleepOverZombie ==
  \A p \in Thread :
    status[p] = "WAITING" => /\ Children(p) # {}
                             /\ p # InitProc => HangingChildren(p) = {}

\* sys_wait of a process other than init returns once a child has exited.
WaitReturns ==
  \A p \in Thread \ {InitProc} :
    (pc[p] = "wait" /\ HangingChildren(p) # {}) ~> pc[p] = "user"

\* kernel/main.c:44, "the init process reclaims zombies": a zombie whose
\* parent is init does not stay for ever.
InitReclaimsZombies ==
  \A p \in Thread :
    (status[p] = "HANGING" /\ parent[p] = InitProc) ~> status[p] = "DIED"

=============================================================================
