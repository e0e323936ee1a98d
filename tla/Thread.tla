------------------------------- MODULE Thread -------------------------------
(***************************************************************************)
(* The scheduler: thread/thread.c, thread/switch.S and the timer interrupt *)
(* handler of device/time.c.                                               *)
(*                                                                         *)
(* One CPU runs the thread `cur`.  A PCB carries one list node, its        *)
(* general_tag, which links it either into thread_ready_list or into the   *)
(* list of a semaphore.  All gates of the IDT are interrupt gates, so a    *)
(* handler and a system call run with interrupts off.  switch_to does not  *)
(* save eflags: every thread resumes with the interrupt flag it had when   *)
(* it left the CPU (iretd of the timer interrupt, or intr_set_status of    *)
(* thread_block and thread_yield), which is intr[t].                       *)
(*                                                                         *)
(* Operators named after C functions take the status function st and the   *)
(* ready list rd as their caller left them, so that a handler made of      *)
(* several calls is one action.                                            *)
(***************************************************************************)
EXTENDS Naturals, Sequences, Functions

CONSTANTS
  Thread,    \* the PCBs there can be
  Main,      \* main_thread, the flow of control that boots the kernel
  InitProc,  \* the init process, created first by thread_init
  Idle,      \* idle_thread
  Prio       \* priority of each thread, the length of its time slice

ASSUME ThreadAssumption ==
  /\ {Main, InitProc, Idle} \subseteq Thread
  /\ Main # InitProc /\ Main # Idle /\ InitProc # Idle
  /\ Prio \in [Thread -> Nat]

VARIABLES
  status,  \* TaskStruct.status; "DIED" also stands for a PCB page not in use
  ready,   \* thread_ready_list, head first
  cur,     \* running_thread()
  ticks,   \* TaskStruct.ticks, what is left of the time slice
  intr,    \* interrupt flag each thread runs with
  kernel   \* "panic" once an ASSERT or PANIC spins with interrupts off

threadVars == <<status, ready, cur, ticks, intr, kernel>>

TaskStatus == {"RUNNING", "READY", "BLOCKED", "WAITING", "HANGING", "DIED"}

\* The statuses thread_block accepts and thread_unblock ASSERTs.
Stopped == {"BLOCKED", "WAITING", "HANGING"}

-----------------------------------------------------------------------------
(* Calls that change the scheduler's state.                                *)

\* An ASSERT of the code: the kernel goes on only if ok holds.
AssertThat(ok) == kernel' = IF ok THEN kernel ELSE "panic"

\* Mutant: the thread whose slice ran out is pushed, not appended.
PushReady(rd, t) == <<t>> \o rd

\* list_append(&thread_ready_list, &t->general_tag)
AppendReady(rd, t) == Append(rd, t)

\* schedule(): requeue cur if only its slice ran out, wake idle if nobody is
\* ready, run the head of the ready list.  ok: the ASSERTs of the caller.
schedule(st, rd, ok) ==
  LET expired == st[cur] = "RUNNING"
      rd1 == IF expired THEN AppendReady(rd, cur) ELSE rd
      st1 == IF expired THEN [st EXCEPT ![cur] = "READY"] ELSE st
      next == IF rd1 = << >> THEN Idle ELSE Head(rd1)
  IN /\ cur' = next
     /\ ready' = IF rd1 = << >> THEN << >> ELSE Tail(rd1)
     /\ status' = [st1 EXCEPT ![next] = "RUNNING"]
     /\ ticks' = IF expired THEN [ticks EXCEPT ![cur] = Prio[cur]] ELSE ticks
     /\ AssertThat(/\ ok
                   /\ expired => cur \notin Range(rd)
                   /\ rd1 = << >> => st1[Idle] \in Stopped)

\* thread_block(stat)
thread_block(st, rd, ok, stat) == schedule([st EXCEPT ![cur] = stat], rd, ok)

\* Mutant: the woken thread keeps its old status.
UnblockKeepsStatus(st, t) == st

\* thread_unblock(t): the woken thread goes to the head of the ready list.
UnblockOK(st, rd, t) == st[t] \in Stopped /\ t \notin Range(rd)
UnblockStatus(st, t) == [st EXCEPT ![t] = "READY"]
UnblockReady(rd, t) == <<t>> \o rd

\* Mutant: thread_yield leaves the status RUNNING, so schedule requeues again.
YieldStatusForgotten(st) == st

\* cur->status = TASK_READY in thread_yield
YieldStatus(st) == [st EXCEPT ![cur] = "READY"]

\* thread_yield(): the slice is not refilled.
thread_yield(st, rd, ok) ==
  schedule(YieldStatus(st), AppendReady(rd, cur), ok /\ cur \notin Range(rd))

\* thread_start, process_execute and sys_fork end by linking the new PCB.
StartStatus(st, t) == [st EXCEPT ![t] = "READY"]

-----------------------------------------------------------------------------
(* The scheduler on its own, with every call its clients may make.         *)

\* The state thread_init leaves: init and idle ready, the kernel still
\* booting in main with interrupts off.
ThreadInit ==
  /\ status = [t \in Thread |-> CASE t = Main -> "RUNNING"
                                  [] t \in {InitProc, Idle} -> "READY"
                                  [] OTHER -> "DIED"]
  /\ ready = <<InitProc, Idle>>
  /\ cur = Main
  /\ ticks = Prio
  /\ intr = [t \in Thread |-> IF t = Main THEN "off" ELSE "on"]
  /\ kernel = "up"

\* intr_timer_handler
TimerIntr ==
  /\ kernel = "up" /\ intr[cur] = "on"
  /\ \/ /\ ticks[cur] = 0
        /\ schedule(status, ready, TRUE)
        /\ UNCHANGED intr
     \/ /\ ticks[cur] # 0
        /\ ticks' = [ticks EXCEPT ![cur] = @ - 1]
        /\ UNCHANGED <<status, ready, cur, intr, kernel>>

\* int 0x80 turns interrupts off (interrupt gate).
SyscallEnter ==
  /\ kernel = "up" /\ cur \notin {Idle, Main} /\ intr[cur] = "on"
  /\ intr' = [intr EXCEPT ![cur] = "off"]
  /\ UNCHANGED <<status, ready, cur, ticks, kernel>>

\* iretd of intr_exit, and main's intr_enable once init_all is done.
SyscallExit ==
  /\ kernel = "up" /\ cur # Idle /\ intr[cur] = "off"
  /\ intr' = [intr EXCEPT ![cur] = "on"]
  /\ UNCHANGED <<status, ready, cur, ticks, kernel>>

\* A thread stops itself: sema_down, ioq_wait, sys_wait, sys_exit.  init
\* never calls sys_exit, and main, a kernel thread, waits only for the disk.
Block(stat) ==
  /\ kernel = "up" /\ cur # Idle /\ intr[cur] = "off"
  /\ stat \in IF cur = Main THEN {"BLOCKED"}
              ELSE IF cur = InitProc THEN {"BLOCKED", "WAITING"} ELSE Stopped
  /\ thread_block(status, ready, TRUE, stat)
  /\ UNCHANGED intr

\* cur or an interrupt handler wakes a thread that waits: sema_up, wakeup,
\* sys_exit.  No code wakes a HANGING process or idle.
Unblock(t) ==
  /\ kernel = "up" /\ t # Idle /\ status[t] \in {"BLOCKED", "WAITING"}
  /\ status' = UnblockStatus(status, t)
  /\ ready' = UnblockReady(ready, t)
  /\ AssertThat(UnblockOK(status, ready, t))
  /\ UNCHANGED <<cur, ticks, intr>>

\* mtime_sleep gives the CPU away.
Yield ==
  /\ kernel = "up" /\ cur # Idle /\ intr[cur] = "off"
  /\ thread_yield(status, ready, TRUE)
  /\ UNCHANGED intr

\* One round of idle(): block; once run again, sti; hlt until an interrupt.
IdleLoop ==
  /\ kernel = "up" /\ cur = Idle
  /\ thread_block(status, ready, TRUE, "BLOCKED")
  /\ UNCHANGED intr

\* sys_fork links a new process; it starts in user mode.
Start(t) ==
  /\ kernel = "up" /\ cur \notin {Idle, Main} /\ intr[cur] = "off"
  /\ status[t] = "DIED"
  /\ status' = StartStatus(status, t)
  /\ ready' = AppendReady(ready, t)
  /\ ticks' = [ticks EXCEPT ![t] = Prio[t]]
  /\ intr' = [intr EXCEPT ![t] = "on"]
  /\ AssertThat(t \notin Range(ready))
  /\ UNCHANGED cur

\* thread_exit(t, false) on a HANGING child, from sys_wait.
Reap(t) ==
  /\ kernel = "up" /\ cur \notin {Idle, Main} /\ intr[cur] = "off"
  /\ status[t] = "HANGING"
  /\ status' = [status EXCEPT ![t] = "DIED"]
  /\ ready' = IF t \in Range(ready) THEN SelectSeq(ready, LAMBDA u : u # t)
                                    ELSE ready
  /\ UNCHANGED <<cur, ticks, intr, kernel>>

Wake == \E t \in Thread : Unblock(t)

ThreadNext ==
  \/ TimerIntr
  \/ SyscallEnter
  \/ SyscallExit
  \/ \E stat \in Stopped : Block(stat)
  \/ Wake
  \/ Yield
  \/ IdleLoop
  \/ \E t \in Thread : Start(t)
  \/ \E t \in Thread : Reap(t)

\* The timer never stops, and the interrupt controller latches a tick that
\* arrives while interrupts are off until they are on again: strong fairness.
\* A system call comes to its end unless it blocks, and idle loops for ever.
ThreadFairness ==
  /\ SF_threadVars(TimerIntr)
  /\ WF_threadVars(SyscallExit)
  /\ WF_threadVars(IdleLoop)

ThreadSafety == ThreadInit /\ [][ThreadNext]_threadVars

ThreadSpec == ThreadSafety /\ ThreadFairness

-----------------------------------------------------------------------------
(* Properties.                                                             *)

\* Type invariant; ticks stays within the slice although it is a uint8_t
\* that intr_timer_handler counts down.
ThreadTypeOK ==
  /\ status \in [Thread -> TaskStatus]
  /\ ready \in Seq(Thread)
  /\ cur \in Thread
  /\ ticks \in [Thread -> Nat]
  /\ \A t \in Thread : ticks[t] <= Prio[t]
  /\ intr \in [Thread -> {"on", "off"}]
  /\ kernel \in {"up", "panic"}

\* No ASSERT of schedule, thread_unblock, thread_yield or of the code that
\* links a new PCB ever fails: in particular idle is stopped whenever the
\* ready list runs empty, and no PCB is linked twice.
NoPanic == kernel = "up"

\* Status and lists agree after every sequence of calls: exactly the thread
\* on the CPU is RUNNING, and a PCB is in thread_ready_list, once, exactly
\* when it is READY.
ReadyListExact ==
  /\ \A t \in Thread : status[t] = "RUNNING" <=> t = cur
  /\ \A t \in Thread : status[t] = "READY" <=> t \in Range(ready)
  /\ IsInjective(ready)

\* Only a wakeup overtakes: any other step leaves a thread that stays in the
\* ready list at most as far from its head as it was (schedule, thread_yield
\* and sys_fork append).
OnlyWakeupsOvertake ==
  [][~Wake => \A i \in DOMAIN ready, j \in DOMAIN ready' :
                 ready[i] = ready'[j] => j <= i]_threadVars

\* A ready thread gets the CPU unless wakeups, which enter at the head of
\* the ready list, go on for ever.  (With endless wakeups it may starve.)
ReadyRuns ==
  \A t \in Thread : \/ []<><<Wake>>_threadVars
                    \/ (status[t] = "READY" ~> cur = t)

=============================================================================
