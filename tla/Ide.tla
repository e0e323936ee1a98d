-------------------------------- MODULE Ide ---------------------------------
(***************************************************************************)
(* The disk driver, device/ide.c: one IDE channel with its lock, the       *)
(* semaphore disk_done and the interrupt handler; busy_wait with the sleep *)
(* of device/time.c; the drive, from how the driver uses it.               *)
(*                                                                         *)
(* A system call makes several transfers.  Main makes some while it boots, *)
(* and no process does before that (the file system is not mounted).  All  *)
(* of this code runs with interrupts off: another thread gets in only when *)
(* sema_down blocks or ticks_to_sleep yields.  The lock is its semaphore;  *)
(* module Sync covers holder and holder_repeat_nr.                         *)
(*                                                                         *)
(* A transfer is one command: the loop over commands of 256 sectors is not *)
(* modelled (partition_format alone has use for it).  The drive interrupts *)
(* for each sector of a command, and the driver waits for one interrupt.   *)
(***************************************************************************)
EXTENDS Sema

CONSTANTS
  Proc,         \* processes that make system calls of the file system
  ChannelLock,  \* IdeChannel.lock
  DiskDone,     \* IdeChannel.disk_done
  BootOps,      \* number of transfers main makes while booting
  MaxOps,       \* bound on the transfers of one system call
  TimeLimit     \* time_limit of busy_wait, 30000 in the code

ASSUME IdeAssumption ==
  /\ Proc \subseteq Thread \ {Main, InitProc, Idle}
  /\ ChannelLock # DiskDone /\ Sem = {ChannelLock, DiskDone}
  /\ BootOps \in Nat /\ MaxOps \in Nat /\ TimeLimit \in Nat \ {0}

Client == Proc \cup {Main}

VARIABLES
  expecting,  \* expecting_intr, "yes" or "no"
  pc,         \* where each client is
  op,         \* the transfer it makes
  left,       \* transfers its system call still has to make
  ticked,     \* whether a timer tick came since its mtime_sleep started
  limit,      \* time_limit of the busy_wait to come or going on
  begun,      \* clients whose system call has sent a command to the drive
  issuer,     \* who sent the last command
  crossed,    \* whether the last command found the drive still writing
  drive,      \* "idle", "drq", "fault", or BSY: "busy" before the data, "writing"
              \* or, if there are several sectors, "writing more" after them
  irq         \* IRQ 14 is latched by the interrupt controller

driveVars == <<expecting, limit, begun, issuer, crossed, drive, irq>>
callVars == <<pc, op, left, ticked>>
ideVars == <<threadVars, semaVars, driveVars, callVars>>

\* ide_read and ide_write of one sector or of several, and identify_disk
Op == {"read", "reads", "write", "writes", "identify"}
Writes(o) == o \in {"write", "writes"}
BSY == {"busy", "writing", "writing more"}
SeveralSectors(o) == o \in {"reads", "writes"}

IdeInit ==
  /\ ThreadInit
  /\ SemaInit({ChannelLock})
  /\ expecting = "no" /\ limit = TimeLimit
  /\ begun = {} /\ issuer = Main /\ crossed = "no"
  /\ drive = "idle" /\ irq = "no"
  /\ pc = [t \in Client |-> IF t = Main THEN "next" ELSE "user"]
  /\ op = [t \in Client |-> "none"]
  /\ left = [t \in Client |-> IF t = Main THEN BootOps ELSE 0]
  /\ ticked = [t \in Client |-> "no"]

At(p) == kernel = "up" /\ cur \in Client /\ pc[cur] = p
Goto(p) == pc' = [pc EXCEPT ![cur] = p]

Booted == pc[Main] = "user"

\* A system call of the file system that makes n transfers.
FsCall(n) ==
  /\ At("user") /\ cur # Main /\ Booted
  /\ left' = [left EXCEPT ![cur] = n]
  /\ intr' = [intr EXCEPT ![cur] = "off"]
  /\ Goto("next")
  /\ UNCHANGED <<status, ready, cur, ticks, kernel, semaVars, driveVars, op, ticked>>

\* It returns; in main's case init_all is done and main calls intr_enable.
FsReturn ==
  /\ At("next") /\ left[cur] = 0
  /\ begun' = begun \ {cur}
  /\ intr' = [intr EXCEPT ![cur] = "on"]
  /\ Goto("user")
  /\ UNCHANGED <<status, ready, cur, ticks, kernel, semaVars, expecting, limit,
                 issuer, crossed, drive, irq, op, left, ticked>>

\* A process reads the keyboard and sleeps until a key is pressed.
KeyWait ==
  /\ At("user") /\ cur # Main
  /\ thread_block(status, ready, TRUE, "BLOCKED")
  /\ intr' = [intr EXCEPT ![cur] = "off"]
  /\ Goto("key")
  /\ UNCHANGED <<semaVars, driveVars, op, left, ticked>>

KeyPress(t) ==
  /\ intr[cur] = "on" /\ pc[t] = "key"
  /\ Unblock(t)
  /\ UNCHANGED <<semaVars, driveVars, callVars>>

KeyReturn ==
  /\ At("key")
  /\ intr' = [intr EXCEPT ![cur] = "on"]
  /\ Goto("user")
  /\ UNCHANGED <<status, ready, cur, ticks, kernel, semaVars, driveVars, op, left, ticked>>

\* Mutant: no transfer takes the lock.
NoLock(o) == "cmd"

\* ide_read and ide_write start with lock_acquire, identify_disk does not.
FirstStep(o) == IF o = "identify" THEN "cmd" ELSE "lock"

\* ide_read, ide_write, or, at boot only, identify_disk.
StartOp(o) ==
  /\ At("next") /\ left[cur] > 0
  /\ o = "identify" => cur = Main
  /\ op' = [op EXCEPT ![cur] = o]
  /\ left' = [left EXCEPT ![cur] = @ - 1]
  /\ Goto(FirstStep(o))
  /\ UNCHANGED <<threadVars, semaVars, driveVars, ticked>>

\* One round of sema_down(s); once s is taken the client goes to p.
sema_down(s, p) ==
  /\ \/ /\ ~CanTake(s)
        /\ sema_wait(s)
        /\ UNCHANGED pc
     \/ /\ CanTake(s)
        /\ sema_take(s, TRUE)
        /\ Goto(p)
        /\ UNCHANGED <<status, ready, cur, ticks>>
  /\ UNCHANGED <<intr, driveVars, op, left, ticked>>

lock_acquire == At("lock") /\ sema_down(ChannelLock, "cmd")

\* channel->expecting_intr = true in cmd_out
ExpectsIntr == "yes"

\* Mutant: a write, too, waits for an interrupt before it sends its data.
WaitsAlways(o) == TRUE

\* A read waits for its interrupt before it polls, a write after the data.
WaitsBeforePoll(o) == ~Writes(o)

\* select_disk, select_sector and cmd_out; writing the command register
\* withdraws an interrupt request of the drive.  A drive that is still writing
\* may take the command or ignore it.
cmd_out ==
  /\ At("cmd")
  /\ expecting' = ExpectsIntr
  /\ drive' = "busy" \/ (drive \in BSY /\ UNCHANGED drive)
  /\ irq' = "no"
  /\ issuer' = cur
  /\ crossed' = IF drive = "idle" THEN "no" ELSE "yes"
  /\ begun' = begun \cup {cur}
  /\ Goto(IF WaitsBeforePoll(op[cur]) THEN "done" ELSE "poll")
  /\ UNCHANGED <<threadVars, semaVars, limit, op, left, ticked>>

\* sema_down(&channel->disk_done)
disk_wait ==
  /\ At("done")
  /\ sema_down(DiskDone, IF WaitsBeforePoll(op[cur]) THEN "poll" ELSE "unlock")

\* The test of the loop in busy_wait.
TimedOut(l) == l = 0

\* One round of busy_wait, and the data after it: all sectors are read or
\* written at once, and if there are several an interrupt comes in between.
\* time_limit -= 10 >= 0 is time_limit -= (10 >= 0): each round subtracts 1,
\* not 10.
busy_wait ==
  /\ At("poll")
  /\ limit' = limit - 1
  /\ \/ /\ ~TimedOut(limit') /\ drive \in BSY   \* mtime_sleep(10)
        /\ Goto("sleep")
        /\ UNCHANGED <<kernel, drive, irq, ticked>>
     \/ /\ ~TimedOut(limit') /\ drive = "drq"   \* read_from_sector or write2sector
        /\ drive' = CASE op[cur] = "write" -> "writing"
                      [] op[cur] = "writes" -> "writing more"
                      [] OTHER -> "idle"
        /\ irq' = IF SeveralSectors(op[cur]) THEN "yes" ELSE irq
        /\ Goto(IF Writes(op[cur]) THEN "done" ELSE "unlock")
        /\ UNCHANGED <<kernel, ticked>>
     \/ /\ TimedOut(limit') \/ drive \in {"idle", "fault"}
        /\ AssertThat(FALSE)
        /\ UNCHANGED <<pc, ticked, drive, irq>>
  /\ UNCHANGED <<status, ready, cur, ticks, intr, semaVars, expecting, begun,
                 issuer, crossed, op, left>>

\* ticks_to_sleep(1): yield until a tick was counted.
ticks_to_sleep ==
  /\ At("sleep")
  /\ \/ /\ ticked[cur] = "no"
        /\ thread_yield(status, ready, TRUE)
        /\ UNCHANGED <<pc, ticked>>
     \/ /\ ticked[cur] = "yes"
        /\ ticked' = [ticked EXCEPT ![cur] = "no"]
        /\ Goto("poll")
        /\ UNCHANGED <<status, ready, cur, ticks, kernel>>
  /\ UNCHANGED <<intr, semaVars, driveVars, op, left>>

\* lock_release at the end of ide_read and ide_write, whose variables are gone
lock_release ==
  /\ At("unlock")
  /\ \/ op[cur] # "identify" /\ sema_up(ChannelLock)
     \/ op[cur] = "identify" /\ UNCHANGED <<status, ready, kernel, semaVars>>
  /\ op' = [op EXCEPT ![cur] = "none"] /\ limit' = TimeLimit /\ crossed' = "no"
  /\ Goto("next")
  /\ UNCHANGED <<cur, ticks, intr, expecting, begun, issuer, drive, irq, left, ticked>>

\* Mutant: expecting_intr stays set.
StillExpecting == expecting

\* channel->expecting_intr = false
ExpectsNoMore == "no"

\* Mutant: every interrupt is taken for the one that was waited for.
TakesAny == TRUE

\* if (channel->expecting_intr)
Expected == expecting = "yes"

\* intr_hd_handler
intr_hd_handler ==
  /\ kernel = "up" /\ intr[cur] = "on" /\ irq = "yes"
  /\ irq' = "no"
  /\ \/ /\ Expected
        /\ expecting' = ExpectsNoMore
        /\ sema_up(DiskDone)
     \/ /\ ~Expected
        /\ UNCHANGED <<expecting, status, ready, kernel, semaVars>>
  /\ UNCHANGED <<cur, ticks, intr, limit, begun, issuer, crossed, drive, callVars>>

\* The drive: a read has DRQ and an interrupt when the first sector is there,
\* a write first asks for its data without one and interrupts when all are
\* written (and before that for each sector but the last); it may fail.
DriveStep ==
  /\ kernel = "up"
  /\ \/ /\ drive = "busy"
        /\ drive' \in {"drq", "fault"}
        /\ irq' = IF Writes(op[issuer]) THEN irq ELSE "yes"
     \/ /\ drive \in {"writing", "writing more"}
        /\ drive' = "idle"
        /\ irq' = "yes"
  /\ UNCHANGED <<threadVars, semaVars, callVars, expecting, limit, begun, issuer, crossed>>

\* intr_timer_handler, counting a tick for whoever sleeps
TimerTick ==
  /\ TimerIntr
  /\ ticked' = [t \in Client |-> IF pc[t] = "sleep" THEN "yes" ELSE ticked[t]]
  /\ UNCHANGED <<semaVars, driveVars, pc, op, left>>

\* idle, and init, which forks the processes and waits for ever.
IdeSched ==
  /\ \/ IdleLoop
     \/ cur = InitProc /\ SyscallEnter
     \/ cur = InitProc /\ \E t \in Proc : Start(t)
     \/ cur = InitProc /\ Block("WAITING") /\ \A t \in Proc : status[t] # "DIED"
  /\ UNCHANGED <<semaVars, driveVars, callVars>>

\* painc_spin: the loop an ASSERT or a PANIC ends in
painc_spin == kernel = "panic" /\ UNCHANGED ideVars

Step ==
  \/ FsReturn
  \/ KeyReturn
  \/ \E o \in Op : StartOp(o)
  \/ lock_acquire
  \/ cmd_out
  \/ disk_wait
  \/ busy_wait
  \/ ticks_to_sleep
  \/ lock_release

IdeNext ==
  \/ \E n \in 0..MaxOps : FsCall(n)
  \/ KeyWait
  \/ \E t \in Proc : KeyPress(t)
  \/ Step
  \/ intr_hd_handler
  \/ DriveStep
  \/ TimerTick
  \/ IdeSched
  \/ painc_spin

IdeSafety == IdeInit /\ [][IdeNext]_ideVars

\* Interrupts are latched and taken, the drive answers, threads in the driver
\* go on when they have the CPU.
IdeFairness ==
  /\ SF_ideVars(TimerTick)
  /\ SF_ideVars(intr_hd_handler)
  /\ WF_ideVars(DriveStep)
  /\ WF_ideVars(IdeSched)
  /\ \A t \in Client : SF_ideVars(cur = t /\ Step)

IdeSpec == IdeSafety /\ IdeFairness

-----------------------------------------------------------------------------
(* Properties.                                                             *)

IdeTypeOK ==
  /\ SemaTypeOK
  /\ expecting \in {"yes", "no"} /\ irq \in {"yes", "no"}
  /\ pc \in [Client -> {"user", "key", "next", "lock", "cmd", "done", "poll", "sleep", "unlock"}]
  /\ op \in [Client -> Op \cup {"none"}]
  /\ left \in [Client -> Nat]
  /\ ticked \in [Client -> {"yes", "no"}]
  /\ limit \in 0..TimeLimit
  /\ begun \subseteq Client /\ issuer \in Client
  /\ crossed \in {"yes", "no"}
  /\ drive \in {"idle", "drq", "fault"} \cup BSY

\* The kernel stops only when the drive reported an error, busy_wait ran out
\* of time, or the command came while the drive was still writing the last
\* sectors of another (see NoStaleCompletion): whatever interrupts come that
\* belong to no command, no ASSERT of the driver, of a semaphore or of the
\* scheduler fails, and busy_wait never finds an idle drive.
PanicOnlyOnFault == kernel = "panic" => drive = "fault" \/ limit = 0 \/ crossed = "yes"

\* A command does not take what is left of an earlier one for its own.  When
\* it is sent there is no completion in disk_done, the handler expects no
\* interrupt (one may be on its way, of the later sectors of a read), and the
\* drive is idle but after a write of several sectors, which returns with the
\* first of its interrupts.  The command in the drive stays that of the client
\* which waits or polls for it, and at the end its completion is used up.
NoStaleCompletion ==
  /\ IdeTypeOK
  /\ \A t \in Client :
       /\ pc[t] = "cmd" =>
            /\ value[DiskDone] = 0 /\ expecting = "no"
            /\ drive \in {"idle", "writing more"}
       /\ pc[t] \in {"done", "poll", "sleep", "unlock"} => issuer = t
       /\ pc[t] = "unlock" => value[DiskDone] = 0 /\ expecting = "no"

\* The transfers of one system call are not interleaved with those of
\* another, although the channel lock is released between them: the woken
\* waiter has not run when the call takes the lock again.
SyscallsDoNotInterleave == \A t, u \in begun : t = u

\* A command a process sent to the drive is finished, unless the kernel
\* stopped.
CommandEnds ==
  \A t \in Proc : pc[t] = "cmd" ~> (pc[t] = "next" \/ kernel = "panic")
=============================================================================
