--------------------------- MODULE WaitExitProofs ---------------------------
(***************************************************************************)
(* Processes fork, exit and are reaped in any order, for any number of     *)
(* them and any size of the kernel pool: the parent of a process is never  *)
(* gone, nobody but init sleeps over a zombie, and the count of pages that *)
(* sys_exit and sys_wait give back never falls below zero.                 *)
(***************************************************************************)
EXTENDS WaitExit, ThreadProofs, FiniteSetTheorems

-----------------------------------------------------------------------------
(* The inductive invariant.                                                *)

Boot == {InitProc, Main, Idle}
Gone == {"HANGING", "DIED"}

\* Processes that have PCB, page directory and bitmap, and those that have
\* lost the bitmap.
Active == {p \in Thread \ {Main, Idle} : status[p] \notin Gone}
Zombies == {p \in Thread : status[p] = "HANGING"}

\* init, which adopts, never exits, and the threads of boot have no parent.
BootStays == status[InitProc] \notin Gone /\ \A b \in Boot : parent[b] = -1

\* Pids are not used twice, and who has a parent has one that can reap it.
Family ==
  /\ \A p \in Live : p <= next_pid
  /\ \A p \in Live \ Boot :
       parent[p] \in Live /\ status[parent[p]] # "HANGING" /\ parent[p] # p

\* The pages a process gives back were taken for it.
PagesHeld == used >= ProcPages * Cardinality(Active) + 2 * Cardinality(Zombies)

WEInv == ThreadInv /\ WETypeOK /\ BootStays /\ Family /\ NoSleepOverZombie /\ PagesHeld

-----------------------------------------------------------------------------
(* Arithmetic of pages.                                                    *)

LEMMA DivMod ==
  ASSUME NEW a \in Nat, NEW n \in Nat \ {0}
  PROVE  /\ a \div n \in Nat /\ a % n \in Nat /\ a % n < n
         /\ a = n * (a \div n) + (a % n)
  BY SMT

LEMMA MulLess ==
  ASSUME NEW x \in Int, NEW y \in Int, NEW n \in Nat \ {0}, n * x < n * y
  PROVE  x < y
<1> SUFFICES ASSUME y <= x PROVE FALSE
  OBVIOUS
<1> QED OBVIOUS

\* Rounded up, the bitmap has at most one page more than rounded down: what
\* sys_exit and sys_wait give back is no more than what sys_fork took.
LEMMA PageCounts ==
  /\ ProcPages \in Nat /\ ReleasedBitmapPages \in Nat
  /\ ReleasedBitmapPages + 2 <= ProcPages /\ ProcPages <= ReleasedBitmapPages + 3
<1> DEFINE n == PgSize
           q == BtmpBytes \div n
           r == BtmpBytes % n
           x == BtmpBytes + n - 1
           k == x \div n
           u == x % n
<1>1. n \in Nat \ {0} /\ BtmpBytes \in Nat /\ x \in Nat
  BY WaitExitAssumption
<1>2. q \in Nat /\ r \in Nat /\ r < n /\ BtmpBytes = n * q + r
  BY <1>1, DivMod
<1>3. k \in Nat /\ u \in Nat /\ u < n /\ BtmpBytes + n - 1 = n * k + u
  BY <1>1, DivMod
<1>4. ReleasedBitmapPages = q /\ ProcPages = k + 2
  <2>1. ProcPages = 1 + 1 + k
    BY DEF ProcPages, BitmapPages, DIV_ROUND_UP
  <2> HIDE DEF k
  <2> QED BY <1>3, <2>1 DEF ReleasedBitmapPages
<1> HIDE DEF n, q, r, k, u, x
<1>5. n * q < n * (k + 1)
  BY <1>1, <1>2, <1>3
<1>6. n * k < n * (q + 2)
  BY <1>1, <1>2, <1>3
<1>7. q < k + 1 /\ k < q + 2
  BY <1>1, <1>2, <1>3, <1>5, <1>6, MulLess
<1> QED BY <1>2, <1>3, <1>4, <1>7

LEMMA FiniteProcesses ==
  /\ IsFiniteSet(Active) /\ IsFiniteSet(Zombies)
  /\ Cardinality(Active) \in Nat /\ Cardinality(Zombies) \in Nat
<1>1. IsFiniteSet(Thread)
  BY WaitExitAssumption, FS_Interval
<1> QED BY <1>1, FS_Subset, FS_CardinalityType DEF Active, Zombies

-----------------------------------------------------------------------------
(* Steps.                                                                  *)

\* What the invariant says of the variables.
LEMMA WETypes ==
  ASSUME WEInv
  PROVE  /\ ThreadInv /\ cur \in Thread /\ status \in [Thread -> TaskStatus]
         /\ ready \in Seq(Thread) /\ intr \in [Thread -> {"on", "off"}]
         /\ status[cur] = "RUNNING" /\ kernel = "up"
         /\ parent \in [Thread -> Thread \cup {-1}] /\ next_pid \in 3..MaxPid
         /\ pc \in [Thread -> {"user", "wait", "io"}] /\ used \in 0..KernelPages
         /\ MaxPid \in Nat /\ Thread = 1..MaxPid /\ -1 \notin Thread
         /\ InitProc = 1 /\ Main = 2 /\ Idle = 3 /\ Boot \subseteq Thread
  BY WaitExitAssumption, ThreadAssumption
     DEF WEInv, WETypeOK, ThreadInv, ThreadTypeOK, ReadyListExact, NoPanic, Boot

\* A step in which nobody is born, exits or is reaped, and nobody falls asleep
\* in sys_wait but over living children.
LEMMA NobodyComesOrGoes ==
  ASSUME WEInv, ThreadInv', parent' = parent, pc' \in [Thread -> {"user", "wait", "io"}],
         next_pid' \in 3..MaxPid, next_pid' >= next_pid, used' \in 0..KernelPages, used' >= used,
         \A t \in Thread :
           /\ status'[t] = "DIED" <=> status[t] = "DIED"
           /\ status'[t] = "HANGING" <=> status[t] = "HANGING"
           /\ status'[t] = "WAITING" => \/ status[t] = "WAITING"
                                        \/ Children(t) # {} /\ HangingChildren(t) = {}
  PROVE  WEInv'
<1>1. /\ Live' = Live /\ Active' = Active /\ Zombies' = Zombies
      /\ \A t \in Thread : Children(t)' = Children(t) /\ HangingChildren(t)' = HangingChildren(t)
  BY DEF Live, Active, Zombies, Gone, Children, HangingChildren
<1>2. WETypeOK' /\ BootStays'
  BY WETypes DEF WEInv, WETypeOK, ThreadInv, BootStays, Gone, Boot
<1>3. Family'
  BY <1>1, WETypes DEF WEInv, Family, Live, Boot
<1>4. NoSleepOverZombie'
  BY <1>1 DEF WEInv, NoSleepOverZombie
<1>5. PagesHeld'
  <2>1. UNCHANGED <<Cardinality(Active), Cardinality(Zombies)>>
    BY <1>1
  <2> QED BY <2>1, WETypes, FiniteProcesses, PageCounts, SMTT(30) DEF WEInv, PagesHeld
<1> QED BY <1>2, <1>3, <1>4, <1>5 DEF WEInv

\* The same, with the counters as they were.
LEMMA OnlyThreadsMove ==
  ASSUME WEInv, ThreadInv', UNCHANGED <<parent, next_pid, used>>,
         pc' \in [Thread -> {"user", "wait", "io"}],
         \A t \in Thread :
           /\ status'[t] = "DIED" <=> status[t] = "DIED"
           /\ status'[t] = "HANGING" <=> status[t] = "HANGING"
           /\ status'[t] = "WAITING" => \/ status[t] = "WAITING"
                                        \/ Children(t) # {} /\ HangingChildren(t) = {}
  PROVE  WEInv'
<1>1. next_pid' \in 3..MaxPid /\ next_pid' >= next_pid /\ used' \in 0..KernelPages /\ used' >= used
  BY WETypes
<1> QED BY <1>1, NobodyComesOrGoes, Zenon

\* A process falls asleep, and nobody else changes but the one that runs next.
LEMMA SleepInv ==
  ASSUME WEInv, cur # Idle, NEW stat \in {"BLOCKED", "WAITING"},
         thread_block(status, ready, TRUE, stat), intr' \in [Thread -> {"on", "off"}],
         stat = "WAITING" => Children(cur) # {} /\ HangingChildren(cur) = {},
         pc' \in [Thread -> {"user", "wait", "io"}], UNCHANGED <<parent, next_pid, used>>
  PROVE  WEInv'
<1> USE WETypes
<1>1. /\ ThreadInv' /\ status'[cur] = stat
      /\ \A t \in Thread \ {cur, Idle} :
           IF t = cur' THEN status[t] = "READY" /\ status'[t] = "RUNNING"
                       ELSE status'[t] = status[t]
  BY BlockKeepsLists, Zenon DEF Stopped
<1>2. IdleStays /\ IdleStays'
  BY <1>1 DEF ThreadInv
<1>3. \A t \in Thread :
        /\ status'[t] = "DIED" <=> status[t] = "DIED"
        /\ status'[t] = "HANGING" <=> status[t] = "HANGING"
        /\ status'[t] = "WAITING" => \/ status[t] = "WAITING"
                                     \/ Children(t) # {} /\ HangingChildren(t) = {}
  BY <1>1, <1>2, Zenon DEF IdleStays
<1> QED BY <1>1, <1>3, OnlyThreadsMove, Zenon

\* The timer, idle, wakeups and the boot of main.
LEMMA BackgroundInv == ASSUME WEInv, Background PROVE WEInv'
<1> USE WETypes
<1>1. UNCHANGED <<parent, next_pid, pc, used>>
  BY DEF Background, procVars
<1>2. CASE TimerIntr \/ IdleLoop
  <2>1. /\ ThreadInv'
        /\ \A t \in Thread \ {Idle} :
             IF status[t] \in {"READY", "RUNNING"} THEN status'[t] \in {"READY", "RUNNING"}
                                                   ELSE status'[t] = status[t]
    BY <1>2, SchedulerSteps
  <2>2. IdleStays /\ IdleStays'
    BY <2>1 DEF ThreadInv
  <2>3. \A t \in Thread :
          /\ status'[t] = "DIED" <=> status[t] = "DIED"
          /\ status'[t] = "HANGING" <=> status[t] = "HANGING"
          /\ status'[t] = "WAITING" => status[t] = "WAITING"
    BY <2>1, <2>2, Zenon DEF IdleStays
  <2> QED BY <1>1, <2>1, <2>3, OnlyThreadsMove, Zenon
<1>3. CASE \E t \in Thread : status[t] = "BLOCKED" /\ Unblock(t)
  <2>1. PICK t \in Thread : status[t] = "BLOCKED" /\ Unblock(t)
    BY <1>3
  <2>2. ThreadInv' /\ status' = [status EXCEPT ![t] = "READY"]
    BY <2>1, UnblockInv, Zenon DEF Unblock, UnblockStatus
  <2>3. \A u \in Thread \ {t} : status'[u] = status[u]
    BY <2>2
  <2>4. status'[t] = "READY"
    BY <2>2
  <2> QED BY <1>1, <2>1, <2>2, <2>3, <2>4, OnlyThreadsMove, Zenon
<1>4. CASE cur = Main /\ SyscallExit
  <2>1. ThreadInv' /\ status' = status
    BY <1>4, SyscallInv DEF SyscallExit
  <2> QED BY <1>1, <2>1, OnlyThreadsMove, Zenon
<1>5. CASE cur = Main /\ Block("BLOCKED")
  BY <1>1, <1>5, SleepInv, Zenon DEF Block
<1> QED BY <1>2, <1>3, <1>4, <1>5 DEF Background

\* A process that a call put to sleep is back in user mode.
LEMMA IoInv == ASSUME WEInv, IoBlock \/ IoReturn PROVE WEInv'
<1> USE WETypes
<1>1. CASE IoBlock
  BY <1>1, SleepInv, Zenon DEF IoBlock, InUser
<1>2. CASE IoReturn
  <2>1. ThreadInv' /\ status' = status
    BY <1>2 DEF IoReturn, ThreadInv, ThreadTypeOK, ReadyListExact, NoPanic, IdleStays
  <2>2. pc' \in [Thread -> {"user", "wait", "io"}] /\ UNCHANGED <<parent, next_pid, used>>
    BY <1>2 DEF IoReturn
  <2> QED BY <2>1, <2>2, OnlyThreadsMove, Zenon
<1> QED BY <1>1, <1>2

\* A process is born.
LEMMA ForkInv == ASSUME WEInv, sys_fork PROVE WEInv'
<1> USE WETypes
<1> DEFINE child == next_pid + 1
<1>1. /\ cur \notin {Main, Idle} /\ next_pid < MaxPid /\ child \in Thread /\ child \notin Boot
      /\ child \in 3..MaxPid /\ UNCHANGED <<cur, intr>>
  BY DEF sys_fork, InUser, Boot
<1>2. status[child] = "DIED" /\ child # cur
  BY <1>1 DEF WEInv, Family, Live
<1>3. CASE /\ ForkFits
           /\ next_pid' = child
           /\ parent' = [parent EXCEPT ![child] = cur]
           /\ pc' = [pc EXCEPT ![child] = "user"]
           /\ used' = used + ProcPages
           /\ status' = StartStatus(status, child)
           /\ ready' = AppendReady(ready, child)
           /\ ticks' = [ticks EXCEPT ![child] = Prio[child]]
           /\ AssertThat(child \notin Range(ready))
  <2> HIDE DEF child
  <2>1. ThreadInv'
    BY <1>1, <1>2, <1>3, StartKeepsLists, Zenon
  <2>2. /\ status' = [status EXCEPT ![child] = "READY"] /\ cur' = cur /\ Thread' = Thread
        /\ parent'[child] = cur /\ \A t \in Thread \ {child} : parent'[t] = parent[t]
    BY <1>1, <1>3 DEF StartStatus
  <2>3. Live' = Live \cup {child} /\ Active' = Active \cup {child} /\ Zombies' = Zombies
    BY <1>1, <1>2, <2>2 DEF Live, Active, Zombies, Gone, Boot
  <2>4. WETypeOK'
    <3>1. used' \in 0..KernelPages
      BY <1>3, PageCounts, WaitExitAssumption DEF ForkFits
    <3>2. /\ parent' \in [Thread -> Thread \cup {-1}] /\ next_pid' \in 3..MaxPid
          /\ pc' \in [Thread -> {"user", "wait", "io"}]
      BY <1>1, <1>3
    <3> QED BY <2>1, <3>1, <3>2, Zenon DEF WETypeOK, ThreadInv
  <2>5. BootStays'
    BY <1>1, <2>2 DEF WEInv, BootStays, Boot
  <2>6. Family'
    <3>1. \A p \in Live' : p <= next_pid'
      <4>1. \A p \in Live : p <= next_pid /\ p \in 1..MaxPid
        BY DEF WEInv, Family, Live
      <4>2. next_pid' = child /\ child = next_pid + 1
        BY <1>3 DEF child
      <4> QED BY <2>3, <4>1, <4>2
    <3>2. ASSUME NEW p \in Live' \ Boot
          PROVE  parent'[p] \in Live' /\ status'[parent'[p]] # "HANGING" /\ parent'[p] # p
      <4>1. CASE p = child
        BY <1>1, <1>2, <2>2, <4>1 DEF Live
      <4>2. CASE p # child
        BY <1>1, <1>2, <2>2, <2>3, <3>2, <4>2 DEF WEInv, Family, Live
      <4> QED BY <4>1, <4>2
    <3> QED BY <3>1, <3>2 DEF Family, Boot
  <2>7. NoSleepOverZombie'
    <3> SUFFICES ASSUME NEW p \in Thread, status'[p] = "WAITING"
                 PROVE  /\ Children(p)' # {}
                        /\ p # InitProc => HangingChildren(p)' = {}
      BY DEF NoSleepOverZombie
    <3>1. status[p] = "WAITING" /\ p # cur
      BY <1>1, <2>2
    <3>2. Children(p)' = Children(p) /\ HangingChildren(p)' = HangingChildren(p)
      BY <1>1, <1>2, <2>2, <3>1 DEF Children, HangingChildren, Live
    <3> QED BY <3>1, <3>2 DEF WEInv, NoSleepOverZombie
  <2>8. PagesHeld'
    <3>1. Cardinality(Active') = Cardinality(Active) + 1
      <4>1. child \notin Active
        BY <1>2, Zenon DEF Active, Gone
      <4> QED BY <2>3, <4>1, FiniteProcesses, FS_AddElement, Zenon
    <3>2. Cardinality(Zombies') = Cardinality(Zombies)
      BY <2>3
    <3> DEFINE a == Cardinality(Active)
               z == Cardinality(Zombies)
    <3>3. a \in Nat /\ z \in Nat /\ used >= ProcPages * a + 2 * z
      BY FiniteProcesses DEF WEInv, PagesHeld
    <3> HIDE DEF a, z
    <3>4. used + ProcPages >= ProcPages * (a + 1) + 2 * z
      BY <3>3, PageCounts
    <3> QED BY <1>3, <3>1, <3>2, <3>4 DEF PagesHeld, a, z
  <2> QED BY <2>1, <2>4, <2>5, <2>6, <2>7, <2>8 DEF WEInv
<1>4. CASE /\ ~ForkFits
           /\ next_pid' = IF ForkTakesPid THEN child ELSE next_pid
           /\ used' = KernelPages
           /\ UNCHANGED <<parent, pc, status, ready, ticks, kernel>>
  <2>1. ThreadInv'
    BY <1>1, <1>4 DEF ThreadInv, ThreadTypeOK, ReadyListExact, NoPanic, IdleStays
  <2>2. next_pid' \in 3..MaxPid /\ next_pid' >= next_pid /\ used' \in 0..KernelPages /\ used' >= used
    BY <1>1, <1>4, WaitExitAssumption
  <2> QED BY <1>4, <2>1, <2>2, NobodyComesOrGoes
<1> QED BY <1>3, <1>4 DEF sys_fork

\* What sys_exit does to the threads: the caller hangs, its parent is awake,
\* and nobody else changes but the one that runs next.
LEMMA ExitKeepsLists ==
  ASSUME WEInv, sys_exit
  PROVE  /\ ThreadInv' /\ cur \notin Boot /\ status'[cur] = "HANGING"
         /\ parent[cur] \in Thread /\ status'[parent[cur]] \notin Stopped \ {"BLOCKED"}
         /\ \A t \in Thread \ {cur, Idle, parent[cur]} :
              IF t = cur' THEN status[t] = "READY" /\ status'[t] = "RUNNING"
                          ELSE status'[t] = status[t]
         /\ status[parent[cur]] # "DIED" /\ status'[parent[cur]] # "DIED"
<1> USE WETypes
<1> DEFINE par == parent[cur]
           wake == par # -1 /\ WakesParent(cur)
           st1 == IF wake THEN UnblockStatus(status, par) ELSE status
           rd == IF wake THEN UnblockReady(ready, par) ELSE ready
           ok == /\ par # -1 /\ status[par] # "DIED"
                 /\ wake => UnblockOK(status, ready, par)
           st == [st1 EXCEPT ![cur] = "HANGING"]
<1>1. /\ cur \notin Boot /\ cur \in Live /\ schedule(st, rd, ok)
      /\ intr' \in [Thread -> {"on", "off"}]
  BY Zenon DEF sys_exit, InUser, MayExit, Boot, Live, thread_block
<1>2. /\ par \in Thread /\ par # cur /\ status[par] \notin {"DIED", "HANGING"}
      /\ wake <=> status[par] = "WAITING"
  BY <1>1 DEF WEInv, Family, Live, WakesParent
<1>3. /\ \A t \in Thread : status[t] = "RUNNING" <=> t = cur
      /\ \A t \in Thread : status[t] = "READY" <=> t \in Range(ready)
      /\ IsInjective(ready) /\ IdleStays /\ ThreadTypeOK
      /\ status[Idle] # "WAITING" /\ Idle \in Thread /\ cur # Idle
  BY <1>1 DEF ThreadInv, ReadyListExact, IdleStays, Boot
<1>4. ok
  BY <1>2, <1>3 DEF UnblockOK, Stopped
<1>5. /\ st \in [Thread -> TaskStatus] /\ st[cur] = "HANGING"
      /\ st[par] = IF wake THEN "READY" ELSE status[par]
      /\ \A t \in Thread \ {cur, par} : st[t] = status[t]
  BY <1>2, SMTT(30) DEF UnblockStatus, TaskStatus
<1>6. /\ rd \in Seq(Thread) /\ IsInjective(rd)
      /\ Range(rd) = IF wake THEN Range(ready) \cup {par} ELSE Range(ready)
  <2>1. wake => par \notin Range(ready)
    BY <1>2, <1>3
  <2>2. rd = IF wake THEN <<par>> \o ready ELSE ready
    BY DEF UnblockReady
  <2>3. par \in Thread /\ ready \in Seq(Thread) /\ IsInjective(ready)
    BY <1>2, <1>3
  <2> HIDE DEF wake, par, rd
  <2>4. CASE wake
    BY <2>1, <2>2, <2>3, <2>4, PushList
  <2>5. CASE ~wake
    BY <2>2, <2>3, <2>5
  <2> QED BY <2>4, <2>5
<1> HIDE DEF par, wake, st1, rd, ok, st
<1>7. ListsAgree(st, rd) /\ \A t \in Thread : st[t] = "RUNNING" => t = cur
  BY <1>2, <1>3, <1>5, <1>6 DEF ListsAgree
<1>8. rd = << >> => st[Idle] \in Stopped
  <2>1. rd = << >> => Range(rd) = {}
    BY DEF Range
  <2> QED BY <1>2, <1>3, <1>5, <1>6, <2>1, Zenon DEF IdleStays, Stopped
<1>9. /\ Switched
      /\ cur' \in Range(rd) \cup {cur, Idle}
      /\ cur' = cur => cur = Idle \/ cur \in Range(rd) \/ st[cur] = "RUNNING"
      /\ \A t \in Thread \ {cur, cur'} : status'[t] = st[t]
      /\ cur # cur' => status'[cur] = IF st[cur] = "RUNNING" THEN "READY" ELSE st[cur]
      /\ status' = [status' EXCEPT ![cur'] = "RUNNING"]
  BY <1>1, <1>3, <1>4, <1>5, <1>6, <1>7, <1>8, ScheduleKeepsLists, Zenon
<1>10. cur' # cur /\ status'[cur] = "HANGING" /\ status'[cur'] = "RUNNING" /\ cur' \in Thread
  BY <1>2, <1>3, <1>5, <1>6, <1>9 DEF Switched
<1>11. IdleStays'
  <2>1. st[Idle] \in {"RUNNING", "READY", "BLOCKED"}
    BY <1>2, <1>3, <1>5, Zenon DEF IdleStays
  <2>2. status'[Idle] = "RUNNING" \/ status'[Idle] = st[Idle]
    BY <1>3, <1>9, <1>10, Zenon
  <2> QED BY <2>1, <2>2 DEF IdleStays
<1>12. ThreadInv'
  BY <1>1, <1>9, <1>11 DEF ThreadInv, ThreadTypeOK, NoPanic, Switched
<1>13. \A t \in Thread \ {cur, Idle, par} :
         IF t = cur' THEN status[t] = "READY" /\ status'[t] = "RUNNING" ELSE status'[t] = status[t]
  BY <1>3, <1>5, <1>6, <1>9, <1>10
<1>14. status'[par] \notin {"DIED", "HANGING", "WAITING"} /\ status[par] # "DIED"
  BY <1>2, <1>5, <1>9, <1>10, Zenon
<1> QED BY <1>1, <1>2, <1>10, <1>12, <1>13, <1>14 DEF par, Stopped

\* A process exits.
LEMMA ExitInv == ASSUME WEInv, sys_exit PROVE WEInv'
<1> USE WETypes
<1> DEFINE par == parent[cur]
<1>1. /\ ThreadInv' /\ cur \notin Boot /\ status'[cur] = "HANGING"
      /\ par \in Thread /\ status'[par] \notin {"DIED", "HANGING", "WAITING"}
      /\ status[par] # "DIED"
      /\ \A t \in Thread \ {cur, Idle, par} :
           IF t = cur' THEN status[t] = "READY" /\ status'[t] = "RUNNING" ELSE status'[t] = status[t]
  BY ExitKeepsLists DEF Stopped
<1>2. IdleStays /\ IdleStays'
  BY <1>1 DEF ThreadInv
<1>3. status[par] # "HANGING" /\ par # cur
  BY <1>1 DEF WEInv, Family, Live
<1>4. \A t \in Thread \ {cur} :
        /\ status'[t] = "DIED" <=> status[t] = "DIED"
        /\ status'[t] = "HANGING" <=> status[t] = "HANGING"
        /\ status'[t] = "WAITING" => status[t] = "WAITING" /\ t # par
  BY <1>1, <1>2, <1>3, Zenon DEF IdleStays
<1>5. /\ parent' = Adopted(cur) /\ used' = used - ReleasedBitmapPages /\ UNCHANGED <<next_pid, pc>>
  BY DEF sys_exit
<1>6. /\ parent' \in [Thread -> Thread \cup {-1}]
      /\ \A t \in Thread :
           parent'[t] = IF status[t] # "DIED" /\ parent[t] = cur THEN InitProc ELSE parent[t]
  BY <1>5 DEF Adopted, Children, Live, Boot
<1> HIDE DEF par
<1>7. Live' = Live /\ Active' = Active \ {cur} /\ Zombies' = Zombies \cup {cur}
  BY <1>1, <1>4 DEF Live, Active, Zombies, Gone
<1>8. cur \in Active /\ cur \notin Zombies
  BY <1>1 DEF Active, Zombies, Gone, Boot
<1>9. Cardinality(Active') = Cardinality(Active) - 1 /\ Cardinality(Zombies') = Cardinality(Zombies) + 1
  BY <1>7, <1>8, FiniteProcesses, FS_AddElement, FS_RemoveElement, Zenon
<1>10. /\ used' >= ProcPages * Cardinality(Active') + 2 * Cardinality(Zombies')
       /\ used' \in 0..KernelPages
  <2> DEFINE a == Cardinality(Active)
             z == Cardinality(Zombies)
  <2>1. a \in Nat /\ z \in Nat /\ used >= ProcPages * a + 2 * z
    BY FiniteProcesses DEF WEInv, PagesHeld
  <2>2. a > 0
    BY <1>8, FiniteProcesses, FS_EmptySet
  <2> HIDE DEF a, z
  <2>3. /\ used - ReleasedBitmapPages >= ProcPages * (a - 1) + 2 * (z + 1)
        /\ ProcPages * (a - 1) >= 0
    BY <2>1, <2>2, PageCounts
  <2>4. used - ReleasedBitmapPages \in 0..KernelPages
    <3>1. PICK x \in Nat : used - ReleasedBitmapPages >= x + 2 * (z + 1)
      <4>1. ProcPages * (a - 1) \in Nat
        BY <2>1, <2>2, <2>3, PageCounts
      <4> QED BY <2>3, <4>1, Zenon
    <3> QED BY <2>1, <3>1, PageCounts, WaitExitAssumption
  <2>5. used' >= ProcPages * (Cardinality(Active) - 1) + 2 * (Cardinality(Zombies) + 1)
    BY <1>5, <2>3 DEF a, z
  <2> QED BY <1>5, <1>9, <2>4, <2>5
<1>11. WETypeOK'
  BY <1>1, <1>5, <1>6, <1>10 DEF WEInv, WETypeOK, ThreadInv
<1>12. BootStays'
  BY <1>1, <1>4, <1>6 DEF WEInv, BootStays, Boot, Gone
<1>13. Family'
  <2>1. \A p \in Live' : p <= next_pid'
    BY <1>5, <1>7 DEF WEInv, Family
  <2>2. ASSUME NEW p \in Live \ Boot
        PROVE  parent'[p] \in Live /\ status'[parent'[p]] # "HANGING" /\ parent'[p] # p
    <3>1. CASE parent[p] = cur
      BY <1>1, <1>4, <1>6, <2>2, <3>1 DEF WEInv, BootStays, Live, Boot, Gone
    <3>2. CASE parent[p] # cur
      BY <1>1, <1>4, <1>6, <2>2, <3>2 DEF WEInv, Family, Live
    <3> QED BY <3>1, <3>2
  <2> QED BY <1>7, <2>1, <2>2 DEF Family, Boot
<1>14. NoSleepOverZombie'
  <2> SUFFICES ASSUME NEW p \in Thread, status'[p] = "WAITING"
               PROVE  /\ Children(p)' # {}
                      /\ p # InitProc => HangingChildren(p)' = {}
    BY DEF NoSleepOverZombie
  <2>1. status[p] = "WAITING" /\ p # cur /\ p # par
    BY <1>1, <1>4
  <2>2. Children(p) \subseteq Children(p)'
    BY <1>6, <1>7, <2>1 DEF Children, Live
  <2>3. p # InitProc => HangingChildren(p)' \subseteq HangingChildren(p)
    BY <1>4, <1>6, <1>7, <2>1 DEF Children, HangingChildren, Live, par
  <2> QED BY <2>1, <2>2, <2>3 DEF WEInv, NoSleepOverZombie
<1> QED BY <1>1, <1>10, <1>11, <1>12, <1>13, <1>14 DEF WEInv, PagesHeld

\* A process reaps a zombie, learns that it has no child, or sleeps.
LEMMA WaitInv == ASSUME WEInv, sys_wait PROVE WEInv'
<1> USE WETypes
<1>0. cur \notin {Main, Idle} /\ UNCHANGED <<parent, next_pid>>
  BY DEF sys_wait
<1>1. CASE /\ ~Reaps(cur) /\ Children(cur) = {}
           /\ pc' = [pc EXCEPT ![cur] = "user"]
           /\ intr' = [intr EXCEPT ![cur] = "on"]
           /\ UNCHANGED <<status, ready, cur, ticks, kernel, used>>
  <2>1. ThreadInv'
    BY <1>1 DEF ThreadInv, ThreadTypeOK, ReadyListExact, NoPanic, IdleStays
  <2>2. pc' \in [Thread -> {"user", "wait", "io"}]
    BY <1>1
  <2> QED BY <1>0, <1>1, <2>1, <2>2, OnlyThreadsMove, Zenon
<1>2. CASE /\ ~Reaps(cur) /\ Children(cur) # {}
           /\ thread_block(status, ready, TRUE, "WAITING")
           /\ pc' = [pc EXCEPT ![cur] = "wait"]
           /\ intr' = [intr EXCEPT ![cur] = "off"]
           /\ UNCHANGED used
  BY <1>0, <1>2, SleepInv, Zenon DEF Reaps
<1>3. ASSUME NEW child \in HangingChildren(cur),
             status' = [status EXCEPT ![child] = "DIED"],
             ready' = IF child \in Range(ready) THEN SelectSeq(ready, LAMBDA u : u # child) ELSE ready,
             used' = used - 2, pc' = [pc EXCEPT ![cur] = "user"], intr' = [intr EXCEPT ![cur] = "on"],
             UNCHANGED <<cur, ticks, kernel>>
      PROVE  WEInv'
  <2>1. child \in Thread /\ status[child] = "HANGING" /\ parent[child] = cur
    BY DEF HangingChildren, Children, Live
  <2>2. ThreadInv'
    BY <1>3, <2>1, ReapKeepsLists, Zenon
  <2>3. Live' = Live \ {child} /\ Active' = Active /\ Zombies' = Zombies \ {child} /\ child \in Zombies
    BY <1>3, <2>1 DEF Live, Active, Zombies, Gone
  <2>4. Cardinality(Zombies') = Cardinality(Zombies) - 1 /\ Cardinality(Active') = Cardinality(Active)
    BY <2>3, FiniteProcesses, FS_RemoveElement, Zenon
  <2>5. PagesHeld' /\ used' \in 0..KernelPages
    <3> DEFINE a == Cardinality(Active)
               z == Cardinality(Zombies)
    <3>1. a \in Nat /\ z \in Nat /\ used >= ProcPages * a + 2 * z
      BY FiniteProcesses DEF WEInv, PagesHeld
    <3>2. z > 0
      BY <2>3, FiniteProcesses, FS_EmptySet
    <3> HIDE DEF a, z
    <3>3. used - 2 >= ProcPages * a + 2 * (z - 1) /\ ProcPages * a >= 0
      BY <3>1, <3>2, PageCounts
    <3>4. used' \in 0..KernelPages
      <4>1. used - 2 \in 0..KernelPages
        <5>1. PICK x \in Nat : used - 2 >= x + 2 * (z - 1)
          <6>1. ProcPages * a \in Nat
            BY <3>1, PageCounts
          <6> QED BY <3>3, <6>1, Zenon
        <5> QED BY <3>1, <3>2, <5>1, WaitExitAssumption, SMTT(30)
      <4> QED BY <1>3, <4>1
    <3> QED BY <1>3, <2>4, <3>3, <3>4 DEF PagesHeld, a, z
  <2>6. WETypeOK'
    BY <1>0, <1>3, <2>2, <2>5 DEF WEInv, WETypeOK, ThreadInv
  <2>7. BootStays'
    BY <1>0, <1>3, <2>1 DEF WEInv, BootStays, Boot, Gone
  <2>8. Family'
    BY <1>0, <1>3, <2>1, <2>3, SMTT(30) DEF WEInv, Family, Live, Boot
  <2>9. NoSleepOverZombie'
    <3> SUFFICES ASSUME NEW p \in Thread, status'[p] = "WAITING"
                 PROVE  /\ Children(p)' # {}
                        /\ p # InitProc => HangingChildren(p)' = {}
      BY DEF NoSleepOverZombie
    <3>1. status[p] = "WAITING" /\ p # cur
      BY <1>3, <2>1
    <3>2. Children(p)' = Children(p) /\ HangingChildren(p)' = HangingChildren(p)
      BY <1>0, <1>3, <2>1, <3>1, SMTT(30) DEF Children, HangingChildren, Live
    <3> QED BY <3>1, <3>2 DEF WEInv, NoSleepOverZombie
  <2> QED BY <2>2, <2>5, <2>6, <2>7, <2>8, <2>9 DEF WEInv
<1> QED BY <1>1, <1>2, <1>3, Zenon DEF sys_wait

\* init is the only process thread_init leaves.
LEMMA WEInvInit == ASSUME WEInit PROVE WEInv
<1> USE WaitExitAssumption, ThreadAssumption
<1>1. ThreadInv
  BY InitInv DEF WEInit
<1>2. PICK n \in Taken : used = ProcPages + n
  BY DEF WEInit
<1>3. n \in Nat /\ used \in 0..KernelPages /\ used >= ProcPages
  BY <1>2, PageCounts DEF ReleasedBitmapPages
<1>4. /\ status[InitProc] = "READY" /\ status[Main] = "RUNNING"
      /\ \A t \in Thread : status[t] \in {"RUNNING", "READY", "DIED"}
      /\ \A t \in Thread \ {Main, InitProc, Idle} : status[t] = "DIED"
  BY DEF WEInit, ThreadInit
<1>5. /\ parent = [p \in Thread |-> -1] /\ next_pid = 3 /\ pc = [p \in Thread |-> "user"]
  BY DEF WEInit
<1>6. WETypeOK
  BY <1>1, <1>3, <1>5 DEF WETypeOK, ThreadInv
<1>7. BootStays /\ NoSleepOverZombie
  BY <1>4, <1>5, Zenon DEF BootStays, NoSleepOverZombie, Boot, Gone
<1>10. Family
  <2>1. Live \subseteq Boot
    BY <1>4 DEF Live, Boot
  <2> QED BY <1>5, <2>1 DEF Family, Boot
<1>8. Active = {InitProc} /\ Zombies = {}
  BY <1>4, SMTT(30) DEF Active, Zombies, Gone
<1>9. PagesHeld
  <2>1. Cardinality(Active) = 1 /\ Cardinality(Zombies) = 0
    BY <1>8, FS_EmptySet, FS_Singleton, Zenon
  <2> QED BY <1>3, <2>1, PageCounts DEF PagesHeld
<1> QED BY <1>1, <1>6, <1>7, <1>9, <1>10 DEF WEInv

\* Every step keeps the invariant.
LEMMA WEInvNext == ASSUME WEInv, [WENext]_weVars PROVE WEInv'
<1>1. CASE UNCHANGED weVars
  <2>1. ThreadInv' /\ UNCHANGED <<status, parent, pc, next_pid, used>>
    BY <1>1 DEF weVars, threadVars, procVars, WEInv, ThreadInv, ThreadTypeOK, ReadyListExact, NoPanic, IdleStays
  <2> QED BY <2>1, WETypes, OnlyThreadsMove, Zenon
<1> QED BY <1>1, BackgroundInv, ForkInv, ExitInv, WaitInv, IoInv DEF WENext

-----------------------------------------------------------------------------
\* The inductive invariant holds in every reachable state: in particular the
\* pages of every process are counted in used.
THEOREM WaitExitInvariant == WESafety => []WEInv
  BY WEInvInit, WEInvNext, PTL DEF WESafety

\* However processes exit and are reaped, the parent of a process is alive
\* when sys_exit dereferences pid2thread(parent_pid), no ASSERT fails, and the
\* count of kernel pages stays within the pool.
THEOREM ParentAlwaysLives == WESafety => []ParentLives
<1>1. WEInv => ParentLives
  BY DEF WEInv, ParentLives, Family, Boot, ThreadInv
<1> QED BY <1>1, WaitExitInvariant, PTL

\* sys_exit wakes the parent in time: a process other than init never sleeps
\* in sys_wait while a child of it is a zombie, nor without a child.
THEOREM NobodySleepsOverZombie == WESafety => []NoSleepOverZombie
<1>1. WEInv => NoSleepOverZombie
  BY DEF WEInv
<1> QED BY <1>1, WaitExitInvariant, PTL
=============================================================================
