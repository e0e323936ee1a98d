-------------------------------- MODULE Sync --------------------------------
(***************************************************************************)
(* Re-entrant locks: lock_acquire and lock_release of thread/sync.c.  Any  *)
(* thread but idle calls them, in a system call (interrupts off) or in a   *)
(* kernel thread (interrupts on, preempted between any two steps), and may *)
(* nest locks in any order.  Each semaphore is that of a lock.             *)
(***************************************************************************)
EXTENDS Sema

CONSTANTS
  NULL,      \* holder of a free lock
  MaxRepeat  \* bound on nested acquisitions of one lock

ASSUME SyncAssumption ==
  /\ NULL \notin Thread
  /\ MaxRepeat \in Nat \ {0}

Lock == Sem

VARIABLES
  holder,   \* Lock.holder
  repeat,   \* Lock.holder_repeat_nr
  pc,       \* where each thread is in sync.c; "out" = in none of it
  lk,       \* the lock the thread is acquiring or releasing
  old,      \* old_status of its lock_acquire
  depth     \* acquisitions the caller still has to release, per lock

lockVars == <<holder, repeat>>
callVars == <<pc, lk, old, depth>>
syncVars == <<threadVars, semaVars, lockVars, callVars>>

SyncInit ==
  /\ ThreadInit
  /\ SemaInit(Lock)
  /\ holder = [l \in Lock |-> NULL]
  /\ repeat = [l \in Lock |-> 0]
  /\ pc = [t \in Thread |-> "out"]
  /\ lk \in [Thread -> Lock]
  /\ \A t, u \in Thread : lk[t] = lk[u]
  /\ old = intr
  /\ depth = [t \in Thread |-> [l \in Lock |-> 0]]

\* The thread on the CPU is at step p of sync.c.
At(p) == kernel = "up" /\ cur # Idle /\ pc[cur] = p

Goto(p) == pc' = [pc EXCEPT ![cur] = p]

\* Mutant: any thread goes deeper into a lock that is held.
AcquireIfHeld(l) ==
  /\ At("out") /\ depth[cur][l] < MaxRepeat
  /\ lk' = [lk EXCEPT ![cur] = l]
  /\ old' = [old EXCEPT ![cur] = intr[cur]]
  /\ \/ /\ holder[l] # NULL
        /\ repeat' = [repeat EXCEPT ![l] = @ + 1]
        /\ depth' = [depth EXCEPT ![cur][l] = @ + 1]
        /\ UNCHANGED pc
     \/ /\ holder[l] = NULL
        /\ Goto("down")
        /\ UNCHANGED <<repeat, depth>>
  /\ UNCHANGED <<threadVars, semaVars, holder>>

\* lock_acquire: a holder goes deeper, any other thread enters sema_down.
lock_acquire(l) ==
  /\ At("out") /\ depth[cur][l] < MaxRepeat
  /\ lk' = [lk EXCEPT ![cur] = l]
  /\ old' = [old EXCEPT ![cur] = intr[cur]]
  /\ \/ /\ holder[l] = cur
        /\ repeat' = [repeat EXCEPT ![l] = @ + 1]
        /\ depth' = [depth EXCEPT ![cur][l] = @ + 1]
        /\ UNCHANGED pc
     \/ /\ holder[l] # cur
        /\ Goto("down")
        /\ UNCHANGED <<repeat, depth>>
  /\ UNCHANGED <<threadVars, semaVars, holder>>

\* One round of sema_down for lock_acquire: wait, or take the semaphore and
\* restore the caller's interrupt flag.
sema_down ==
  /\ At("down")
  /\ \/ /\ ~CanTake(lk[cur])
        /\ sema_wait(lk[cur])
        /\ intr' = [intr EXCEPT ![cur] = "off"]
        /\ UNCHANGED pc
     \/ /\ CanTake(lk[cur])
        /\ sema_take(lk[cur], TRUE)
        /\ intr' = [intr EXCEPT ![cur] = old[cur]]
        /\ Goto("set")
        /\ UNCHANGED <<status, ready, cur, ticks>>
  /\ UNCHANGED <<lockVars, lk, old, depth>>

\* The rest of lock_acquire, after sema_down returned.
lock_acquired ==
  /\ At("set")
  /\ LET l == lk[cur]
     IN /\ holder' = [holder EXCEPT ![l] = cur]
        /\ AssertThat(repeat[l] = 0)
        /\ repeat' = [repeat EXCEPT ![l] = 1]
        /\ depth' = [depth EXCEPT ![cur][l] = 1]
  /\ Goto("out")
  /\ UNCHANGED <<status, ready, cur, ticks, intr, semaVars, lk, old>>

\* Mutant: the holder is not reset, only the counter.
ReleaseKeepsHolder(l) == holder[l]

\* lock->holder = NULL
ReleasedHolder(l) == NULL

\* lock_release up to its call of sema_up; a nested release returns early.
\* The caller releases only what it has acquired.
lock_release(l) ==
  /\ At("out") /\ depth[cur][l] > 0
  /\ lk' = [lk EXCEPT ![cur] = l]
  /\ depth' = [depth EXCEPT ![cur][l] = @ - 1]
  /\ \/ /\ repeat[l] > 1
        /\ repeat' = [repeat EXCEPT ![l] = @ - 1]
        /\ AssertThat(holder[l] = cur)
        /\ UNCHANGED <<holder, pc>>
     \/ /\ repeat[l] <= 1
        /\ AssertThat(holder[l] = cur /\ repeat[l] = 1)
        /\ holder' = [holder EXCEPT ![l] = ReleasedHolder(l)]
        /\ repeat' = [repeat EXCEPT ![l] = 0]
        /\ Goto("up")
  /\ UNCHANGED <<status, ready, cur, ticks, intr, semaVars, old>>

\* The call of sema_up at the end of lock_release.
lock_released ==
  /\ At("up")
  /\ sema_up(lk[cur])
  /\ Goto("out")
  /\ UNCHANGED <<cur, ticks, intr, lockVars, lk, old, depth>>

\* Steps of the scheduler that do not involve a lock.  A system call returns
\* with all its locks released.
HoldsNone == \A l \in Lock : depth[cur][l] = 0

SyncSched ==
  /\ \/ TimerIntr
     \/ IdleLoop
     \/ SyscallEnter /\ pc[cur] = "out" /\ HoldsNone
     \/ SyscallExit /\ pc[cur] = "out" /\ HoldsNone
     \/ \E t \in Thread : Start(t) /\ pc[cur] = "out" /\ HoldsNone
  /\ UNCHANGED <<semaVars, lockVars, callVars>>

SyncNext ==
  \/ SyncSched
  \/ \E l \in Lock : lock_acquire(l)
  \/ sema_down
  \/ lock_acquired
  \/ \E l \in Lock : lock_release(l)
  \/ lock_released

\* The steps a thread takes without being asked to.
GoesOn ==
  \/ sema_down
  \/ lock_acquired
  \/ \E l \in Lock : lock_release(l)
  \/ lock_released
  \/ SyscallExit /\ SyncSched

\* The timer never stops ticking (its interrupt is latched while interrupts
\* are off).  A thread that gets the CPU again and again goes on with the
\* code it is in, in the end releases what it acquired and returns from its
\* system calls: no slice is too short for an instruction.
SyncFairness ==
  /\ SF_syncVars(TimerIntr /\ SyncSched)
  /\ WF_syncVars(IdleLoop /\ SyncSched)
  /\ \A t \in Thread \ {Idle} : SF_syncVars(cur = t /\ GoesOn)

SyncSafety == SyncInit /\ [][SyncNext]_syncVars

SyncSpec == SyncSafety /\ SyncFairness

-----------------------------------------------------------------------------
(* Properties.                                                             *)

SyncTypeOK ==
  /\ SemaTypeOK
  /\ holder \in [Lock -> Thread \cup {NULL}]
  /\ repeat \in [Lock -> Nat]
  /\ pc \in [Thread -> {"out", "down", "set", "up"}]
  /\ lk \in [Thread -> Lock]
  /\ old \in [Thread -> {"on", "off"}]
  /\ depth \in [Thread -> [Lock -> Nat]]

\* At most one thread is between lock_acquire and lock_release of a lock, and
\* holder and holder_repeat_nr are what that thread believes they are.
MutualExclusion ==
  \A l \in Lock, t \in Thread :
    depth[t][l] > 0 => /\ holder[l] = t /\ repeat[l] = depth[t][l]
                       /\ \A u \in Thread \ {t} : depth[u][l] = 0

\* t has lowered the semaphore of l and not raised it yet.
Owns(t, l) == depth[t][l] > 0 \/ (pc[t] \in {"set", "up"} /\ lk[t] = l)

\* No wakeup is lost, although sema_up wakes one thread only and another may
\* take the semaphore before it: a lock whose value is 0 has an owner that
\* will raise it, and if threads wait for a lock whose value is 1, some
\* thread that is not asleep is about to take it.
NoLostWakeup ==
  \A l \in Lock :
    /\ value[l] = 0 => \E t \in Thread : Owns(t, l)
    /\ value[l] # 0 /\ waiters[l] # << >> =>
         \E t \in Thread : /\ pc[t] = "down" /\ lk[t] = l
                           /\ status[t] \in {"READY", "RUNNING"}

\* A lock released while threads wait for it is taken again.
LockHandedOn ==
  \A l \in Lock : (value[l] # 0 /\ waiters[l] # << >>) ~> value[l] = 0

\* The locks of sync.c implement Mutex: holder and holder_repeat_nr change
\* only as an owned, counted lock's do, whatever the interleaving.
M == INSTANCE Mutex WITH owner <- holder, count <- repeat

ImplementsMutex == M!MutexSpec

=============================================================================
