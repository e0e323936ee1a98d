----------------------------- MODULE SyncProofs -----------------------------
(***************************************************************************)
(* The locks of sync.c exclude, lose no wakeup and implement Mutex, for    *)
(* any number of threads and locks and any nesting.                        *)
(***************************************************************************)
EXTENDS Sync, ThreadProofs

-----------------------------------------------------------------------------
(* The inductive invariant.                                                *)

\* A thread in a waiters list is blocked in sema_down of that lock.
Queued ==
  \A l \in Lock :
    /\ IsInjective(waiters[l])
    /\ \A t \in Range(waiters[l]) :
         status[t] = "BLOCKED" /\ pc[t] = "down" /\ lk[t] = l

\* The value is 1 or 0, and 0 exactly when one thread has lowered it.
Owners ==
  \A l \in Lock :
    /\ value[l] \in {0, 1}
    /\ value[l] = 0 <=> \E t \in Thread : Owns(t, l)
    /\ \A t, u \in Thread : Owns(t, l) /\ Owns(u, l) => t = u

\* holder and holder_repeat_nr are what the callers did.
Holders ==
  \A l \in Lock :
    /\ holder[l] = NULL => repeat[l] = 0
    /\ \A t \in Thread : holder[l] = t <=> depth[t][l] > 0
    /\ \A t \in Thread : holder[l] = t => repeat[l] = depth[t][l]

\* A thread inside lock_acquire or past the middle of lock_release does not
\* hold that lock; idle never calls either.
Calls ==
  /\ \A t \in Thread : pc[t] # "out" => depth[t][lk[t]] = 0
  /\ pc[Idle] = "out"

\* If threads wait for a free lock, one that is awake is about to take it.
Waking ==
  \A l \in Lock :
    value[l] # 0 /\ waiters[l] # << >> =>
      \E t \in Thread : /\ pc[t] = "down" /\ lk[t] = l
                        /\ status[t] \in {"READY", "RUNNING"}

SyncInv ==
  /\ ThreadInv /\ SyncTypeOK
  /\ Queued /\ Owners /\ Holders /\ Calls /\ Waking

LEMMA SyncInitInv == SyncInit => SyncInv
<1> SUFFICES ASSUME SyncInit PROVE SyncInv
  OBVIOUS
<1> USE ThreadAssumption, SyncAssumption DEF Lock
<1>1. ThreadInv
  BY InitInv DEF SyncInit
<1>2. SyncTypeOK
  <2>1. /\ value \in [Sem -> 0..255] /\ waiters \in [Sem -> Seq(Thread)]
        /\ holder \in [Lock -> Thread \cup {NULL}] /\ repeat \in [Lock -> Nat]
        /\ depth \in [Thread -> [Lock -> Nat]]
    BY DEF SyncInit, SemaInit
  <2>2. /\ pc \in [Thread -> {"out", "down", "set", "up"}]
        /\ lk \in [Thread -> Lock]
        /\ old \in [Thread -> {"on", "off"}]
    BY <1>1 DEF SyncInit, ThreadInv, ThreadTypeOK
  <2> QED BY <1>1, <2>1, <2>2, Zenon DEF SyncTypeOK, SemaTypeOK, ThreadInv
<1>3. \A l \in Lock : waiters[l] = << >> /\ value[l] = 1
  BY DEF SyncInit, SemaInit
<1>4. Queued /\ Waking
  BY <1>3 DEF Queued, Waking, Range, IsInjective
<1>5. \A t \in Thread : pc[t] = "out" /\ \A l \in Lock : depth[t][l] = 0 /\ ~Owns(t, l)
  BY DEF SyncInit, Owns
<1>6. Owners
  BY <1>3, <1>5 DEF Owners
<1>7. Holders /\ Calls
  BY <1>5 DEF Holders, Calls, SyncInit
<1> QED BY <1>1, <1>2, <1>4, <1>6, <1>7 DEF SyncInv

-----------------------------------------------------------------------------
(* Steps of the scheduler.                                                 *)

\* A step of the scheduler leaves stopped threads stopped and ready ones
\* ready or running, idle aside.
LEMMA SchedSteps ==
  ASSUME ThreadInv, SyncSched
  PROVE  /\ ThreadInv'
         /\ \A t \in Thread \ {Idle} :
              /\ status[t] = "BLOCKED" => status'[t] = "BLOCKED"
              /\ status[t] \in {"READY", "RUNNING"} => status'[t] \in {"READY", "RUNNING"}
<1> USE ThreadAssumption
<1>1. CASE TimerIntr \/ IdleLoop
  BY <1>1, SchedulerSteps
<1>2. CASE SyscallEnter \/ SyscallExit
  BY <1>2, SyscallInv, Zenon DEF SyscallEnter, SyscallExit
<1>3. CASE \E t \in Thread : Start(t)
  <2>1. PICK t \in Thread : Start(t)
    BY <1>3
  <2> QED BY <2>1, StartInv, Zenon DEF Start, StartStatus, ThreadInv, ThreadTypeOK
<1> QED BY <1>1, <1>2, <1>3, Zenon DEF SyncSched

LEMMA SyncSchedInv == SyncInv /\ SyncSched => SyncInv'
<1> SUFFICES ASSUME SyncInv, SyncSched PROVE SyncInv'
  OBVIOUS
<1> USE ThreadAssumption
<1>1. UNCHANGED <<value, waiters, holder, repeat, pc, lk, old, depth>>
  BY DEF SyncSched, semaVars, lockVars, callVars
<1>2. /\ ThreadInv'
      /\ \A t \in Thread \ {Idle} :
           /\ status[t] = "BLOCKED" => status'[t] = "BLOCKED"
           /\ status[t] \in {"READY", "RUNNING"} => status'[t] \in {"READY", "RUNNING"}
  BY SchedSteps DEF SyncInv
<1>3. SyncTypeOK'
  BY <1>1, <1>2, Zenon DEF SyncInv, SyncTypeOK, SemaTypeOK, ThreadInv
<1>4. \A l \in Lock : Range(waiters[l]) \subseteq Thread
  BY RangeOfSeq DEF SyncInv, SyncTypeOK, SemaTypeOK, Lock
<1>5. Queued'
  BY <1>1, <1>2, <1>4 DEF SyncInv, Queued, Calls
<1>6. Owners' /\ Holders' /\ Calls'
  BY <1>1 DEF SyncInv, Owners, Owns, Holders, Calls
<1>7. Waking'
  BY <1>1, <1>2 DEF SyncInv, Waking, Calls
<1> QED BY <1>2, <1>3, <1>5, <1>6, <1>7 DEF SyncInv

-----------------------------------------------------------------------------
(* Steps of sync.c that do not switch threads.                             *)

\* The types of the variables, unfolded.
LEMMA SyncTypes ==
  ASSUME SyncInv
  PROVE  /\ cur \in Thread /\ status \in [Thread -> TaskStatus]
         /\ ready \in Seq(Thread) /\ status[cur] = "RUNNING" /\ kernel = "up"
         /\ value \in [Lock -> 0..255] /\ waiters \in [Lock -> Seq(Thread)]
         /\ holder \in [Lock -> Thread \cup {NULL}] /\ repeat \in [Lock -> Nat]
         /\ pc \in [Thread -> {"out", "down", "set", "up"}]
         /\ lk \in [Thread -> Lock] /\ old \in [Thread -> {"on", "off"}]
         /\ intr \in [Thread -> {"on", "off"}]
         /\ depth \in [Thread -> [Lock -> Nat]]
         /\ NULL \notin Thread
         /\ \A l \in Lock : Range(waiters[l]) \subseteq Thread
         /\ \A l \in Lock : cur \notin Range(waiters[l])
<1>1. /\ cur \in Thread /\ status \in [Thread -> TaskStatus]
      /\ ready \in Seq(Thread) /\ status[cur] = "RUNNING" /\ kernel = "up"
      /\ intr \in [Thread -> {"on", "off"}]
  BY DEF SyncInv, ThreadInv, ThreadTypeOK, ReadyListExact, NoPanic
<1>2. /\ value \in [Lock -> 0..255] /\ waiters \in [Lock -> Seq(Thread)]
      /\ holder \in [Lock -> Thread \cup {NULL}] /\ repeat \in [Lock -> Nat]
      /\ pc \in [Thread -> {"out", "down", "set", "up"}]
      /\ lk \in [Thread -> Lock] /\ old \in [Thread -> {"on", "off"}]
      /\ depth \in [Thread -> [Lock -> Nat]]
  BY Zenon DEF SyncInv, SyncTypeOK, SemaTypeOK, Lock
<1>3. \A l \in Lock : Range(waiters[l]) \subseteq Thread
  BY <1>2, RangeOfSeq
<1>4. \A l \in Lock : cur \notin Range(waiters[l])
  BY <1>1 DEF SyncInv, Queued
<1> QED BY <1>1, <1>2, <1>3, <1>4, SyncAssumption, Zenon

\* The same for the next state, the other way round.
LEMMA TypesFollow ==
  ASSUME ThreadInv',
         value' \in [Lock -> 0..255], waiters' \in [Lock -> Seq(Thread)],
         holder' \in [Lock -> Thread \cup {NULL}], repeat' \in [Lock -> Nat],
         pc' \in [Thread -> {"out", "down", "set", "up"}],
         lk' \in [Thread -> Lock], old' \in [Thread -> {"on", "off"}],
         depth' \in [Thread -> [Lock -> Nat]]
  PROVE  SyncTypeOK'
<1>1. ThreadTypeOK'
  BY DEF ThreadInv
<1>2. SemaTypeOK'
  BY <1>1, Zenon DEF SemaTypeOK, Lock
<1> QED BY <1>2 DEF SyncTypeOK

\* lock_acquire: a holder goes deeper, another thread enters sema_down.
LEMMA AcquireInv ==
  ASSUME SyncInv, NEW l \in Lock, lock_acquire(l) PROVE SyncInv'
<1> USE SyncTypes
<1>1. /\ pc[cur] = "out" /\ cur # Idle
      /\ UNCHANGED <<status, ready, cur, ticks, intr, kernel, value, waiters, holder>>
      /\ lk' = [lk EXCEPT ![cur] = l] /\ old' = [old EXCEPT ![cur] = intr[cur]]
  BY Zenon DEF lock_acquire, At, threadVars, semaVars
<1>2. ThreadInv'
  BY <1>1, Zenon DEF SyncInv, ThreadInv, ThreadTypeOK, ReadyListExact, NoPanic, IdleStays
<1>3. CASE /\ holder[l] = cur /\ repeat' = [repeat EXCEPT ![l] = @ + 1]
           /\ depth' = [depth EXCEPT ![cur][l] = @ + 1] /\ pc' = pc
  <2>1. /\ depth' \in [Thread -> [Lock -> Nat]]
        /\ depth'[cur][l] = depth[cur][l] + 1
        /\ \A t \in Thread, m \in Lock :
             t # cur \/ m # l => depth'[t][m] = depth[t][m]
    BY <1>3
  <2>2. depth[cur][l] > 0 /\ repeat[l] = depth[cur][l]
    BY <1>3, Zenon DEF SyncInv, Holders
  <2>3. SyncTypeOK'
    <3>1. repeat' \in [Lock -> Nat] /\ lk' \in [Thread -> Lock] /\ old' \in [Thread -> {"on", "off"}]
      BY <1>1, <1>3
    <3> QED BY <1>1, <1>2, <1>3, <2>1, <3>1, TypesFollow, Zenon
  <2>4. \A t \in Thread, m \in Lock : Owns(t, m)' <=> Owns(t, m)
    <3> SUFFICES ASSUME NEW t \in Thread, NEW m \in Lock PROVE Owns(t, m)' <=> Owns(t, m)
      BY Zenon
    <3>1. depth'[t][m] > 0 <=> depth[t][m] > 0
      <4>1. CASE t = cur /\ m = l
        <5>1. depth[cur][l] \in Nat
          OBVIOUS
        <5> QED BY <2>1, <2>2, <4>1, <5>1
      <4>2. CASE t # cur \/ m # l
        BY <2>1, <4>2, Zenon
      <4> QED BY <4>1, <4>2, Zenon
    <3>2. pc'[t] \in {"set", "up"} => t # cur
      BY <1>1, <1>3, Zenon
    <3>3. t # cur => lk'[t] = lk[t]
      BY <1>1
    <3> QED BY <1>1, <1>3, <3>1, <3>2, <3>3, Zenon DEF Owns
  <2>5. Owners'
    BY <1>1, <2>4, Zenon DEF SyncInv, Owners
  <2>6. Holders'
    <3>1. repeat'[l] = depth'[cur][l] /\ \A m \in Lock \ {l} : repeat'[m] = repeat[m]
      BY <1>3, <2>1, <2>2
    <3>2. holder' = holder /\ Holders
      BY <1>1, Zenon DEF SyncInv
    <3>3. ASSUME NEW m \in Lock, NEW t \in Thread
          PROVE  /\ holder'[m] = t <=> depth'[t][m] > 0
                 /\ holder'[m] = t => repeat'[m] = depth'[t][m]
      <4>1. CASE m = l /\ t = cur
        BY <1>3, <2>1, <2>2, <3>1, <3>2, <4>1
      <4>2. CASE m # l \/ t # cur
        <5>1. depth'[t][m] = depth[t][m] /\ holder'[m] = holder[m]
          BY <2>1, <3>2, <4>2
        <5>2. holder[m] = t => repeat'[m] = repeat[m]
          BY <1>3, <3>1, <4>2, Zenon
        <5> QED BY <3>2, <5>1, <5>2, Zenon DEF Holders
      <4> QED BY <4>1, <4>2, Zenon
    <3>4. ASSUME NEW m \in Lock, holder'[m] = NULL PROVE repeat'[m] = 0
      BY <1>3, <3>1, <3>2, <3>4, Zenon DEF Holders
    <3> QED BY <3>3, <3>4 DEF Holders
  <2>7. Queued' /\ Calls' /\ Waking'
    BY <1>1, <1>3, <2>1 DEF SyncInv, Queued, Calls, Waking
  <2> QED BY <1>2, <2>3, <2>5, <2>6, <2>7, Zenon DEF SyncInv
<1>4. CASE /\ holder[l] # cur /\ pc' = [pc EXCEPT ![cur] = "down"]
           /\ repeat' = repeat /\ depth' = depth
  <2>1. SyncTypeOK'
    <3>1. /\ pc' \in [Thread -> {"out", "down", "set", "up"}]
          /\ lk' \in [Thread -> Lock] /\ old' \in [Thread -> {"on", "off"}]
      BY <1>1, <1>4, Zenon
    <3> QED BY <1>1, <1>2, <1>4, <3>1, TypesFollow, Zenon
  <2>2. \A t \in Thread, m \in Lock : Owns(t, m)' <=> Owns(t, m)
    <3> SUFFICES ASSUME NEW t \in Thread, NEW m \in Lock PROVE Owns(t, m)' <=> Owns(t, m)
      BY Zenon
    <3>1. CASE t = cur
      BY <1>1, <1>4, <3>1, Zenon DEF Owns
    <3>2. CASE t # cur
      <4>1. pc'[t] = pc[t] /\ lk'[t] = lk[t]
        BY <1>1, <1>4, <3>2
      <4> QED BY <1>4, <4>1, Zenon DEF Owns
    <3> QED BY <3>1, <3>2, Zenon
  <2>3. Owners'
    BY <1>1, <2>2, Zenon DEF SyncInv, Owners
  <2>4. depth[cur][l] = 0
    BY <1>4 DEF SyncInv, Holders
  <2>5. Holders' /\ Calls'
    <3>1. Holders'
      BY <1>1, <1>4, Zenon DEF SyncInv, Holders
    <3>2. Calls'
      <4>1. /\ pc'[cur] = "down" /\ lk'[cur] = l
            /\ \A t \in Thread \ {cur} : pc'[t] = pc[t] /\ lk'[t] = lk[t]
        BY <1>1, <1>4
      <4>2. Calls /\ depth' = depth
        BY <1>4, Zenon DEF SyncInv
      <4>3. ASSUME NEW t \in Thread, pc'[t] # "out" PROVE depth'[t][lk'[t]] = 0
        <5>1. CASE t = cur
          BY <2>4, <4>1, <4>2, <5>1, Zenon
        <5>2. CASE t # cur
          BY <4>1, <4>2, <4>3, <5>2, Zenon DEF Calls
        <5> QED BY <5>1, <5>2, Zenon
      <4>4. pc'[Idle] = "out"
        BY <1>1, <4>1, <4>2, ThreadAssumption, Zenon DEF Calls
      <4> QED BY <4>3, <4>4, Zenon DEF Calls
    <3> QED BY <3>1, <3>2, Zenon
  <2>6. Queued' /\ Waking'
    BY <1>1, <1>4 DEF SyncInv, Queued, Waking
  <2> QED BY <1>2, <2>1, <2>3, <2>5, <2>6, Zenon DEF SyncInv
<1> QED BY <1>3, <1>4, Zenon DEF lock_acquire, Goto

\* Nobody but the owner of a lock holds it.
LEMMA OwnerHolds ==
  ASSUME SyncInv, NEW l \in Lock, NEW t \in Thread, Owns(t, l)
  PROVE  /\ value[l] = 0
         /\ \A u \in Thread \ {t} : ~Owns(u, l) /\ depth[u][l] = 0
         /\ depth[t][l] = 0 => holder[l] = NULL /\ repeat[l] = 0
<1>1. /\ value[l] = 0 /\ \A u \in Thread \ {t} : ~Owns(u, l)
  BY DEF SyncInv, Owners
<1>2. ASSUME NEW u \in Thread \ {t} PROVE depth[u][l] = 0
  <2>1. depth[u][l] \in Nat
    BY SyncTypes
  <2>2. ~(depth[u][l] > 0)
    BY <1>1 DEF Owns
  <2> QED BY <2>1, <2>2
<1>3. ASSUME depth[t][l] = 0 PROVE holder[l] = NULL /\ repeat[l] = 0
  <2>1. holder[l] \in Thread \cup {NULL}
    BY SyncTypes, Zenon
  <2>2. \A u \in Thread : depth[u][l] = 0
    BY <1>2, <1>3
  <2>3. \A u \in Thread : holder[l] # u
    BY <2>2 DEF SyncInv, Holders
  <2> QED BY <2>1, <2>3 DEF SyncInv, Holders
<1> QED BY <1>1, <1>2, <1>3

\* The rest of lock_acquire.
LEMMA AcquiredInv == SyncInv /\ lock_acquired => SyncInv'
<1> SUFFICES ASSUME SyncInv, lock_acquired PROVE SyncInv'
  OBVIOUS
<1> DEFINE l == lk[cur]
<1>1. /\ cur \in Thread /\ l \in Lock /\ pc[cur] = "set" /\ cur # Idle /\ Owns(cur, l)
      /\ pc \in [Thread -> {"out", "down", "set", "up"}] /\ kernel = "up"
      /\ depth \in [Thread -> [Lock -> Nat]] /\ repeat \in [Lock -> Nat]
      /\ holder \in [Lock -> Thread \cup {NULL}] /\ NULL \notin Thread
  BY SyncTypes, Zenon DEF lock_acquired, At, Owns
<1>2. depth[cur][l] = 0
  BY <1>1 DEF SyncInv, Calls
<1>3. holder[l] = NULL /\ repeat[l] = 0 /\ \A u \in Thread \ {cur} : depth[u][l] = 0
  BY <1>1, <1>2, OwnerHolds, Zenon
<1>4. /\ holder' = [holder EXCEPT ![l] = cur] /\ repeat' = [repeat EXCEPT ![l] = 1]
      /\ depth' = [depth EXCEPT ![cur][l] = 1] /\ pc' = [pc EXCEPT ![cur] = "out"]
      /\ UNCHANGED <<status, ready, cur, ticks, intr, kernel, value, waiters, lk, old>>
  BY <1>1, <1>3, Zenon DEF lock_acquired, AssertThat, Goto, semaVars
<1>5. /\ depth' \in [Thread -> [Lock -> Nat]] /\ depth'[cur][l] = 1
      /\ \A t \in Thread, m \in Lock : t # cur \/ m # l => depth'[t][m] = depth[t][m]
  BY <1>1, <1>4, Zenon
<1>6. ThreadInv'
  BY <1>4, Zenon DEF SyncInv, ThreadInv, ThreadTypeOK, ReadyListExact, NoPanic, IdleStays
<1>7. SyncTypeOK'
  BY <1>1, <1>4, <1>5, <1>6, Zenon DEF SyncInv, SyncTypeOK, SemaTypeOK, ThreadInv
<1>8. \A t \in Thread, m \in Lock : Owns(t, m)' <=> Owns(t, m)
  <2> SUFFICES ASSUME NEW t \in Thread, NEW m \in Lock PROVE Owns(t, m)' <=> Owns(t, m)
    OBVIOUS
  <2>1. CASE t = cur /\ m = l
    BY <1>1, <1>5, <2>1 DEF Owns
  <2>2. CASE t = cur /\ m # l
    BY <1>1, <1>4, <1>5, <2>2, Zenon DEF Owns
  <2>3. CASE t # cur
    BY <1>1, <1>4, <1>5, <2>3, Zenon DEF Owns
  <2> QED BY <2>1, <2>2, <2>3
<1>9. Owners'
  BY <1>4, <1>8, Zenon DEF SyncInv, Owners
<1>10. Holders'
  <2>1. ASSUME NEW m \in Lock, NEW t \in Thread
        PROVE  /\ holder'[m] = t <=> depth'[t][m] > 0
               /\ holder'[m] = t => repeat'[m] = depth'[t][m]
    <3>1. CASE m = l
      BY <1>1, <1>3, <1>4, <1>5, <3>1
    <3>2. CASE m # l
      <4>1. holder'[m] = holder[m] /\ repeat'[m] = repeat[m] /\ depth'[t][m] = depth[t][m]
        BY <1>1, <1>4, <1>5, <3>2
      <4> QED BY <4>1 DEF SyncInv, Holders
    <3> QED BY <3>1, <3>2
  <2>2. ASSUME NEW m \in Lock, holder'[m] = NULL PROVE repeat'[m] = 0
    BY <1>1, <1>4, <2>2 DEF SyncInv, Holders
  <2> QED BY <2>1, <2>2 DEF Holders
<1>11. Calls'
  BY <1>1, <1>4, <1>5, SyncTypes DEF SyncInv, Calls
<1>12. Queued'
  BY <1>1, <1>4, SyncTypes DEF SyncInv, Queued
<1>13. Waking'
  BY <1>1, <1>4, Zenon DEF SyncInv, Waking
<1> QED BY <1>6, <1>7, <1>9, <1>10, <1>11, <1>12, <1>13 DEF SyncInv

\* lock_release up to sema_up.
LEMMA ReleaseInv ==
  ASSUME SyncInv, NEW l \in Lock, lock_release(l) PROVE SyncInv'
<1>1. /\ cur \in Thread /\ pc[cur] = "out" /\ cur # Idle /\ depth[cur][l] > 0
      /\ Owns(cur, l)
      /\ pc \in [Thread -> {"out", "down", "set", "up"}] /\ kernel = "up"
      /\ depth \in [Thread -> [Lock -> Nat]] /\ repeat \in [Lock -> Nat]
      /\ holder \in [Lock -> Thread \cup {NULL}] /\ NULL \notin Thread
      /\ lk \in [Thread -> Lock]
  BY SyncTypes, Zenon DEF lock_release, At, Owns
<1>2. holder[l] = cur /\ repeat[l] = depth[cur][l]
  BY <1>1 DEF SyncInv, Holders
<1>3. \A u \in Thread \ {cur} : depth[u][l] = 0 /\ ~Owns(u, l)
  BY <1>1, OwnerHolds
<1>4. /\ UNCHANGED <<status, ready, cur, ticks, intr, kernel, value, waiters, old>>
      /\ lk' = [lk EXCEPT ![cur] = l]
      /\ depth' = [depth EXCEPT ![cur][l] = @ - 1]
      /\ repeat' = [repeat EXCEPT ![l] = @ - 1]
      /\ \/ repeat[l] > 1 /\ UNCHANGED <<holder, pc>>
         \/ /\ repeat[l] = 1 /\ holder' = [holder EXCEPT ![l] = NULL]
            /\ pc' = [pc EXCEPT ![cur] = "up"]
  <2>1. repeat[l] \in Nat /\ repeat[l] > 0
    BY <1>1, <1>2
  <2> QED BY <1>1, <1>2, <2>1 DEF lock_release, AssertThat, Goto, semaVars, ReleasedHolder
<1>5. /\ depth' \in [Thread -> [Lock -> Nat]] /\ depth'[cur][l] = depth[cur][l] - 1
      /\ \A t \in Thread, m \in Lock : t # cur \/ m # l => depth'[t][m] = depth[t][m]
  BY <1>1, <1>4
<1>6. /\ repeat' \in [Lock -> Nat] /\ repeat'[l] = depth'[cur][l]
      /\ \A m \in Lock \ {l} : repeat'[m] = repeat[m] /\ holder'[m] = holder[m]
      /\ holder'[l] = IF repeat[l] = 1 THEN NULL ELSE cur
      /\ holder' \in [Lock -> Thread \cup {NULL}]
      /\ pc'[cur] = IF repeat[l] = 1 THEN "up" ELSE "out"
      /\ \A t \in Thread \ {cur} : pc'[t] = pc[t] /\ lk'[t] = lk[t]
      /\ lk'[cur] = l
      /\ pc' \in [Thread -> {"out", "down", "set", "up"}] /\ lk' \in [Thread -> Lock]
  <2>1. /\ repeat' \in [Lock -> Nat] /\ repeat'[l] = depth'[cur][l]
        /\ \A m \in Lock \ {l} : repeat'[m] = repeat[m]
    BY <1>1, <1>2, <1>4, <1>5
  <2>2. /\ lk'[cur] = l /\ lk' \in [Thread -> Lock]
        /\ \A t \in Thread \ {cur} : lk'[t] = lk[t]
    BY <1>1, <1>4
  <2>3. CASE repeat[l] > 1 /\ UNCHANGED <<holder, pc>>
    BY <1>1, <1>2, <2>1, <2>2, <2>3
  <2>4. CASE /\ repeat[l] = 1 /\ holder' = [holder EXCEPT ![l] = NULL]
             /\ pc' = [pc EXCEPT ![cur] = "up"]
    BY <1>1, <1>2, <2>1, <2>2, <2>4, Zenon
  <2> QED BY <1>4, <2>3, <2>4, Zenon
<1>7. ThreadInv'
  BY <1>4, Zenon DEF SyncInv, ThreadInv, ThreadTypeOK, ReadyListExact, NoPanic, IdleStays
<1>8. SyncTypeOK'
  BY <1>4, <1>5, <1>6, <1>7, Zenon DEF SyncInv, SyncTypeOK, SemaTypeOK, ThreadInv
<1>9. \A t \in Thread, m \in Lock : Owns(t, m)' <=> Owns(t, m)
  <2> SUFFICES ASSUME NEW t \in Thread, NEW m \in Lock PROVE Owns(t, m)' <=> Owns(t, m)
    OBVIOUS
  <2>1. CASE t = cur /\ m = l
    BY <1>1, <1>2, <1>5, <1>6, <2>1 DEF Owns
  <2>2. CASE t = cur /\ m # l
    BY <1>1, <1>5, <1>6, <2>2 DEF Owns
  <2>3. CASE t # cur
    BY <1>1, <1>5, <1>6, <2>3 DEF Owns
  <2> QED BY <2>1, <2>2, <2>3
<1>10. Owners'
  BY <1>4, <1>9, Zenon DEF SyncInv, Owners
<1>11. Holders'
  <2>1. ASSUME NEW m \in Lock, NEW t \in Thread
        PROVE  /\ holder'[m] = t <=> depth'[t][m] > 0
               /\ holder'[m] = t => repeat'[m] = depth'[t][m]
    <3>1. CASE m = l /\ t = cur
      BY <1>1, <1>2, <1>5, <1>6, <3>1
    <3>2. CASE m = l /\ t # cur
      BY <1>1, <1>3, <1>5, <1>6, <3>2
    <3>3. CASE m # l
      <4>1. holder'[m] = holder[m] /\ repeat'[m] = repeat[m] /\ depth'[t][m] = depth[t][m]
        BY <1>5, <1>6, <3>3
      <4>2. /\ holder[m] = t <=> depth[t][m] > 0
            /\ holder[m] = t => repeat[m] = depth[t][m]
        BY DEF SyncInv, Holders
      <4> QED BY <4>1, <4>2
    <3> QED BY <3>1, <3>2, <3>3, Zenon
  <2>2. ASSUME NEW m \in Lock, holder'[m] = NULL PROVE repeat'[m] = 0
    <3>1. CASE m = l
      BY <1>1, <1>2, <1>5, <1>6, <2>2, <3>1
    <3>2. CASE m # l
      BY <1>6, <2>2, <3>2 DEF SyncInv, Holders
    <3> QED BY <3>1, <3>2
  <2> QED BY <2>1, <2>2 DEF Holders
<1>12. Calls'
  <2>1. pc'[cur] # "out" => depth'[cur][lk'[cur]] = 0
    BY <1>1, <1>2, <1>5, <1>6
  <2>2. ASSUME NEW t \in Thread \ {cur}, pc'[t] # "out" PROVE depth'[t][lk'[t]] = 0
    BY <1>1, <1>5, <1>6, <2>2 DEF SyncInv, Calls
  <2> QED BY <1>1, <1>6, <2>1, <2>2, ThreadAssumption, Zenon DEF SyncInv, Calls
<1>13. Queued'
  <2>1. \A m \in Lock : \A t \in Range(waiters[m]) : t \in Thread \ {cur}
    BY SyncTypes
  <2> QED BY <1>4, <1>6, <2>1 DEF SyncInv, Queued
<1>14. Waking'
  <2>1. \A t \in Thread : pc[t] = "down" => pc'[t] = "down" /\ lk'[t] = lk[t]
    BY <1>1, <1>6, Zenon
  <2> QED BY <1>4, <2>1 DEF SyncInv, Waking
<1> QED BY <1>7, <1>8, <1>10, <1>11, <1>12, <1>13, <1>14 DEF SyncInv

\* sema_down finds the semaphore free and takes it.
LEMMA TakeInv ==
  ASSUME SyncInv, sema_down, value[lk[cur]] # 0 PROVE SyncInv'
<1> DEFINE l == lk[cur]
<1>1. /\ cur \in Thread /\ l \in Lock /\ pc[cur] = "down" /\ cur # Idle
      /\ pc \in [Thread -> {"out", "down", "set", "up"}] /\ kernel = "up"
      /\ depth \in [Thread -> [Lock -> Nat]] /\ value \in [Lock -> 0..255]
      /\ intr \in [Thread -> {"on", "off"}] /\ old \in [Thread -> {"on", "off"}]
      /\ lk \in [Thread -> Lock]
  BY SyncTypes, Zenon DEF sema_down, At
<1>2. value[l] = 1 /\ \A t \in Thread : ~Owns(t, l)
  BY <1>1, Zenon DEF SyncInv, Owners
<1>3. /\ value' = [value EXCEPT ![l] = 0] /\ pc' = [pc EXCEPT ![cur] = "set"]
      /\ kernel' = "up" /\ intr' \in [Thread -> {"on", "off"}]
      /\ UNCHANGED <<status, ready, cur, ticks, waiters, holder, repeat, lk, old, depth>>
  <2>1. CanTake(l)
    BY <1>2 DEF CanTake
  <2>2. (value[l] + 255) % 256 = 0
    BY <1>2
  <2>3. /\ sema_take(l, TRUE) /\ intr' = [intr EXCEPT ![cur] = old[cur]]
        /\ Goto("set") /\ UNCHANGED <<status, ready, cur, ticks, lockVars, lk, old, depth>>
    BY <2>1, Zenon DEF sema_down
  <2> QED BY <1>1, <1>2, <2>2, <2>3 DEF sema_take, Goto, AssertThat, lockVars
<1>4. ThreadInv'
  BY <1>3, Zenon DEF SyncInv, ThreadInv, ThreadTypeOK, ReadyListExact, NoPanic, IdleStays
<1>5. /\ value' \in [Lock -> 0..255] /\ value'[l] = 0
      /\ \A m \in Lock \ {l} : value'[m] = value[m]
      /\ pc' \in [Thread -> {"out", "down", "set", "up"}] /\ pc'[cur] = "set"
      /\ \A t \in Thread \ {cur} : pc'[t] = pc[t]
  BY <1>1, <1>3
<1>6. SyncTypeOK'
  BY <1>3, <1>4, <1>5, SyncTypes, TypesFollow, Zenon
<1>7. \A t \in Thread, m \in Lock : Owns(t, m)' <=> (Owns(t, m) \/ (t = cur /\ m = l))
  <2> SUFFICES ASSUME NEW t \in Thread, NEW m \in Lock
               PROVE  Owns(t, m)' <=> (Owns(t, m) \/ (t = cur /\ m = l))
    OBVIOUS
  <2>1. CASE t = cur
    BY <1>1, <1>3, <1>5, <2>1, Zenon DEF Owns
  <2>2. CASE t # cur
    BY <1>1, <1>3, <1>5, <2>2, Zenon DEF Owns
  <2> QED BY <2>1, <2>2
<1>8. Owners'
  <2>1. ASSUME NEW m \in Lock \ {l}
        PROVE  /\ value'[m] \in {0, 1}
               /\ value'[m] = 0 <=> \E t \in Thread : Owns(t, m)'
               /\ \A t, u \in Thread : Owns(t, m)' /\ Owns(u, m)' => t = u
    BY <1>5, <1>7 DEF SyncInv, Owners
  <2>2. ASSUME NEW m \in Lock, m = l
        PROVE  /\ value'[m] \in {0, 1}
               /\ value'[m] = 0 <=> \E t \in Thread : Owns(t, m)'
               /\ \A t, u \in Thread : Owns(t, m)' /\ Owns(u, m)' => t = u
    <3>1. \A t \in Thread : Owns(t, m)' <=> t = cur
      BY <1>1, <1>2, <1>7, <2>2, Zenon
    <3> QED BY <1>1, <1>5, <2>2, <3>1
  <2> QED BY <2>1, <2>2 DEF Owners
<1>9. Holders'
  BY <1>3, Zenon DEF SyncInv, Holders
<1>10. Calls'
  BY <1>1, <1>3, <1>5, ThreadAssumption DEF SyncInv, Calls
<1>11. Queued'
  <2>1. \A m \in Lock : \A t \in Range(waiters[m]) : t \in Thread \ {cur}
    BY SyncTypes
  <2>2. Queued /\ \A t \in Thread \ {cur} : pc'[t] = pc[t]
    BY <1>5 DEF SyncInv
  <2> QED BY <1>3, <2>1, <2>2 DEF Queued
<1>12. Waking'
  <2> SUFFICES ASSUME NEW m \in Lock, value'[m] # 0, waiters'[m] # << >>
               PROVE  \E t \in Thread : /\ pc'[t] = "down" /\ lk'[t] = m
                                        /\ status'[t] \in {"READY", "RUNNING"}
    BY DEF Waking
  <2>1. m # l /\ value[m] # 0 /\ waiters[m] # << >>
    BY <1>3, <1>5, Zenon
  <2>2. PICK t \in Thread : /\ pc[t] = "down" /\ lk[t] = m
                            /\ status[t] \in {"READY", "RUNNING"}
    BY <2>1 DEF SyncInv, Waking
  <2> QED BY <1>3, <1>5, <2>1, <2>2
<1> QED BY <1>4, <1>6, <1>8, <1>9, <1>10, <1>11, <1>12 DEF SyncInv

-----------------------------------------------------------------------------
(* Steps of sync.c that block or wake a thread.                            *)

\* sema_down finds the semaphore taken: cur queues up and blocks.
LEMMA WaitInv ==
  ASSUME SyncInv, sema_down, value[lk[cur]] = 0 PROVE SyncInv'
<1> DEFINE l == lk[cur]
<1>1. /\ cur \in Thread /\ l \in Lock /\ pc[cur] = "down" /\ cur # Idle
      /\ cur \notin Range(waiters[l]) /\ waiters \in [Lock -> Seq(Thread)]
      /\ intr \in [Thread -> {"on", "off"}]
      /\ \A m \in Lock : Range(waiters[m]) \subseteq Thread
      /\ \A m \in Lock : cur \notin Range(waiters[m])
  BY SyncTypes DEF sema_down, At
<1>2. /\ waiters' = [waiters EXCEPT ![l] = Append(@, cur)]
      /\ thread_block(status, ready, cur \notin Range(waiters[l]), "BLOCKED")
      /\ intr' = [intr EXCEPT ![cur] = "off"]
      /\ UNCHANGED <<value, holder, repeat, pc, lk, old, depth>>
  BY Zenon DEF sema_down, CanTake, sema_wait, lockVars
<1>3. /\ ThreadInv' /\ status'[cur] = "BLOCKED"
      /\ \A t \in Thread \ {cur, Idle} :
           IF t = cur' THEN status[t] = "READY" /\ status'[t] = "RUNNING"
                       ELSE status'[t] = status[t]
  <2>1. intr' \in [Thread -> {"on", "off"}] /\ "BLOCKED" \in Stopped
    BY <1>1, <1>2, Zenon DEF Stopped
  <2> QED BY <1>1, <1>2, <2>1, BlockKeepsLists, Zenon DEF SyncInv
<1>4. \A t \in Thread \ {Idle} :
        /\ status[t] = "BLOCKED" => status'[t] = "BLOCKED"
        /\ t # cur /\ status[t] \in {"READY", "RUNNING"} =>
             status'[t] \in {"READY", "RUNNING"}
  BY <1>3
<1>5. /\ waiters' \in [Lock -> Seq(Thread)] /\ IsInjective(waiters'[l])
      /\ Range(waiters'[l]) = Range(waiters[l]) \cup {cur}
      /\ \A m \in Lock \ {l} : waiters'[m] = waiters[m]
  <2>1. waiters[l] \in Seq(Thread) /\ IsInjective(waiters[l])
    BY <1>1 DEF SyncInv, Queued
  <2>2. /\ Append(waiters[l], cur) \in Seq(Thread)
        /\ Range(Append(waiters[l], cur)) = Range(waiters[l]) \cup {cur}
        /\ IsInjective(Append(waiters[l], cur))
    BY <1>1, <2>1, AppendList
  <2>3. waiters'[l] = Append(waiters[l], cur)
    BY <1>1, <1>2, Zenon
  <2>4. waiters' \in [Lock -> Seq(Thread)] /\ \A m \in Lock \ {l} : waiters'[m] = waiters[m]
    BY <1>1, <1>2, <2>2, Zenon
  <2> QED BY <2>2, <2>3, <2>4, Zenon
<1>6. SyncTypeOK'
  BY <1>2, <1>3, <1>5, SyncTypes, TypesFollow, Zenon
<1>7. Owners' /\ Holders' /\ Calls'
  <2>1. Owners'
    BY <1>2 DEF SyncInv, Owners, Owns
  <2>2. Holders'
    BY <1>2, Zenon DEF SyncInv, Holders
  <2>3. Calls'
    BY <1>2, Zenon DEF SyncInv, Calls
  <2> QED BY <2>1, <2>2, <2>3
<1>8. Queued'
  <2> SUFFICES ASSUME NEW m \in Lock
               PROVE  /\ IsInjective(waiters'[m])
                      /\ \A t \in Range(waiters'[m]) :
                           status'[t] = "BLOCKED" /\ pc'[t] = "down" /\ lk'[t] = m
    BY DEF Queued
  <2>1. IsInjective(waiters'[m])
    BY <1>5 DEF SyncInv, Queued
  <2>2. ASSUME NEW t \in Range(waiters[m])
        PROVE  status'[t] = "BLOCKED" /\ pc'[t] = "down" /\ lk'[t] = m
    <3>1. t \in Thread /\ status[t] = "BLOCKED" /\ pc[t] = "down" /\ lk[t] = m
      BY <1>1 DEF SyncInv, Queued
    <3>2. t # Idle
      BY <3>1 DEF SyncInv, Calls
    <3> QED BY <1>2, <1>4, <3>1, <3>2, Zenon
  <2>3. status'[cur] = "BLOCKED" /\ pc'[cur] = "down" /\ lk'[cur] = l
    BY <1>1, <1>2, <1>3, Zenon
  <2> QED BY <1>5, <2>1, <2>2, <2>3, Zenon
<1>9. Waking'
  <2> SUFFICES ASSUME NEW m \in Lock, value'[m] # 0, waiters'[m] # << >>
               PROVE  \E t \in Thread : /\ pc'[t] = "down" /\ lk'[t] = m
                                        /\ status'[t] \in {"READY", "RUNNING"}
    BY DEF Waking
  <2>1. m # l /\ value[m] # 0 /\ waiters[m] # << >>
    BY <1>2, <1>5, Zenon
  <2>2. PICK t \in Thread : /\ pc[t] = "down" /\ lk[t] = m
                            /\ status[t] \in {"READY", "RUNNING"}
    BY <2>1 DEF SyncInv, Waking
  <2>3. t # cur /\ t # Idle
    BY <2>1, <2>2 DEF SyncInv, Calls
  <2> QED BY <1>2, <1>4, <2>2, <2>3, Zenon
<1> QED BY <1>3, <1>6, <1>7, <1>8, <1>9 DEF SyncInv

\* The call of sema_up at the end of lock_release.
LEMMA ReleasedInv == SyncInv /\ lock_released => SyncInv'
<1> SUFFICES ASSUME SyncInv, lock_released PROVE SyncInv'
  OBVIOUS
<1> DEFINE l == lk[cur]
           w == Head(waiters[l])
<1>1. /\ cur \in Thread /\ l \in Lock /\ pc[cur] = "up" /\ cur # Idle /\ Owns(cur, l)
      /\ pc \in [Thread -> {"out", "down", "set", "up"}] /\ kernel = "up"
      /\ depth \in [Thread -> [Lock -> Nat]] /\ value \in [Lock -> 0..255]
      /\ waiters \in [Lock -> Seq(Thread)] /\ status \in [Thread -> TaskStatus]
      /\ \A m \in Lock : Range(waiters[m]) \subseteq Thread
      /\ \A m \in Lock : cur \notin Range(waiters[m])
  BY SyncTypes, Zenon DEF lock_released, At, Owns
<1>2. value[l] = 0 /\ depth[cur][l] = 0 /\ \A u \in Thread \ {cur} : ~Owns(u, l)
  BY <1>1, OwnerHolds, Zenon DEF SyncInv, Calls
<1>3. /\ value' = [value EXCEPT ![l] = 1] /\ pc' = [pc EXCEPT ![cur] = "out"]
      /\ UNCHANGED <<cur, ticks, intr, holder, repeat, lk, old, depth>>
  <2>1. (value[l] + 1) % 256 = 1
    BY <1>2
  <2> QED BY <1>1, <2>1, Zenon DEF lock_released, sema_up, Goto, lockVars
<1>4. /\ value' \in [Lock -> 0..255] /\ value'[l] = 1
      /\ \A m \in Lock \ {l} : value'[m] = value[m]
      /\ pc' \in [Thread -> {"out", "down", "set", "up"}] /\ pc'[cur] = "out"
      /\ \A t \in Thread \ {cur} : pc'[t] = pc[t]
  BY <1>1, <1>3
<1>5. \A t \in Thread, m \in Lock : Owns(t, m)' <=> (Owns(t, m) /\ ~(t = cur /\ m = l))
  <2> SUFFICES ASSUME NEW t \in Thread, NEW m \in Lock
               PROVE  Owns(t, m)' <=> (Owns(t, m) /\ ~(t = cur /\ m = l))
    OBVIOUS
  <2>1. CASE t = cur
    <3>1. pc'[t] = "out" /\ pc[t] = "up" /\ depth' = depth /\ lk[t] = l
      BY <1>1, <1>3, <1>4, <2>1, Zenon
    <3> QED BY <1>2, <2>1, <3>1 DEF Owns
  <2>2. CASE t # cur
    <3>1. pc'[t] = pc[t] /\ lk' = lk /\ depth' = depth
      BY <1>3, <1>4, <2>2, Zenon
    <3> QED BY <2>2, <3>1 DEF Owns
  <2> QED BY <2>1, <2>2
<1>6. Owners'
  <2>1. ASSUME NEW m \in Lock \ {l}
        PROVE  /\ value'[m] \in {0, 1}
               /\ value'[m] = 0 <=> \E t \in Thread : Owns(t, m)'
               /\ \A t, u \in Thread : Owns(t, m)' /\ Owns(u, m)' => t = u
    BY <1>4, <1>5 DEF SyncInv, Owners
  <2>2. ASSUME NEW m \in Lock, m = l
        PROVE  /\ value'[m] \in {0, 1}
               /\ value'[m] = 0 <=> \E t \in Thread : Owns(t, m)'
               /\ \A t, u \in Thread : Owns(t, m)' /\ Owns(u, m)' => t = u
    <3>1. \A t \in Thread : ~Owns(t, m)'
      BY <1>2, <1>5, <2>2
    <3> QED BY <1>4, <2>2, <3>1
  <2> QED BY <2>1, <2>2 DEF Owners
<1>7. Holders'
  BY <1>3 DEF SyncInv, Holders
<1>8. Calls'
  BY <1>1, <1>3, <1>4, ThreadAssumption DEF SyncInv, Calls
<1>9. \A m \in Lock : \A t \in Range(waiters[m]) :
        /\ t \in Thread /\ t # cur /\ t # Idle /\ status[t] = "BLOCKED"
        /\ pc'[t] = "down" /\ pc[t] = "down" /\ lk'[t] = m
  <2> SUFFICES ASSUME NEW m \in Lock, NEW t \in Range(waiters[m])
               PROVE  /\ t \in Thread /\ t # cur /\ t # Idle /\ status[t] = "BLOCKED"
                      /\ pc'[t] = "down" /\ pc[t] = "down" /\ lk'[t] = m
    OBVIOUS
  <2>1. /\ t \in Thread \ {cur} /\ status[t] = "BLOCKED"
        /\ pc[t] = "down" /\ lk[t] = m
    BY <1>1 DEF SyncInv, Queued
  <2>2. t # Idle
    BY <2>1 DEF SyncInv, Calls
  <2> QED BY <1>3, <1>4, <2>1, <2>2, Zenon
<1>10. CASE waiters[l] = << >>
  <2>1. UNCHANGED <<waiters, status, ready, kernel>>
    BY <1>2, <1>10, <1>1, Zenon DEF lock_released, sema_up, WakesOne, AssertThat
  <2>2. ThreadInv'
    BY <1>3, <2>1, Zenon DEF SyncInv, ThreadInv, ThreadTypeOK, ReadyListExact, NoPanic, IdleStays
  <2>3. SyncTypeOK'
    BY <1>3, <1>4, <2>1, <2>2, SyncTypes, TypesFollow, Zenon
  <2>4. Queued'
    BY <1>9, <2>1 DEF SyncInv, Queued
  <2>5. Waking'
    <3>1. \A t \in Thread : pc[t] = "down" => pc'[t] = "down"
      BY <1>1, <1>4, Zenon
    <3>2. \A m \in Lock : waiters'[m] # << >> => value'[m] = value[m]
      BY <1>4, <1>10, <2>1
    <3>3. Waking /\ lk' = lk
      BY <1>3 DEF SyncInv
    <3> QED BY <2>1, <3>1, <3>2, <3>3 DEF Waking
  <2> QED BY <1>6, <1>7, <1>8, <2>2, <2>3, <2>4, <2>5 DEF SyncInv
<1>11. CASE waiters[l] # << >>
  <2>1. waiters[l] \in Seq(Thread) /\ IsInjective(waiters[l])
    BY <1>1, Zenon DEF SyncInv, Queued
  <2>2. /\ w \in Range(waiters[l]) /\ Tail(waiters[l]) \in Seq(Thread)
        /\ Range(waiters[l]) = Range(Tail(waiters[l])) \cup {w}
        /\ w \notin Range(Tail(waiters[l])) /\ IsInjective(Tail(waiters[l]))
    BY <1>11, <2>1, PopList, Zenon
  <2> HIDE DEF w, l
  <2>3. /\ w \in Thread /\ w # cur /\ w # Idle /\ status[w] = "BLOCKED" /\ lk'[w] = l
        /\ pc[w] = "down" /\ pc'[w] = "down" /\ lk[w] = l
    BY <1>1, <1>3, <1>9, <2>2
  <2> USE DEF w, l
  <2>4. /\ waiters' = [waiters EXCEPT ![l] = Tail(waiters[l])]
        /\ status' = UnblockStatus(status, w) /\ ready' = UnblockReady(ready, w)
        /\ AssertThat(UnblockOK(status, ready, w))
    BY <1>1, <1>2, <1>11, Zenon DEF lock_released, sema_up, WakesOne, Popped, AssertThat
  <2> HIDE DEF w
  <2>5. ThreadInv'
    BY <1>1, <1>3, <2>3, <2>4, UnblockInv, Zenon DEF SyncInv, Unblock
  <2>6. status' = [status EXCEPT ![w] = "READY"]
    BY <2>4 DEF UnblockStatus
  <2>7. /\ waiters' \in [Lock -> Seq(Thread)] /\ waiters'[l] = Tail(waiters[l])
        /\ \A m \in Lock \ {l} : waiters'[m] = waiters[m]
    BY <1>1, <2>2, <2>4
  <2>8. SyncTypeOK'
    BY <1>3, <1>4, <2>5, <2>7, SyncTypes, TypesFollow, Zenon
  <2>9. Queued'
    <3> SUFFICES ASSUME NEW m \in Lock
                 PROVE  /\ IsInjective(waiters'[m])
                        /\ \A t \in Range(waiters'[m]) :
                             status'[t] = "BLOCKED" /\ pc'[t] = "down" /\ lk'[t] = m
      BY DEF Queued
    <3>1. IsInjective(waiters'[m])
      BY <2>2, <2>7 DEF SyncInv, Queued
    <3>2. Range(waiters'[m]) \subseteq Range(waiters[m]) \ {w}
      <4>1. CASE m = l
        BY <2>2, <2>7, <4>1, Zenon
      <4>2. CASE m # l
        BY <1>9, <1>3, <2>3, <2>7, <4>2
      <4> QED BY <4>1, <4>2
    <3>3. \A t \in Thread \ {w} : status'[t] = status[t]
      BY <1>1, <2>6
    <3> QED BY <1>9, <3>1, <3>2, <3>3
  <2>10. Waking'
    <3>1. \A t \in Thread : pc[t] = "down" => pc'[t] = "down"
      BY <1>1, <1>4, Zenon
    <3>2. status'[w] = "READY" /\ \A t \in Thread \ {w} : status'[t] = status[t]
      BY <1>1, <2>3, <2>6
    <3>3. ASSUME NEW m \in Lock \ {l}, value'[m] # 0, waiters'[m] # << >>
          PROVE  \E t \in Thread : /\ pc'[t] = "down" /\ lk'[t] = m
                                   /\ status'[t] \in {"READY", "RUNNING"}
      <4>1. PICK t \in Thread : /\ pc[t] = "down" /\ lk[t] = m
                                /\ status[t] \in {"READY", "RUNNING"}
        BY <1>4, <2>7, <3>3 DEF SyncInv, Waking
      <4> QED BY <1>3, <3>1, <3>2, <4>1
    <3> QED BY <2>3, <3>2, <3>3 DEF Waking
  <2> QED BY <1>6, <1>7, <1>8, <2>5, <2>8, <2>9, <2>10 DEF SyncInv
<1> QED BY <1>10, <1>11

-----------------------------------------------------------------------------
(* The theorems.                                                           *)

LEMMA SyncNextInv == SyncInv /\ [SyncNext]_syncVars => SyncInv'
<1> SUFFICES ASSUME SyncInv, [SyncNext]_syncVars PROVE SyncInv'
  OBVIOUS
<1>1. CASE UNCHANGED syncVars
  <2>1. UNCHANGED <<status, ready, cur, ticks, intr, kernel, value, waiters,
                    holder, repeat, pc, lk, old, depth>>
    BY <1>1 DEF syncVars, threadVars, semaVars, lockVars, callVars
  <2>2. ThreadInv'
    BY <2>1, Zenon DEF SyncInv, ThreadInv, ThreadTypeOK, ReadyListExact, NoPanic, IdleStays
  <2>3. SyncTypeOK'
    BY <2>1, <2>2, SyncTypes, TypesFollow, Zenon
  <2>4. Queued' /\ Waking'
    BY <2>1 DEF SyncInv, Queued, Waking
  <2>5. Owners'
    BY <2>1 DEF SyncInv, Owners, Owns
  <2>6. Holders'
    BY <2>1 DEF SyncInv, Holders
  <2>7. Calls'
    BY <2>1 DEF SyncInv, Calls
  <2> QED BY <2>2, <2>3, <2>4, <2>5, <2>6, <2>7 DEF SyncInv
<1>2. CASE SyncSched
  BY <1>2, SyncSchedInv
<1>3. CASE \E l \in Lock : lock_acquire(l)
  BY <1>3, AcquireInv
<1>4. CASE sema_down
  BY <1>4, TakeInv, WaitInv
<1>5. CASE lock_acquired
  BY <1>5, AcquiredInv
<1>6. CASE \E l \in Lock : lock_release(l)
  BY <1>6, ReleaseInv
<1>7. CASE lock_released
  BY <1>7, ReleasedInv
<1> QED BY <1>1, <1>2, <1>3, <1>4, <1>5, <1>6, <1>7 DEF SyncNext

\* SyncInv is an invariant of the scheduler with locks.
THEOREM SyncInvariant == SyncSafety => []SyncInv
BY SyncInitInv, SyncNextInv, PTL DEF SyncSafety

\* Every variable keeps its type, the uint8_t value of a semaphore included.
THEOREM SyncTypeCorrect == SyncSafety => []SyncTypeOK
<1>1. SyncInv => SyncTypeOK
  BY DEF SyncInv
<1> QED BY <1>1, SyncInvariant, PTL

\* No ASSERT of sync.c or thread.c ever fails, whatever the interleaving of
\* lock_acquire and lock_release.
THEOREM LocksNeverPanic == SyncSafety => []NoPanic
<1>1. SyncInv => NoPanic
  BY DEF SyncInv, ThreadInv
<1> QED BY <1>1, SyncInvariant, PTL

\* A lock has at most one holder, and holder_repeat_nr counts its nesting.
THEOREM LocksExclude == SyncSafety => []MutualExclusion
<1>1. SyncInv => MutualExclusion
  <2> SUFFICES ASSUME SyncInv, NEW l \in Lock, NEW t \in Thread, depth[t][l] > 0
               PROVE  /\ holder[l] = t /\ repeat[l] = depth[t][l]
                      /\ \A u \in Thread \ {t} : depth[u][l] = 0
    BY DEF MutualExclusion
  <2>1. Owns(t, l)
    BY DEF Owns
  <2>2. holder[l] = t /\ repeat[l] = depth[t][l]
    BY DEF SyncInv, Holders
  <2> QED BY <2>1, <2>2, OwnerHolds
<1> QED BY <1>1, SyncInvariant, PTL

\* sema_up never leaves a waiter behind that nobody will wake.
THEOREM WakeupsAreNotLost == SyncSafety => []NoLostWakeup
<1>1. SyncInv => NoLostWakeup
  BY DEF SyncInv, Owners, Waking, NoLostWakeup
<1> QED BY <1>1, SyncInvariant, PTL

\* The one list node of a PCB is never linked into two lists.
THEOREM OneListPerTag == SyncSafety => []TagInOneList
<1>1. SyncInv => TagInOneList
  <2> SUFFICES ASSUME SyncInv PROVE TagInOneList
    OBVIOUS
  <2>1. \A l \in Lock : Range(waiters[l]) \subseteq Thread
    BY SyncTypes, Zenon
  <2>2. \A t \in Thread : status[t] = "BLOCKED" => t \notin Range(ready)
    BY DEF SyncInv, ThreadInv, ReadyListExact
  <2> QED BY <2>1, <2>2 DEF SyncInv, Queued, TagInOneList, Lock
<1> QED BY <1>1, SyncInvariant, PTL

\* Every step of the locks is a step of Mutex or leaves holder and
\* holder_repeat_nr alone.
LEMMA MutexStep == SyncInv /\ [SyncNext]_syncVars => [M!MutexNext]_<<holder, repeat>>
<1> SUFFICES ASSUME SyncInv, [SyncNext]_syncVars PROVE [M!MutexNext]_<<holder, repeat>>
  OBVIOUS
<1>0. /\ cur \in Thread /\ repeat \in [Lock -> Nat] /\ lk \in [Thread -> Lock]
      /\ holder \in [Lock -> Thread \cup {NULL}]
  BY SyncTypes, Zenon
<1> USE <1>0
<1>1. ASSUME NEW l \in Lock, lock_acquire(l) PROVE [M!MutexNext]_<<holder, repeat>>
  <2>1. CASE holder[l] = cur
    <3>1. holder' = [holder EXCEPT ![l] = cur] /\ repeat' = [repeat EXCEPT ![l] = @ + 1]
      BY <1>1, <2>1, Zenon DEF lock_acquire
    <3> QED BY <2>1, <3>1, Zenon DEF M!MutexNext, M!Acquire
  <2>2. CASE holder[l] # cur
    BY <1>1, <2>2, Zenon DEF lock_acquire
  <2> QED BY <2>1, <2>2
<1>2. CASE lock_acquired
  <2>1. PICK l \in Lock : l = lk[cur]
    OBVIOUS
  <2>2. Owns(cur, l) /\ depth[cur][l] = 0
    BY <1>2, <2>1, Zenon DEF lock_acquired, At, Owns, SyncInv, Calls
  <2>3. holder[l] = NULL /\ repeat[l] = 0
    BY <2>2, OwnerHolds
  <2>4. holder' = [holder EXCEPT ![l] = cur] /\ repeat' = [repeat EXCEPT ![l] = @ + 1]
    BY <1>2, <2>1, <2>3 DEF lock_acquired
  <2> QED BY <2>3, <2>4, Zenon DEF M!MutexNext, M!Acquire
<1>3. ASSUME NEW l \in Lock, lock_release(l) PROVE [M!MutexNext]_<<holder, repeat>>
  <2>1. holder[l] = cur /\ repeat[l] = depth[cur][l] /\ repeat[l] > 0 /\ repeat[l] \in Nat
    <3>1. depth[cur][l] > 0 /\ cur \in Thread /\ repeat[l] \in Nat
      BY <1>3, Zenon DEF lock_release
    <3> QED BY <3>1 DEF SyncInv, Holders
  <2>2. /\ repeat' = [repeat EXCEPT ![l] = @ - 1]
        /\ holder' = [holder EXCEPT ![l] = IF repeat[l] = 1 THEN NULL ELSE cur]
    <3>1. CASE repeat[l] = 1
      BY <1>3, <2>1, <3>1 DEF lock_release, ReleasedHolder
    <3>2. CASE repeat[l] > 1
      <4>1. repeat' = [repeat EXCEPT ![l] = @ - 1] /\ holder' = holder
        BY <1>3, <2>1, <3>2 DEF lock_release
      <4> QED BY <2>1, <3>2, <4>1
    <3> QED BY <2>1, <3>1, <3>2
  <2> QED BY <2>1, <2>2, Zenon DEF M!MutexNext, M!Release
<1>4. CASE SyncSched \/ sema_down \/ lock_released \/ UNCHANGED syncVars
  BY <1>4, Zenon DEF SyncSched, sema_down, lock_released, syncVars, lockVars
<1> QED BY <1>1, <1>2, <1>3, <1>4 DEF SyncNext

\* The locks implement Mutex.
THEOREM LocksImplementMutex == SyncSafety => ImplementsMutex
<1>1. SyncInit => M!MutexInit
  BY DEF SyncInit, M!MutexInit
<1> QED BY <1>1, MutexStep, SyncInvariant, PTL DEF SyncSafety, ImplementsMutex, M!MutexSpec

=============================================================================
