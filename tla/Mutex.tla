------------------------------- MODULE Mutex --------------------------------
(***************************************************************************)
(* What the locks of thread/sync.c promise: each lock is free or owned by  *)
(* one thread, which may own it several times over, and passes from one    *)
(* owner to the next only by being released as often as it was acquired.   *)
(***************************************************************************)
EXTENDS Naturals

CONSTANTS Thread, Lock, NULL

VARIABLES owner, count

MutexInit ==
  /\ owner = [l \in Lock |-> NULL]
  /\ count = [l \in Lock |-> 0]

Acquire(t, l) ==
  /\ owner[l] \in {NULL, t}
  /\ owner' = [owner EXCEPT ![l] = t]
  /\ count' = [count EXCEPT ![l] = @ + 1]

Release(t, l) ==
  /\ owner[l] = t
  /\ count' = [count EXCEPT ![l] = @ - 1]
  /\ owner' = [owner EXCEPT ![l] = IF count[l] = 1 THEN NULL ELSE t]

MutexNext == \E t \in Thread, l \in Lock : Acquire(t, l) \/ Release(t, l)

MutexSpec == MutexInit /\ [][MutexNext]_<<owner, count>>
=============================================================================
