-------------------------------- MODULE Sema --------------------------------
(***************************************************************************)
(* Semaphores: sema_down and sema_up of thread/sync.c, on top of the       *)
(* scheduler.  Both run with interrupts off.                               *)
(*                                                                         *)
(* A thread that waits is linked into the waiters list with the same       *)
(* general_tag as into the ready list.  sema_up makes the value 1 before   *)
(* the thread it woke has run, so another thread may take the semaphore    *)
(* first; the woken thread then waits again (the loop in sema_down).       *)
(***************************************************************************)
EXTENDS Thread

CONSTANT Sem  \* the semaphores, that of each lock included

VARIABLES
  value,   \* Semaphore.value, a uint8_t
  waiters  \* Semaphore.waiters, head first

semaVars == <<value, waiters>>

\* sema_init, called with 1 for a lock and 0 for disk_done
SemaInit(free) ==
  /\ value = [s \in Sem |-> IF s \in free THEN 1 ELSE 0]
  /\ waiters = [s \in Sem |-> << >>]

\* The test of the loop in sema_down.
CanTake(s) == value[s] # 0

\* The body of that loop: cur queues up and gives the CPU away.
sema_wait(s) ==
  /\ waiters' = [waiters EXCEPT ![s] = Append(@, cur)]
  /\ thread_block(status, ready, cur \notin Range(waiters[s]), "BLOCKED")
  /\ UNCHANGED value

\* sema_down after the loop; ok: the ASSERTs of the caller.
sema_take(s, ok) ==
  /\ value' = [value EXCEPT ![s] = (@ + 255) % 256]
  /\ AssertThat(ok /\ value[s] = 1)
  /\ UNCHANGED waiters

\* Mutant: a waiter is woken only if the semaphore was free.
WakesIfFree(s) == waiters[s] # << >> /\ value[s] # 0

\* The test of sema_up.
WakesOne(s) == waiters[s] # << >>

\* Mutant: the woken thread stays in the list (list_front for list_pop).
StaysQueued(s) == waiters[s]

\* list_pop(&psema->waiters)
Popped(s) == Tail(waiters[s])

\* sema_up: wake the first waiter, then raise the value.
sema_up(s) ==
  LET w == Head(waiters[s])
  IN /\ value' = [value EXCEPT ![s] = (@ + 1) % 256]
     /\ \/ /\ WakesOne(s)
           /\ waiters' = [waiters EXCEPT ![s] = Popped(s)]
           /\ status' = UnblockStatus(status, w)
           /\ ready' = UnblockReady(ready, w)
           /\ AssertThat(value[s] = 0 /\ UnblockOK(status, ready, w))
        \/ /\ ~WakesOne(s)
           /\ AssertThat(value[s] = 0)
           /\ UNCHANGED <<waiters, status, ready>>

-----------------------------------------------------------------------------
SemaTypeOK ==
  /\ ThreadTypeOK
  /\ value \in [Sem -> 0..255]
  /\ waiters \in [Sem -> Seq(Thread)]

\* The list node in a PCB is shared by the ready list and all waiters lists:
\* a thread is linked at most once, into at most one of them, and only while
\* it is BLOCKED into a waiters list.  list_append and list_push would
\* otherwise tear a list apart.
TagInOneList ==
  \A s \in Sem :
    /\ IsInjective(waiters[s])
    /\ \A t \in Range(waiters[s]) :
         /\ status[t] = "BLOCKED"
         /\ t \notin Range(ready)
         /\ \A r \in Sem \ {s} : t \notin Range(waiters[r])
=============================================================================
