--------------------------- MODULE IoQueueProofs ----------------------------
(***************************************************************************)
(* The keyboard buffer, for any number of readers, any size of the ring    *)
(* and any characters: one reader at most sleeps in ioq_wait and it holds  *)
(* the lock, no ASSERT fails, and the ring is a first-in first-out queue.  *)
(***************************************************************************)
EXTENDS IoQueue, ThreadProofs, FiniteSetTheorems

-----------------------------------------------------------------------------
(* The inductive invariant.                                                *)

\* Readers between sema_down and sema_up of the lock.
Inside == {t \in Reader : pc[t] \in {"wait", "woken"}}

\* The semaphore of the lock is 0 exactly if one reader has lowered it.
LockTaken ==
  \/ value[QLock] = 1 /\ Inside = {}
  \/ value[QLock] = 0 /\ \E t \in Reader : Inside = {t}

\* Who is queued for the lock is asleep in sema_down.
Queued ==
  /\ IsInjective(waiters[QLock])
  /\ \A t \in Range(waiters[QLock]) : t \in Reader /\ status[t] = "BLOCKED" /\ pc[t] = "down"

\* A reader that sleeps is the consumer or in the queue for the lock, so that
\* the handler or lock_release finds it.
Asleep ==
  /\ consumer # NULL => status[consumer] = "BLOCKED" /\ pc[consumer] = "woken"
  /\ \A t \in Reader :
       /\ status[t] = "BLOCKED" => consumer = t \/ t \in Range(waiters[QLock])
       /\ status[t] \notin {"WAITING", "HANGING"}
       /\ status[t] = "DIED" => pc[t] = "user"

IoqInv == ThreadInv /\ IoqTypeOK /\ LockTaken /\ Queued /\ Asleep

\* What the invariant says of the variables.
LEMMA IoqTypes ==
  ASSUME IoqInv
  PROVE  /\ ThreadInv /\ cur \in Thread /\ status \in [Thread -> TaskStatus]
         /\ ready \in Seq(Thread) /\ intr \in [Thread -> {"on", "off"}]
         /\ status[cur] = "RUNNING" /\ kernel = "up"
         /\ value \in [Sem -> 0..255] /\ waiters \in [Sem -> Seq(Thread)] /\ QLock \in Sem
         /\ Sem = {QLock} /\ Range(waiters[QLock]) \subseteq Thread
         /\ pc \in [Reader -> {"user", "get", "down", "wait", "woken"}]
         /\ need \in [Reader -> 0..MaxCount] /\ consumer \in Reader \cup {NULL}
         /\ Reader \subseteq Thread /\ Main \notin Reader /\ InitProc \notin Reader /\ Idle \notin Reader
         /\ NULL \notin Reader /\ MaxCount \in Nat
<1>1. /\ cur \in Thread /\ status \in [Thread -> TaskStatus]
      /\ ready \in Seq(Thread) /\ intr \in [Thread -> {"on", "off"}]
      /\ status[cur] = "RUNNING" /\ kernel = "up"
  BY DEF IoqInv, ThreadInv, ThreadTypeOK, ReadyListExact, NoPanic
<1>2. /\ value \in [Sem -> 0..255] /\ waiters \in [Sem -> Seq(Thread)] /\ QLock \in Sem /\ Sem = {QLock}
      /\ pc \in [Reader -> {"user", "get", "down", "wait", "woken"}]
      /\ need \in [Reader -> 0..MaxCount] /\ consumer \in Reader \cup {NULL}
  BY IoQueueAssumption, Zenon DEF IoqInv, IoqTypeOK, SemaTypeOK
<1>3. Range(waiters[QLock]) \subseteq Thread
  BY <1>2, RangeOfSeq, Zenon
<1> QED BY <1>1, <1>2, <1>3, IoQueueAssumption, Zenon DEF IoqInv

\* The types of the ring and of the character read last.
RingTypes ==
  /\ buf \in [0..BUF_SIZE-1 -> Char]
  /\ head \in 0..BUF_SIZE-1 /\ tail \in 0..BUF_SIZE-1
  /\ last \in {<< >>} \cup {<<c>> : c \in Char}

-----------------------------------------------------------------------------
(* Arithmetic of the ring.                                                 *)

LEMMA DivMod ==
  ASSUME NEW a \in Nat, NEW n \in Nat \ {0}
  PROVE  /\ a \div n \in Nat /\ a % n \in Nat /\ a % n < n
         /\ a = n * (a \div n) + (a % n)
  BY SMT

LEMMA MulLess ==
  ASSUME NEW x \in Int, NEW y \in Int, NEW n \in Nat \ {0}, n * x < n * y
  PROVE  x < y
<1> SUFFICES ASSUME y <= x PROVE FALSE
  OBVIOUS
<1> QED OBVIOUS

\* A sum of two positions goes round at most once.
LEMMA RoundOnce ==
  ASSUME NEW n \in Nat \ {0}, NEW a \in Nat, a < n + n
  PROVE  a % n = IF a < n THEN a ELSE a - n
<1> DEFINE q == a \div n
           r == a % n
<1>1. q \in Nat /\ r \in Nat /\ r < n /\ a = n * q + r
  BY DivMod
<1> HIDE DEF q, r
<1>2. n * q < n * 2
  BY <1>1
<1>3. q < 2
  BY <1>1
<1>4. q = 0 \/ q = 1
  BY <1>1
<1>5. CASE q = 0
  BY <1>5
<1>6. CASE q = 1
  BY <1>6
<1>7. r = IF a < n THEN a ELSE a - n
  BY <1>1
<1> QED BY <1>7 DEF r

LEMMA NextPos ==
  ASSUME NEW p \in 0..BUF_SIZE-1
  PROVE  /\ next_pos(p) = IF p = BUF_SIZE - 1 THEN 0 ELSE p + 1
         /\ next_pos(p) \in 0..BUF_SIZE-1
<1>1. BUF_SIZE \in Nat /\ BUF_SIZE > 1
  BY IoQueueAssumption
<1>2. next_pos(p) = IF p + 1 < BUF_SIZE THEN p + 1 ELSE p + 1 - BUF_SIZE
  <2>1. PICK q \in Nat : q = p + 1 /\ q < BUF_SIZE + BUF_SIZE
    BY <1>1
  <2>2. q % BUF_SIZE = IF q < BUF_SIZE THEN q ELSE q - BUF_SIZE
    <3>1. BUF_SIZE \in Nat \ {0}
      BY <1>1
    <3> QED BY <2>1, <3>1, RoundOnce, Zenon
  <2>3. next_pos(p) = IF q < BUF_SIZE THEN q ELSE q - BUF_SIZE
    BY <2>1, <2>2 DEF next_pos
  <2> QED BY <1>1, <2>1, <2>3
<1> QED BY <1>1, <1>2

-----------------------------------------------------------------------------
(* Steps.                                                                  *)

\* A step that leaves the queue and the readers' places alone and neither
\* stops nor wakes a reader.
LEMMA ReadersStay ==
  ASSUME IoqInv, ThreadInv', UNCHANGED <<value, waiters, consumer, pc, need, buf, head, tail, last>>,
         \A t \in Reader : /\ status'[t] = "BLOCKED" <=> status[t] = "BLOCKED"
                           /\ status'[t] \notin {"WAITING", "HANGING"}
                           /\ status'[t] = "DIED" => status[t] = "DIED"
  PROVE  IoqInv'
<1>1. IoqTypeOK'
  BY Zenon DEF IoqInv, IoqTypeOK, SemaTypeOK, ThreadInv
<1>2. LockTaken' /\ Queued'
  BY Zenon DEF IoqInv, LockTaken, Inside, Queued
<1>3. Asleep'
  BY IoqTypes, Zenon DEF IoqInv, Asleep
<1> QED BY <1>1, <1>2, <1>3, Zenon DEF IoqInv

\* The timer, idle, the boot of main, and init, which forks the readers.
LEMMA SchedInv == ASSUME IoqInv, IoqSched PROVE IoqInv'
<1>1. UNCHANGED <<value, waiters, consumer, pc, need, buf, head, tail, last>>
  BY DEF IoqSched, semaVars, ringVars
<1>2. \A t \in Reader : status[t] \notin {"WAITING", "HANGING"} /\ t \in Thread \ {Idle, Main}
  BY IoqTypes, Zenon DEF IoqInv, Asleep
<1>3. CASE TimerIntr \/ IdleLoop
  <2>1. /\ ThreadInv'
        /\ \A t \in Thread \ {Idle} :
             IF status[t] \in {"READY", "RUNNING"} THEN status'[t] \in {"READY", "RUNNING"}
                                                   ELSE status'[t] = status[t]
    BY IoqTypes, <1>3, SchedulerSteps, Zenon
  <2> QED BY <1>1, <1>2, <2>1, ReadersStay, Zenon
<1>4. CASE cur = Main /\ Block("BLOCKED")
  <2>1. /\ ThreadInv'
        /\ \A t \in Thread \ {cur, Idle} :
             IF t = cur' THEN status[t] = "READY" /\ status'[t] = "RUNNING"
                         ELSE status'[t] = status[t]
    BY IoqTypes, <1>4, BlockKeepsLists, Zenon DEF Block, Stopped
  <2> QED BY <1>1, <1>2, <1>4, <2>1, ReadersStay, Zenon
<1>5. CASE Unblock(Main)
  <2>1. ThreadInv' /\ status' = [status EXCEPT ![Main] = "READY"]
    BY IoqTypes, <1>5, UnblockInv, ThreadAssumption, Zenon DEF Unblock, UnblockStatus
  <2> QED BY IoqTypes, <1>1, <1>2, <2>1, ReadersStay, Zenon
<1>6. CASE SyscallEnter \/ SyscallExit
  <2>1. ThreadInv' /\ status' = status
    BY IoqTypes, <1>6, SyscallInv, Zenon DEF SyscallEnter, SyscallExit
  <2> QED BY <1>1, <1>2, <2>1, ReadersStay, Zenon
<1>7. CASE \E t \in Reader : Start(t)
  <2>1. PICK t \in Reader : Start(t)
    BY <1>7
  <2>2. ThreadInv' /\ status' = [status EXCEPT ![t] = "READY"] /\ status[t] = "DIED"
    BY IoqTypes, <2>1, StartInv, Zenon DEF Start, StartStatus
  <2> QED BY IoqTypes, <1>1, <1>2, <2>2, ReadersStay, Zenon
<1> QED BY <1>3, <1>4, <1>5, <1>6, <1>7, Zenon DEF IoqSched

\* A reader goes on without the lock.
LEMMA ReaderMoves ==
  ASSUME IoqInv, cur \in Reader, pc[cur] \in {"user", "get"}, NEW p \in {"user", "get", "down"},
         pc' = [pc EXCEPT ![cur] = p], need' \in [Reader -> 0..MaxCount],
         intr' \in [Thread -> {"on", "off"}], RingTypes',
         UNCHANGED <<status, ready, cur, ticks, kernel, value, waiters, consumer>>
  PROVE  IoqInv'
<1>1. ThreadInv'
  BY IoqTypes, Zenon DEF ThreadInv, ThreadTypeOK, ReadyListExact, NoPanic, IdleStays
<1>2. IoqTypeOK'
  BY <1>1, Zenon DEF IoqInv, IoqTypeOK, SemaTypeOK, ThreadInv, RingTypes
<1>3. Inside' = Inside /\ \A t \in Reader \ {cur} : pc'[t] = pc[t]
  BY DEF Inside
<1>4. LockTaken'
  BY <1>3, Zenon DEF IoqInv, LockTaken
<1>5. Queued' /\ Asleep'
  BY IoqTypes, ZenonT(40) DEF IoqInv, Queued, Asleep
<1> QED BY <1>1, <1>2, <1>4, <1>5, Zenon DEF IoqInv

\* The lock is free: the reader takes it.
LEMMA TakeInv ==
  ASSUME IoqInv, lock_acquire, CanTake(QLock) PROVE IoqInv'
<1>1. /\ cur \in Reader /\ pc[cur] = "down" /\ pc' = [pc EXCEPT ![cur] = "wait"]
      /\ value' = [value EXCEPT ![QLock] = (@ + 255) % 256] /\ AssertThat(TRUE /\ value[QLock] = 1)
      /\ UNCHANGED <<status, ready, cur, ticks, intr, waiters, buf, head, tail, last, consumer, need>>
  BY Zenon DEF lock_acquire, At, Goto, sema_take, ringVars
<1>2. value[QLock] = 1 /\ Inside = {}
  BY DEF IoqInv, LockTaken, CanTake
<1>3. value'[QLock] = 0 /\ value' \in [Sem -> 0..255]
  BY IoqTypes, <1>1, <1>2
<1>4. kernel' = kernel
  BY <1>1, <1>2 DEF AssertThat
<1>5. ThreadInv'
  BY IoqTypes, <1>1, <1>4, Zenon DEF ThreadInv, ThreadTypeOK, ReadyListExact, NoPanic, IdleStays
<1>6. IoqTypeOK'
  BY <1>1, <1>3, <1>5, ZenonT(40) DEF IoqInv, IoqTypeOK, SemaTypeOK, ThreadInv
<1>7. LockTaken'
  <2>1. Inside' = {cur}
    BY IoqTypes, <1>1, <1>2 DEF Inside
  <2> QED BY <1>1, <1>3, <2>1, Zenon DEF LockTaken
<1>8. Queued' /\ Asleep'
  BY IoqTypes, <1>1, ZenonT(40) DEF IoqInv, Queued, Asleep
<1> QED BY <1>5, <1>6, <1>7, <1>8 DEF IoqInv

\* The lock is taken: the reader queues up for it.
LEMMA WaitInv ==
  ASSUME IoqInv, lock_acquire, ~CanTake(QLock) PROVE IoqInv'
<1>1. /\ cur \in Reader /\ pc[cur] = "down"
      /\ waiters' = [waiters EXCEPT ![QLock] = Append(@, cur)]
      /\ thread_block(status, ready, cur \notin Range(waiters[QLock]), "BLOCKED")
      /\ UNCHANGED <<value, pc, intr, buf, head, tail, last, consumer, need>>
  BY Zenon DEF lock_acquire, At, sema_wait, ringVars
<1>2. cur \notin Range(waiters[QLock])
  BY IoqTypes, Zenon DEF IoqInv, Queued
<1>3. /\ ThreadInv' /\ status'[cur] = "BLOCKED"
      /\ \A t \in Thread \ {cur, Idle} :
           IF t = cur' THEN status[t] = "READY" /\ status'[t] = "RUNNING"
                       ELSE status'[t] = status[t]
  BY IoqTypes, <1>1, <1>2, BlockKeepsLists, ZenonT(40) DEF Stopped
<1>4. /\ waiters'[QLock] = Append(waiters[QLock], cur) /\ waiters' \in [Sem -> Seq(Thread)]
      /\ Range(waiters'[QLock]) = Range(waiters[QLock]) \cup {cur}
      /\ IsInjective(waiters'[QLock])
  BY IoqTypes, <1>1, AppendList DEF IoqInv, Queued
<1>5. IoqTypeOK'
  BY <1>1, <1>3, <1>4, Zenon DEF IoqInv, IoqTypeOK, SemaTypeOK, ThreadInv
<1>6. LockTaken'
  BY <1>1, Zenon DEF IoqInv, LockTaken, Inside
<1>7. Queued'
  <2> SUFFICES ASSUME NEW t \in Range(waiters'[QLock])
               PROVE  t \in Reader /\ status'[t] = "BLOCKED" /\ pc'[t] = "down"
    BY <1>4, Zenon DEF Queued
  <2>1. CASE t = cur
    BY <1>1, <1>3, <2>1, Zenon
  <2>2. CASE t \in Range(waiters[QLock])
    <3>1. t \in Reader /\ status[t] = "BLOCKED" /\ pc[t] = "down"
      BY <2>2 DEF IoqInv, Queued
    <3>2. t \in Thread \ {cur, Idle}
      BY <1>2, <2>2, <3>1, IoQueueAssumption
    <3> QED BY <1>1, <1>3, <3>1, <3>2, Zenon
  <2> QED BY <1>4, <2>1, <2>2, Zenon
<1>8. Asleep'
  BY IoqTypes, <1>1, <1>3, <1>4, ZenonT(40) DEF IoqInv, Asleep
<1> QED BY <1>3, <1>5, <1>6, <1>7, <1>8 DEF IoqInv

\* ioq_wait: the ASSERT that nobody sleeps there yet holds, since a sleeper
\* would hold the lock.
LEMMA SleepInv == ASSUME IoqInv, ioq_wait PROVE IoqInv'
<1>1. /\ cur \in Reader /\ pc[cur] = "wait" /\ pc' = [pc EXCEPT ![cur] = "woken"]
      /\ consumer' = cur /\ thread_block(status, ready, consumer = NULL, "BLOCKED")
      /\ UNCHANGED <<value, waiters, intr, buf, head, tail, last, need>>
  BY DEF ioq_wait, At, Goto, semaVars, ringVars
<1>2. value[QLock] = 0 /\ Inside = {cur}
  BY <1>1, Zenon DEF IoqInv, LockTaken, Inside
<1>3. consumer = NULL
  BY IoqTypes, <1>1, <1>2, Zenon DEF IoqInv, Asleep, Inside
<1>4. /\ ThreadInv' /\ status'[cur] = "BLOCKED"
      /\ \A t \in Thread \ {cur, Idle} :
           IF t = cur' THEN status[t] = "READY" /\ status'[t] = "RUNNING"
                       ELSE status'[t] = status[t]
  BY IoqTypes, <1>1, <1>3, BlockKeepsLists, Zenon DEF Stopped
<1>5. IoqTypeOK'
  BY <1>1, <1>4, Zenon DEF IoqInv, IoqTypeOK, SemaTypeOK, ThreadInv
<1>6. LockTaken'
  <2>1. Inside' = {cur}
    BY IoqTypes, <1>1, <1>2, Zenon DEF Inside
  <2> QED BY <1>1, <1>2, <2>1 DEF LockTaken
<1>7. Queued'
  BY IoqTypes, <1>1, <1>4, ZenonT(40) DEF IoqInv, Queued
<1>8. Asleep'
  BY IoqTypes, <1>1, <1>3, <1>4 DEF IoqInv, Asleep
<1> QED BY <1>4, <1>5, <1>6, <1>7, <1>8 DEF IoqInv

\* lock_release: the semaphore was taken, and the first in the queue wakes up.
LEMMA ReleaseInv == ASSUME IoqInv, lock_release PROVE IoqInv'
<1>1. /\ cur \in Reader /\ pc[cur] = "woken" /\ pc' = [pc EXCEPT ![cur] = "get"]
      /\ sema_up(QLock) /\ UNCHANGED <<cur, ticks, intr, buf, head, tail, last, consumer, need>>
  BY DEF lock_release, At, Goto, ringVars
<1>2. value[QLock] = 0 /\ Inside = {cur}
  BY <1>1, Zenon DEF IoqInv, LockTaken, Inside
<1>3. consumer = NULL
  BY IoqTypes, <1>2 DEF IoqInv, Asleep, Inside
<1>4. value'[QLock] = 1 /\ value' \in [Sem -> 0..255]
  BY IoqTypes, <1>1, <1>2, SMTT(30) DEF sema_up
<1>5. LockTaken'
  <2>1. Inside' = {}
    BY IoqTypes, <1>1, <1>2, Zenon DEF Inside
  <2> QED BY <1>4, <2>1 DEF LockTaken
<1>6. CASE WakesOne(QLock)
  <2> DEFINE w == Head(waiters[QLock])
  <2>1. /\ w \in Range(waiters[QLock]) /\ Popped(QLock) \in Seq(Thread)
        /\ Range(waiters[QLock]) = Range(Popped(QLock)) \cup {w}
        /\ w \notin Range(Popped(QLock)) /\ IsInjective(Popped(QLock))
    BY IoqTypes, <1>6, PopList DEF WakesOne, Popped, IoqInv, Queued
  <2>2. w \in Reader /\ status[w] = "BLOCKED" /\ pc[w] = "down"
    BY <2>1, Zenon DEF IoqInv, Queued
  <2>3. /\ waiters' = [waiters EXCEPT ![QLock] = Popped(QLock)]
        /\ status' = UnblockStatus(status, w) /\ ready' = UnblockReady(ready, w)
        /\ AssertThat(value[QLock] = 0 /\ UnblockOK(status, ready, w))
    BY <1>1, <1>6, Zenon DEF sema_up
  <2> HIDE DEF w
  <2>4. Unblock(w)
    BY IoqTypes, <1>1, <1>2, <2>2, <2>3, Zenon DEF Unblock, AssertThat
  <2>5. ThreadInv' /\ status' = [status EXCEPT ![w] = "READY"]
    BY IoqTypes, <2>2, <2>3, <2>4, UnblockInv, Zenon DEF UnblockStatus
  <2>6. waiters'[QLock] = Popped(QLock) /\ waiters' \in [Sem -> Seq(Thread)]
    BY IoqTypes, <2>1, <2>3, ZenonT(40)
  <2>7. IoqTypeOK'
    BY <1>1, <1>4, <2>5, <2>6, Zenon DEF IoqInv, IoqTypeOK, SemaTypeOK, ThreadInv
  <2>8. Queued'
    BY IoqTypes, <1>1, <2>1, <2>5, <2>6, ZenonT(40) DEF IoqInv, Queued
  <2>9. Asleep'
    BY IoqTypes, <1>1, <2>1, <2>2, <2>5, <2>6, ZenonT(40) DEF IoqInv, Asleep
  <2> QED BY <1>5, <2>5, <2>7, <2>8, <2>9, SMTT(30) DEF IoqInv
<1>7. CASE ~WakesOne(QLock)
  <2>1. UNCHANGED <<waiters, status, ready, kernel>>
    BY <1>1, <1>2, <1>7, Zenon DEF sema_up, AssertThat
  <2>2. ThreadInv'
    BY IoqTypes, <1>1, <2>1, Zenon DEF ThreadInv, ThreadTypeOK, ReadyListExact, NoPanic, IdleStays
  <2>3. IoqTypeOK'
    BY <1>1, <1>4, <2>1, <2>2, Zenon DEF IoqInv, IoqTypeOK, SemaTypeOK, ThreadInv
  <2>4. Queued' /\ Asleep'
    BY IoqTypes, <1>1, <2>1, ZenonT(40) DEF IoqInv, Queued, Asleep
  <2> QED BY <1>5, <2>2, <2>3, <2>4 DEF IoqInv
<1> QED BY <1>6, <1>7

\* The handler puts a character into the ring and wakes the consumer.
LEMMA KeyInv == ASSUME IoqInv, NEW c \in Char, KeyboardIntr(c) PROVE IoqInv'
<1>1. RingTypes' /\ UNCHANGED <<cur, ticks, intr, value, waiters, pc, need>>
  BY NextPos, Zenon DEF KeyboardIntr, semaVars, IoqInv, IoqTypeOK, RingTypes
<1>2. LockTaken'
  BY <1>1, Zenon DEF IoqInv, LockTaken, Inside
<1>3. CASE consumer # NULL
  <2>1. consumer \in Reader /\ status[consumer] = "BLOCKED" /\ pc[consumer] = "woken"
    BY IoqTypes, <1>3, Zenon DEF IoqInv, Asleep
  <2>2. /\ status' = UnblockStatus(status, consumer) /\ ready' = UnblockReady(ready, consumer)
        /\ AssertThat(UnblockOK(status, ready, consumer)) /\ consumer' = NULL
    BY <1>3, Zenon DEF KeyboardIntr, WakesConsumer, WokenConsumer
  <2>3. Unblock(consumer)
    BY IoqTypes, <1>1, <2>1, <2>2, Zenon DEF Unblock
  <2>4. ThreadInv' /\ status' = [status EXCEPT ![consumer] = "READY"]
    BY IoqTypes, <2>1, <2>2, <2>3, UnblockInv, Zenon DEF UnblockStatus
  <2>5. IoqTypeOK'
    BY <1>1, <2>2, <2>4, Zenon DEF IoqInv, IoqTypeOK, SemaTypeOK, ThreadInv, RingTypes
  <2>6. Queued'
    BY IoqTypes, <1>1, <2>1, <2>4, Zenon DEF IoqInv, Queued
  <2>7. Asleep'
    BY IoqTypes, <1>1, <2>2, <2>4, ZenonT(40) DEF IoqInv, Asleep
  <2> QED BY <1>2, <2>4, <2>5, <2>6, <2>7, SMTT(30) DEF IoqInv
<1>4. CASE consumer = NULL
  <2>1. UNCHANGED <<status, ready, kernel, consumer>>
    BY <1>4, Zenon DEF KeyboardIntr, WakesConsumer
  <2>2. ThreadInv'
    BY IoqTypes, <1>1, <2>1, Zenon DEF ThreadInv, ThreadTypeOK, ReadyListExact, NoPanic, IdleStays
  <2>3. IoqTypeOK'
    BY <1>1, <2>1, <2>2, Zenon DEF IoqInv, IoqTypeOK, SemaTypeOK, ThreadInv, RingTypes
  <2>4. Queued' /\ Asleep'
    BY <1>1, <2>1, Zenon DEF IoqInv, Queued, Asleep
  <2> QED BY <1>2, <2>2, <2>3, <2>4 DEF IoqInv
<1> QED BY <1>3, <1>4

LEMMA IoqInvInit == IoqInit => IoqInv
<1> SUFFICES ASSUME IoqInit PROVE IoqInv
  OBVIOUS
<1> USE IoQueueAssumption
<1>1. ThreadInv
  BY InitInv DEF IoqInit
<1>2. /\ value = [s \in Sem |-> 1] /\ waiters = [s \in Sem |-> << >>]
      /\ consumer = NULL /\ pc = [t \in Reader |-> "user"] /\ need = [t \in Reader |-> 0]
  BY DEF IoqInit, SemaInit
<1>3. IoqTypeOK
  <2>1. waiters \in [Sem -> Seq(Thread)]
    BY <1>2
  <2> QED BY <1>1, <1>2 DEF IoqInit, IoqTypeOK, SemaTypeOK, ThreadInv
<1>4. LockTaken
  BY <1>2 DEF LockTaken, Inside
<1>5. waiters[QLock] = << >> /\ Range(waiters[QLock]) = {} /\ IsInjective(waiters[QLock])
  BY <1>2 DEF Range, IsInjective
<1>6. Queued
  BY <1>5 DEF Queued
<1>7. \A t \in Reader : status[t] = "DIED"
  BY DEF IoqInit, ThreadInit
<1>8. Asleep
  BY <1>2, <1>7 DEF Asleep
<1> QED BY <1>1, <1>3, <1>4, <1>6, <1>8, SMTT(30) DEF IoqInv

\* The steps of sys_read without the lock.
LEMMA ReadInv ==
  ASSUME IoqInv, ioq_getchar \/ ReadReturn \/ \E n \in 0..MaxCount : sys_read(n) PROVE IoqInv'
<1>1. RingTypes /\ (tail \in 0..BUF_SIZE-1 => next_pos(tail) \in 0..BUF_SIZE-1)
  BY NextPos, Zenon DEF IoqInv, IoqTypeOK, RingTypes
<1>2. CASE ioq_getchar
  <2>1. cur \in Reader /\ pc[cur] = "get" /\ need[cur] > 0
        /\ UNCHANGED <<status, ready, cur, ticks, intr, kernel, value, waiters, consumer>>
    BY <1>2, Zenon DEF ioq_getchar, At, threadVars, semaVars
  <2>2. \/ pc' = [pc EXCEPT ![cur] = "down"]
        \/ pc' = [pc EXCEPT ![cur] = "get"]
    BY IoqTypes, <1>2, <2>1, Zenon DEF ioq_getchar, Goto
  <2>3. RingTypes'
    BY <1>1, <1>2, Zenon DEF ioq_getchar, ringVars, RingTypes
  <2>4. need' \in [Reader -> 0..MaxCount]
    <3>1. need[cur] - 1 \in 0..MaxCount
      BY IoqTypes, <2>1
    <3>2. need' = need \/ need' = [need EXCEPT ![cur] = need[cur] - 1]
      BY <1>2, Zenon DEF ioq_getchar
    <3> QED BY IoqTypes, <3>1, <3>2, ZenonT(40)
  <2> QED BY IoqTypes, <2>1, <2>2, <2>3, <2>4, ReaderMoves, Zenon
<1>3. CASE ReadReturn
  <2>1. /\ cur \in Reader /\ pc[cur] = "get" /\ pc' = [pc EXCEPT ![cur] = "user"]
        /\ intr' \in [Thread -> {"on", "off"}] /\ need' \in [Reader -> 0..MaxCount]
        /\ UNCHANGED <<status, ready, cur, ticks, kernel, value, waiters, consumer>>
    BY IoqTypes, <1>3, Zenon DEF ReadReturn, At, Goto, semaVars
  <2>2. RingTypes'
    BY <1>1, <1>3, Zenon DEF ReadReturn, ringVars, RingTypes
  <2> QED BY <2>1, <2>2, ReaderMoves, Zenon
<1>4. CASE \E n \in 0..MaxCount : sys_read(n)
  <2>1. /\ cur \in Reader /\ pc[cur] = "user" /\ pc' = [pc EXCEPT ![cur] = "get"]
        /\ intr' \in [Thread -> {"on", "off"}] /\ need' \in [Reader -> 0..MaxCount]
        /\ UNCHANGED <<status, ready, cur, ticks, kernel, value, waiters, consumer>>
    BY IoqTypes, <1>4 DEF sys_read, At, Goto, semaVars
  <2>2. RingTypes'
    BY <1>1, <1>4, Zenon DEF sys_read, ringVars, RingTypes
  <2> QED BY <2>1, <2>2, ReaderMoves, Zenon
<1> QED BY <1>2, <1>3, <1>4

LEMMA IoqInvNext == IoqInv /\ [IoqNext]_ioqVars => IoqInv'
<1> SUFFICES ASSUME IoqInv, [IoqNext]_ioqVars PROVE IoqInv'
  OBVIOUS
<1>1. CASE IoqSched
  BY <1>1, SchedInv
<1>2. CASE ioq_getchar \/ ReadReturn \/ \E n \in 0..MaxCount : sys_read(n)
  BY <1>2, ReadInv
<1>3. CASE lock_acquire
  BY <1>3, TakeInv, WaitInv, SMTT(30)
<1>4. CASE ioq_wait
  BY <1>4, SleepInv
<1>5. CASE lock_release
  BY <1>5, ReleaseInv
<1>6. CASE \E c \in Char : KeyboardIntr(c)
  BY <1>6, KeyInv
<1>7. CASE UNCHANGED ioqVars
  <2>1. UNCHANGED <<status, ready, cur, ticks, intr, kernel, value, waiters, consumer, pc, need,
                    buf, head, tail, last>>
    BY <1>7 DEF ioqVars, threadVars, semaVars, ringVars
  <2>2. ThreadInv'
    BY <2>1, IoqTypes, Zenon DEF ThreadInv, ThreadTypeOK, ReadyListExact, NoPanic, IdleStays
  <2>3. \A t \in Reader : status[t] \notin {"WAITING", "HANGING"}
    BY DEF IoqInv, Asleep
  <2> QED BY <2>1, <2>2, <2>3, ReadersStay, Zenon
<1> QED BY <1>1, <1>2, <1>3, <1>4, <1>5, <1>6, <1>7, SMTT(30) DEF IoqNext, ReadStep

\* The inductive invariant holds in every reachable state.
THEOREM IoQueueInvariant == IoqSafety => []IoqInv
  BY IoqInvInit, IoqInvNext, PTL DEF IoqSafety

\* For any number of readers one at most sleeps in ioq_wait, it is the one that
\* holds the lock, and no ASSERT of ioq_wait, the lock or the scheduler fails.
THEOREM OneSleeperSafe == IoqSafety => []OneSleeper
<1>1. IoqInv => OneSleeper
  <2> SUFFICES ASSUME IoqInv PROVE OneSleeper
    OBVIOUS
  <2>1. Cardinality(Inside) = 1 - value[QLock]
    <3>1. CASE value[QLock] = 1 /\ Inside = {}
      BY <3>1, FS_EmptySet
    <3>2. CASE value[QLock] = 0 /\ \E t \in Reader : Inside = {t}
      <4>1. PICK t \in Reader : Inside = {t}
        BY <3>2
      <4>2. Cardinality(Inside) = 1
        BY <4>1, FS_Singleton
      <4> QED BY <3>2, <4>2
    <3> QED BY <3>1, <3>2 DEF IoqInv, LockTaken
  <2>2. \A t \in Reader : pc[t] = "woken" /\ status[t] = "BLOCKED" => consumer = t
    BY Zenon DEF IoqInv, Asleep, Queued
  <2> QED BY IoqTypes, <2>1, <2>2, Zenon DEF IoqInv, Asleep, OneSleeper, NoPanic, Inside
<1> QED BY <1>1, IoQueueInvariant, PTL

-----------------------------------------------------------------------------
(* The ring is a queue.                                                    *)

LEMMA SameElements ==
  ASSUME NEW S, NEW s \in Seq(S), NEW r \in Seq(S), Len(s) = Len(r),
         \A i \in 1..Len(s) : s[i] = r[i]
  PROVE  s = r
  OBVIOUS

\* How many characters the ring holds, and which, oldest first.
Count(h, t) == (h - t + BUF_SIZE) % BUF_SIZE
Ring(b, h, t) == [i \in 1..Count(h, t) |-> b[(t + i - 1) % BUF_SIZE]]

LEMMA CountIs ==
  ASSUME NEW h \in 0..BUF_SIZE-1, NEW t \in 0..BUF_SIZE-1
  PROVE  /\ Count(h, t) = IF t <= h THEN h - t ELSE h - t + BUF_SIZE
         /\ Count(h, t) \in 0..BUF_SIZE-1
<1>1. BUF_SIZE \in Nat \ {0}
  BY IoQueueAssumption
<1>2. PICK q \in Nat : q = h - t + BUF_SIZE /\ q < BUF_SIZE + BUF_SIZE
  BY <1>1
<1>3. q % BUF_SIZE = IF q < BUF_SIZE THEN q ELSE q - BUF_SIZE
  BY <1>1, <1>2, RoundOnce, Zenon
<1>4. Count(h, t) = IF q < BUF_SIZE THEN q ELSE q - BUF_SIZE
  BY <1>2, <1>3 DEF Count
<1> QED BY <1>1, <1>2, <1>4

\* Where the i-th oldest character lies.
LEMMA PosIs ==
  ASSUME NEW t \in 0..BUF_SIZE-1, NEW i \in 1..BUF_SIZE
  PROVE  /\ (t + i - 1) % BUF_SIZE = IF t + i - 1 < BUF_SIZE THEN t + i - 1
                                     ELSE t + i - 1 - BUF_SIZE
         /\ (t + i - 1) % BUF_SIZE \in 0..BUF_SIZE-1
<1>1. BUF_SIZE \in Nat \ {0}
  BY IoQueueAssumption
<1>2. PICK q \in Nat : q = t + i - 1 /\ q < BUF_SIZE + BUF_SIZE
  BY <1>1
<1>3. q % BUF_SIZE = IF q < BUF_SIZE THEN q ELSE q - BUF_SIZE
  BY <1>1, <1>2, RoundOnce, Zenon
<1>4. q % BUF_SIZE \in 0..BUF_SIZE-1
  BY <1>1
<1>5. (t + i - 1) % BUF_SIZE = q % BUF_SIZE
  BY <1>2
<1>6. q % BUF_SIZE = IF t + i - 1 < BUF_SIZE THEN t + i - 1 ELSE t + i - 1 - BUF_SIZE
  BY <1>1, <1>2
<1> QED BY <1>4, <1>5, <1>6, Zenon

LEMMA RingIsSeq ==
  ASSUME NEW b \in [0..BUF_SIZE-1 -> Char], NEW h \in 0..BUF_SIZE-1, NEW t \in 0..BUF_SIZE-1
  PROVE  Ring(b, h, t) \in Seq(Char) /\ Len(Ring(b, h, t)) = Count(h, t)
<1>1. BUF_SIZE \in Nat /\ Count(h, t) \in 0..BUF_SIZE-1
  BY CountIs, IoQueueAssumption, Zenon
<1>2. ASSUME NEW i \in 1..Count(h, t) PROVE b[(t + i - 1) % BUF_SIZE] \in Char
  <2>1. i \in 1..BUF_SIZE
    BY <1>1
  <2> QED BY <2>1, PosIs, Zenon
<1> HIDE DEF Count
<1> QED BY <1>1

\* ioq_getchar removes the oldest character.
LEMMA RingGet ==
  ASSUME NEW b \in [0..BUF_SIZE-1 -> Char], NEW h \in 0..BUF_SIZE-1, NEW t \in 0..BUF_SIZE-1,
         h # t
  PROVE  /\ Ring(b, h, t) # << >> /\ Head(Ring(b, h, t)) = b[t]
         /\ Ring(b, h, next_pos(t)) = Tail(Ring(b, h, t))
<1> DEFINE n == Count(h, t)
           u == next_pos(t)
           r == Ring(b, h, t)
           s == Ring(b, h, u)
<1>1. /\ BUF_SIZE \in Nat /\ u \in 0..BUF_SIZE-1
      /\ u = IF t = BUF_SIZE - 1 THEN 0 ELSE t + 1
  BY NextPos, IoQueueAssumption
<1> HIDE DEF u
<1>2. n \in 1..BUF_SIZE-1 /\ Count(h, u) = n - 1
  <2>1. n = IF t <= h THEN h - t ELSE h - t + BUF_SIZE
    BY CountIs
  <2>2. Count(h, u) = IF u <= h THEN h - u ELSE h - u + BUF_SIZE
    BY <1>1, CountIs, Zenon
  <2> HIDE DEF n
  <2> QED BY <1>1, <2>1, <2>2
<1>3. r \in Seq(Char) /\ Len(r) = n /\ s \in Seq(Char) /\ Len(s) = n - 1
  BY <1>1, <1>2, RingIsSeq, Zenon
<1>4. ASSUME NEW i \in 1..n PROVE r[i] = b[(t + i - 1) % BUF_SIZE]
  BY DEF Ring
<1>5. ASSUME NEW i \in 1..n-1 PROVE s[i] = b[(u + i - 1) % BUF_SIZE]
  BY <1>2 DEF Ring
<1> HIDE DEF n, r, s
<1>6. r[1] = b[t]
  <2>1. 1 \in 1..n /\ 1 \in 1..BUF_SIZE
    BY <1>1, <1>2
  <2>2. (t + 1 - 1) % BUF_SIZE = IF t + 1 - 1 < BUF_SIZE THEN t + 1 - 1 ELSE t + 1 - 1 - BUF_SIZE
    BY <2>1, PosIs, Zenon
  <2>3. (t + 1 - 1) % BUF_SIZE = t
    BY <1>1
  <2> QED BY <1>4, <2>1, <2>3
<1>7. ASSUME NEW i \in 1..n-1 PROVE s[i] = r[i+1]
  <2>1. i \in 1..BUF_SIZE /\ i+1 \in 1..BUF_SIZE /\ i+1 \in 1..n
    BY <1>1, <1>2
  <2>2. (u + i - 1) % BUF_SIZE = (t + (i+1) - 1) % BUF_SIZE
    BY <1>1, <2>1
  <2> QED BY <1>4, <1>5, <2>1, <2>2, Zenon
<1>8. r # << >> /\ Head(r) = r[1] /\ Tail(r) \in Seq(Char) /\ Len(Tail(r)) = n - 1
      /\ \A i \in 1..n-1 : Tail(r)[i] = r[i+1]
  BY <1>3
<1>9. s = Tail(r)
  BY <1>3, <1>7, <1>8, SameElements, Zenon
<1> QED BY <1>6, <1>8, <1>9, Zenon DEF r, s, u

\* ioq_putchar adds the newest one, unless the ring is full.
LEMMA RingPut ==
  ASSUME NEW b \in [0..BUF_SIZE-1 -> Char], NEW h \in 0..BUF_SIZE-1, NEW t \in 0..BUF_SIZE-1,
         NEW c \in Char, next_pos(h) # t
  PROVE  /\ Len(Ring(b, h, t)) < BUF_SIZE - 1
         /\ Ring([b EXCEPT ![h] = c], next_pos(h), t) = Append(Ring(b, h, t), c)
<1> DEFINE n == Count(h, t)
           u == next_pos(h)
           d == [b EXCEPT ![h] = c]
           r == Ring(b, h, t)
           s == Ring(d, u, t)
<1>1. /\ BUF_SIZE \in Nat /\ u \in 0..BUF_SIZE-1
      /\ u = IF h = BUF_SIZE - 1 THEN 0 ELSE h + 1
      /\ u # t
  BY NextPos, IoQueueAssumption
<1>2. d \in [0..BUF_SIZE-1 -> Char] /\ d[h] = c /\ \A i \in 0..BUF_SIZE-1 : i # h => d[i] = b[i]
  OBVIOUS
<1> HIDE DEF u, d
<1>3. n \in 0..BUF_SIZE-2 /\ Count(u, t) = n + 1 /\ n = IF t <= h THEN h - t ELSE h - t + BUF_SIZE
  <2>1. n = IF t <= h THEN h - t ELSE h - t + BUF_SIZE
    BY CountIs
  <2>2. Count(u, t) = IF t <= u THEN u - t ELSE u - t + BUF_SIZE
    BY <1>1, CountIs, Zenon
  <2> HIDE DEF n
  <2> QED BY <1>1, <2>1, <2>2
<1>4. r \in Seq(Char) /\ Len(r) = n /\ s \in Seq(Char) /\ Len(s) = n + 1
  BY <1>1, <1>2, <1>3, RingIsSeq, Zenon
<1>5. ASSUME NEW i \in 1..n PROVE r[i] = b[(t + i - 1) % BUF_SIZE]
  BY DEF Ring
<1>6. ASSUME NEW i \in 1..n+1 PROVE s[i] = d[(t + i - 1) % BUF_SIZE]
  BY <1>3, Zenon DEF Ring
<1> HIDE DEF n, r, s
<1>7. ASSUME NEW i \in 1..n PROVE s[i] = r[i]
  <2>1. i \in 1..n+1 /\ i \in 1..BUF_SIZE
    BY <1>1, <1>3
  <2>2. (t + i - 1) % BUF_SIZE # h /\ (t + i - 1) % BUF_SIZE \in 0..BUF_SIZE-1
    BY <1>1, <1>3
  <2> QED BY <1>2, <1>5, <1>6, <2>1, <2>2, Zenon
<1>8. s[n+1] = c
  <2>1. n+1 \in 1..n+1 /\ n+1 \in 1..BUF_SIZE
    BY <1>1, <1>3
  <2>2. (t + (n+1) - 1) % BUF_SIZE = h
    BY <1>1, <1>3
  <2> QED BY <1>2, <1>6, <2>1, <2>2, Zenon
<1>9. Append(r, c) \in Seq(Char) /\ Len(Append(r, c)) = n + 1 /\ Append(r, c)[n+1] = c
      /\ \A i \in 1..n : Append(r, c)[i] = r[i]
  BY <1>4
<1>10. \A i \in 1..n+1 : s[i] = Append(r, c)[i]
  <2> SUFFICES ASSUME NEW i \in 1..n+1 PROVE s[i] = Append(r, c)[i]
    BY Zenon
  <2>1. i = n+1 \/ i \in 1..n
    BY <1>3
  <2> QED BY <1>7, <1>8, <1>9, <2>1, Zenon
<1>11. s = Append(r, c)
  BY <1>4, <1>9, <1>10, SameElements, Zenon
<1>12. Len(r) < BUF_SIZE - 1
  BY <1>1, <1>3, <1>4
<1> QED BY <1>11, <1>12, Zenon DEF r, s, u, d

\* The ring buffer with its two indices implements a first-in first-out queue
\* of BUF_SIZE - 1 characters, for every BUF_SIZE > 1 and any readers.
THEOREM RingIsFifo == IoqSafety => ImplementsFifo
<1> DEFINE Q == [i \in 1..(head - tail + BUF_SIZE) % BUF_SIZE |-> buf[(tail + i - 1) % BUF_SIZE]]
<1>1. IoqInit => Fifo!FifoInit
  <2> SUFFICES ASSUME IoqInit PROVE Fifo!FifoInit
    OBVIOUS
  <2>1. head = 0 /\ tail = 0 /\ last = << >> /\ BUF_SIZE \in Nat /\ BUF_SIZE > 1
    BY IoQueueAssumption DEF IoqInit
  <2>2. Count(head, tail) = 0
    BY <2>1, CountIs
  <2>3. Q = << >>
    BY <2>2 DEF Count
  <2> QED BY <2>1 DEF Fifo!FifoInit
<1>2. IoqInv /\ [IoqNext]_ioqVars => [Fifo!FifoNext]_<<Q, last>>
  <2> SUFFICES ASSUME IoqInv, [IoqNext]_ioqVars PROVE [Fifo!FifoNext]_<<Q, last>>
    BY Zenon
  <2>1. buf \in [0..BUF_SIZE-1 -> Char] /\ head \in 0..BUF_SIZE-1 /\ tail \in 0..BUF_SIZE-1
    BY DEF IoqInv, IoqTypeOK
  <2>2. Q = Ring(buf, head, tail) /\ Q' = Ring(buf', head', tail')
    BY DEF Ring, Count
  <2>3. CASE UNCHANGED ringVars
    BY <2>3 DEF ringVars
  <2>4. CASE ioq_getchar /\ ~ioq_empty
    <3>1. head # tail /\ last' = <<buf[tail]>> /\ tail' = next_pos(tail) /\ buf' = buf /\ head' = head
      BY <2>4 DEF ioq_getchar, ioq_empty
    <3>2. Q # << >> /\ Head(Q) = buf[tail] /\ Q' = Tail(Q)
      <4>1. /\ Ring(buf, head, tail) # << >> /\ Head(Ring(buf, head, tail)) = buf[tail]
            /\ Ring(buf, head, next_pos(tail)) = Tail(Ring(buf, head, tail))
        BY <2>1, <3>1, RingGet, Zenon
      <4> HIDE DEF Q
      <4> QED BY <2>2, <3>1, <4>1, Zenon
    <3>3. Fifo!Get
      BY <3>1, <3>2, Zenon DEF Fifo!Get
    <3> QED BY <3>3 DEF Fifo!FifoNext
  <2>5. CASE \E c \in Char : KeyboardIntr(c)
    <3>1. PICK c \in Char : KeyboardIntr(c)
      BY <2>5
    <3>2. /\ next_pos(head) # tail /\ buf' = [buf EXCEPT ![head] = c] /\ head' = next_pos(head)
          /\ tail' = tail /\ last' = last
      BY <3>1, Zenon DEF KeyboardIntr, ioq_full
    <3>3. Len(Q) < BUF_SIZE - 1 /\ Q' = Append(Q, c)
      <4>1. /\ Len(Ring(buf, head, tail)) < BUF_SIZE - 1
            /\ Ring([buf EXCEPT ![head] = c], next_pos(head), tail) = Append(Ring(buf, head, tail), c)
        BY <2>1, <3>2, RingPut, Zenon
      <4> HIDE DEF Q
      <4> QED BY <2>2, <3>2, <4>1, Zenon
    <3>4. Fifo!Put(c)
      BY <3>2, <3>3, Zenon DEF Fifo!Put
    <3> QED BY <3>4, Zenon DEF Fifo!FifoNext
  <2>6. (ioq_getchar /\ ioq_empty) \/ lock_acquire \/ ioq_wait \/ lock_release \/ ReadReturn
        \/ IoqSched \/ UNCHANGED ioqVars \/ (\E n \in 0..MaxCount : sys_read(n))
          => UNCHANGED ringVars
    BY Zenon DEF ioq_getchar, lock_acquire, ioq_wait, lock_release, ReadReturn, IoqSched, ioqVars,
       sys_read
  <2> QED BY <2>3, <2>4, <2>5, <2>6, Zenon DEF IoqNext, ReadStep
<1> QED BY <1>1, <1>2, IoQueueInvariant, PTL DEF IoqSafety, ImplementsFifo, Fifo!FifoSpec
=============================================================================
