------------------------------ MODULE IoQueue -------------------------------
(***************************************************************************)
(* The keyboard buffer: device/ioqueue.c as the keyboard interrupt handler *)
(* (device/keyboard.c) fills it and sys_read of stdin (fs/fs.c) drains it. *)
(*                                                                         *)
(* sys_read runs with interrupts off, so between two of its steps here     *)
(* nothing happens unless it blocks: for the lock of the queue or in       *)
(* ioq_wait, which it calls with the lock held.  The handler never waits   *)
(* (it drops the character if the queue is full), so the producer field    *)
(* stays NULL.  The lock is its semaphore; module Sync covers the rest.    *)
(***************************************************************************)
EXTENDS Sema, Integers, FiniteSets

CONSTANTS
  NULL,
  Reader,    \* the processes that read stdin
  Char,      \* the characters typed
  BUF_SIZE,
  MaxCount,  \* bound on the count of one sys_read
  QLock      \* the lock of the queue

ASSUME IoQueueAssumption ==
  /\ NULL \notin Thread
  /\ Reader \subseteq Thread \ {Main, InitProc, Idle}
  /\ BUF_SIZE \in Nat /\ BUF_SIZE > 1
  /\ MaxCount \in Nat
  /\ Sem = {QLock}

VARIABLES
  buf, head, tail,  \* the ring; head is where the next character goes
  consumer,         \* IoQueue.consumer, the thread asleep in ioq_wait
  pc,               \* where each reader is in sys_read
  need,             \* characters its sys_read still has to get
  last              \* << >> or the character read last

ringVars == <<buf, head, tail, last>>
ioqVars == <<threadVars, semaVars, ringVars, consumer, pc, need>>

IoqInit ==
  /\ ThreadInit /\ SemaInit({QLock})
  /\ buf \in [0..BUF_SIZE-1 -> Char]
  /\ \A i, j \in 0..BUF_SIZE-1 : buf[i] = buf[j]
  /\ head = 0 /\ tail = 0
  /\ consumer = NULL
  /\ pc = [t \in Reader |-> "user"]
  /\ need = [t \in Reader |-> 0]
  /\ last = << >>

next_pos(pos) == (pos + 1) % BUF_SIZE

\* Mutant: the handler does not test for a full queue.
never_full == FALSE

ioq_full == next_pos(head) = tail
ioq_empty == head = tail

At(p) == kernel = "up" /\ cur \in Reader /\ pc[cur] = p
Goto(p) == pc' = [pc EXCEPT ![cur] = p]

\* sys_read(stdin_no, buf, n)
sys_read(n) ==
  /\ At("user")
  /\ Goto("get")
  /\ need' = [need EXCEPT ![cur] = n]
  /\ intr' = [intr EXCEPT ![cur] = "off"]
  /\ UNCHANGED <<status, ready, cur, ticks, kernel, semaVars, ringVars, consumer>>

\* ioq_getchar: take a character, or go for the lock to wait for one.
ioq_getchar ==
  /\ At("get") /\ need[cur] > 0
  /\ \/ /\ ioq_empty
        /\ Goto("down")
        /\ UNCHANGED <<ringVars, need>>
     \/ /\ ~ioq_empty
        /\ last' = <<buf[tail]>>
        /\ tail' = next_pos(tail)
        /\ need' = [need EXCEPT ![cur] = @ - 1]
        /\ UNCHANGED <<buf, head, pc>>
  /\ UNCHANGED <<threadVars, semaVars, consumer>>

\* sema_down in lock_acquire(&ioq->lock)
lock_acquire ==
  /\ At("down")
  /\ \/ /\ ~CanTake(QLock)
        /\ sema_wait(QLock)
        /\ UNCHANGED pc
     \/ /\ CanTake(QLock)
        /\ sema_take(QLock, TRUE)
        /\ Goto("wait")
        /\ UNCHANGED <<status, ready, cur, ticks>>
  /\ UNCHANGED <<intr, ringVars, consumer, need>>

\* ioq_wait(&ioq->consumer), whether or not the queue is still empty
ioq_wait ==
  /\ At("wait")
  /\ consumer' = cur
  /\ thread_block(status, ready, consumer = NULL, "BLOCKED")
  /\ Goto("woken")
  /\ UNCHANGED <<intr, semaVars, ringVars, need>>

\* lock_release(&ioq->lock), then the test of the loop again
lock_release ==
  /\ At("woken")
  /\ sema_up(QLock)
  /\ Goto("get")
  /\ UNCHANGED <<cur, ticks, intr, ringVars, consumer, need>>

\* sys_read returns.
ReadReturn ==
  /\ At("get") /\ need[cur] = 0
  /\ Goto("user")
  /\ intr' = [intr EXCEPT ![cur] = "on"]
  /\ UNCHANGED <<status, ready, cur, ticks, kernel, semaVars, ringVars, consumer, need>>

\* Mutants: the sleeping consumer is not woken, or not forgotten when it is.
NeverWakes == FALSE
KeepsConsumer == consumer

\* if (ioq->consumer != NULL) in ioq_putchar
WakesConsumer == consumer # NULL

\* *waiter = NULL in wakeup
WokenConsumer == NULL

\* intr_keyboard_handler for a key with a character: ioq_putchar unless full.
KeyboardIntr(c) ==
  /\ kernel = "up" /\ intr[cur] = "on" /\ ~ioq_full
  /\ buf' = [buf EXCEPT ![head] = c]
  /\ head' = next_pos(head)
  /\ \/ /\ WakesConsumer
        /\ status' = UnblockStatus(status, consumer)
        /\ ready' = UnblockReady(ready, consumer)
        /\ AssertThat(UnblockOK(status, ready, consumer))
        /\ consumer' = WokenConsumer
     \/ /\ ~WakesConsumer
        /\ UNCHANGED <<status, ready, kernel, consumer>>
  /\ UNCHANGED <<cur, ticks, intr, semaVars, tail, last, pc, need>>

\* The timer, idle, main's boot and init, which forks the readers.
IoqSched ==
  /\ \/ TimerIntr
     \/ IdleLoop
     \/ cur = Main /\ Block("BLOCKED")
     \/ Unblock(Main)
     \/ cur = Main /\ SyscallExit
     \/ cur = InitProc /\ (SyscallEnter \/ SyscallExit)
     \/ cur = InitProc /\ \E t \in Reader : Start(t)
  /\ UNCHANGED <<semaVars, ringVars, consumer, pc, need>>

ReadStep ==
  \/ ioq_getchar
  \/ lock_acquire
  \/ ioq_wait
  \/ lock_release
  \/ ReadReturn

IoqNext ==
  \/ IoqSched
  \/ \E n \in 0..MaxCount : sys_read(n)
  \/ ReadStep
  \/ \E c \in Char : KeyboardIntr(c)

IoqSafety == IoqInit /\ [][IoqNext]_ioqVars

\* The timer ticks for ever, system calls go on when they have the CPU, main
\* finishes booting.  Nobody has to type.
IoqFairness ==
  /\ SF_ioqVars(TimerIntr /\ IoqSched)
  /\ WF_ioqVars(IdleLoop /\ IoqSched)
  /\ WF_ioqVars(SyscallExit /\ IoqSched)
  /\ \A t \in Reader : SF_ioqVars(cur = t /\ ReadStep)

IoqSpec == IoqSafety /\ IoqFairness

-----------------------------------------------------------------------------
(* Properties.                                                             *)

IoqTypeOK ==
  /\ SemaTypeOK
  /\ buf \in [0..BUF_SIZE-1 -> Char]
  /\ head \in 0..BUF_SIZE-1 /\ tail \in 0..BUF_SIZE-1
  /\ consumer \in Reader \cup {NULL}
  /\ pc \in [Reader -> {"user", "get", "down", "wait", "woken"}]
  /\ need \in [Reader -> 0..MaxCount]
  /\ last \in {<< >>} \cup {<<c>> : c \in Char}

\* The ring buffer with its two indices is a first-in first-out queue of
\* BUF_SIZE - 1 characters, however readers and the handler interleave.
Fifo == INSTANCE CharFifo
          WITH Capacity <- BUF_SIZE - 1,
               queue <- [i \in 1..(head - tail + BUF_SIZE) % BUF_SIZE |->
                           buf[(tail + i - 1) % BUF_SIZE]]

ImplementsFifo == Fifo!FifoSpec

\* A reader sleeps in ioq_wait only while there is no character.  This fails
\* for a reader that had to wait for the lock before ioq_wait: ioq_getchar
\* does not test the queue again.
SleepsOnlyIfEmpty == consumer # NULL => ioq_empty

\* The consumer field, the lock and the reader's place in the code agree: the
\* sleeper holds the lock, whoever waits for the lock waits for a sleeper or
\* for a reader that is about to release, and one reader at most is past
\* lock_acquire.  With that no ASSERT of the queue, of the lock or of the
\* scheduler fails.
OneSleeper ==
  /\ IoqTypeOK /\ NoPanic
  /\ consumer # NULL => status[consumer] = "BLOCKED" /\ pc[consumer] = "woken"
  /\ \A t \in Reader : pc[t] = "woken" /\ status[t] = "BLOCKED" => consumer = t
  /\ Cardinality({t \in Reader : pc[t] \in {"wait", "woken"}}) = 1 - value[QLock]

\* A reader of at most as many characters as there are gets them: sys_read
\* returns.
ReadReturns ==
  \A t \in Reader :
    (pc[t] # "user" /\ need[t] <= (head - tail + BUF_SIZE) % BUF_SIZE)
      ~> pc[t] = "user"

\* One reader at a time is in sys_read, as when the shell waits for its child.
Alone == Cardinality({t \in Reader : pc[t] # "user"}) <= 1

\* Then it sleeps only while the queue is empty, and sys_read returns once
\* there are enough characters: the handler's wakeup is never lost.
AloneReads == []Alone => []SleepsOnlyIfEmpty /\ ReadReturns

=============================================================================
