---------------------------- MODULE ThreadProofs ----------------------------
(***************************************************************************)
(* The scheduler keeps its lists exact and fails no ASSERT, for any number *)
(* of threads and any priorities, under every sequence of calls.           *)
(***************************************************************************)
EXTENDS Thread, TLAPS

-----------------------------------------------------------------------------
(* Lists as sequences without repetition.                                  *)

LEMMA RangeOfSeq ==
  ASSUME NEW S, NEW s \in Seq(S) PROVE Range(s) \subseteq S
<1>1. DOMAIN s = 1..Len(s) /\ \A i \in 1..Len(s) : s[i] \in S
  OBVIOUS
<1> QED BY <1>1 DEF Range

\* list_append adds one element and keeps a list free of repetitions.
LEMMA AppendList ==
  ASSUME NEW S, NEW s \in Seq(S), NEW e \in S
  PROVE  /\ Append(s, e) \in Seq(S)
         /\ Append(s, e) # << >>
         /\ Range(Append(s, e)) = Range(s) \cup {e}
         /\ IsInjective(s) /\ e \notin Range(s) => IsInjective(Append(s, e))
<1> DEFINE a == Append(s, e)
<1>1. /\ a \in Seq(S) /\ a # << >> /\ Len(a) = Len(s) + 1
      /\ DOMAIN a = 1..Len(s)+1 /\ DOMAIN s = 1..Len(s) /\ Len(s) \in Nat
      /\ \A i \in 1..Len(s) : a[i] = s[i]
      /\ a[Len(s) + 1] = e
  OBVIOUS
<1> HIDE DEF a
<1>2. Range(a) = Range(s) \cup {e}
  <2>1. ASSUME NEW x \in Range(a) PROVE x \in Range(s) \cup {e}
    BY <1>1, <2>1 DEF Range
  <2>2. ASSUME NEW x \in Range(s) PROVE x \in Range(a)
    BY <1>1, <2>2 DEF Range
  <2>3. e \in Range(a)
    BY <1>1 DEF Range
  <2> QED BY <2>1, <2>2, <2>3
<1>3. ASSUME IsInjective(s), e \notin Range(s) PROVE IsInjective(a)
  BY <1>1, <1>3 DEF IsInjective, Range
<1> QED BY <1>1, <1>2, <1>3 DEF a

\* So does list_push, at the other end.
LEMMA PushList ==
  ASSUME NEW S, NEW s \in Seq(S), NEW e \in S
  PROVE  /\ <<e>> \o s \in Seq(S)
         /\ Range(<<e>> \o s) = Range(s) \cup {e}
         /\ IsInjective(s) /\ e \notin Range(s) => IsInjective(<<e>> \o s)
<1> DEFINE a == <<e>> \o s
<1>1. /\ a \in Seq(S) /\ Len(a) = Len(s) + 1
      /\ DOMAIN a = 1..Len(s)+1 /\ DOMAIN s = 1..Len(s) /\ Len(s) \in Nat
      /\ a[1] = e
      /\ \A i \in 1..Len(s) : a[i+1] = s[i]
      /\ \A j \in 2..Len(s)+1 : a[j] = s[j-1] /\ j-1 \in 1..Len(s)
  OBVIOUS
<1> HIDE DEF a
<1>2. Range(a) = Range(s) \cup {e}
  <2>1. ASSUME NEW x \in Range(a) PROVE x \in Range(s) \cup {e}
    <3>1. PICK j \in 1..Len(s)+1 : x = a[j]
      BY <1>1 DEF Range
    <3>2. j = 1 \/ j \in 2..Len(s)+1
      BY <1>1
    <3> QED BY <1>1, <3>1, <3>2 DEF Range
  <2>2. ASSUME NEW x \in Range(s) PROVE x \in Range(a)
    <3>1. PICK i \in 1..Len(s) : x = s[i]
      BY <1>1 DEF Range
    <3>2. i+1 \in DOMAIN a /\ a[i+1] = x
      BY <1>1, <3>1
    <3> QED BY <3>2 DEF Range
  <2>3. e \in Range(a)
    <3>1. 1 \in DOMAIN a
      BY <1>1
    <3> QED BY <1>1, <3>1 DEF Range
  <2> QED BY <2>1, <2>2, <2>3
<1>3. ASSUME IsInjective(s), e \notin Range(s) PROVE IsInjective(a)
  <2> SUFFICES ASSUME NEW i \in DOMAIN a, NEW j \in DOMAIN a, a[i] = a[j]
               PROVE  i = j
    BY DEF IsInjective
  <2>1. ASSUME NEW k \in 2..Len(s)+1 PROVE a[k] # e
    <3>1. a[k] = s[k-1] /\ k-1 \in DOMAIN s
      BY <1>1
    <3> QED BY <1>3, <3>1 DEF Range
  <2>2. (i = 1 \/ i \in 2..Len(s)+1) /\ (j = 1 \/ j \in 2..Len(s)+1)
    BY <1>1
  <2>3. CASE i \in 2..Len(s)+1 /\ j \in 2..Len(s)+1
    BY <1>1, <1>3, <2>3 DEF IsInjective
  <2> QED BY <1>1, <2>1, <2>2, <2>3
<1> QED BY <1>1, <1>2, <1>3 DEF a

\* list_pop removes exactly the first element.
LEMMA PopList ==
  ASSUME NEW S, NEW s \in Seq(S), s # << >>
  PROVE  /\ Head(s) \in S /\ Tail(s) \in Seq(S)
         /\ Head(s) \in Range(s)
         /\ Range(Tail(s)) \subseteq Range(s)
         /\ Range(s) = Range(Tail(s)) \cup {Head(s)}
         /\ IsInjective(s) => /\ Head(s) \notin Range(Tail(s))
                              /\ IsInjective(Tail(s))
<1> DEFINE t == Tail(s)
<1>1. /\ Head(s) \in S /\ Head(s) = s[1] /\ t \in Seq(S)
      /\ Len(s) \in Nat /\ Len(s) > 0 /\ Len(t) = Len(s) - 1
      /\ DOMAIN s = 1..Len(s) /\ DOMAIN t = 1..Len(s)-1
      /\ \A i \in 1..Len(s)-1 : t[i] = s[i+1] /\ i+1 \in DOMAIN s
      /\ \A j \in 2..Len(s) : s[j] = t[j-1] /\ j-1 \in DOMAIN t
  OBVIOUS
<1> HIDE DEF t
<1>2. Head(s) \in Range(s)
  <2>1. 1 \in DOMAIN s
    BY <1>1
  <2> QED BY <1>1, <2>1 DEF Range
<1>3. Range(t) \subseteq Range(s)
  <2> SUFFICES ASSUME NEW x \in Range(t) PROVE x \in Range(s)
    OBVIOUS
  <2>1. PICK i \in 1..Len(s)-1 : x = t[i]
    BY <1>1 DEF Range
  <2>2. x = s[i+1] /\ i+1 \in DOMAIN s
    BY <1>1, <2>1
  <2> QED BY <2>2 DEF Range
<1>4. Range(s) \subseteq Range(t) \cup {Head(s)}
  <2> SUFFICES ASSUME NEW x \in Range(s), x # Head(s) PROVE x \in Range(t)
    OBVIOUS
  <2>1. PICK j \in 1..Len(s) : x = s[j]
    BY <1>1 DEF Range
  <2>2. j \in 2..Len(s)
    BY <1>1, <2>1
  <2> QED BY <1>1, <2>1, <2>2 DEF Range
<1>5. ASSUME IsInjective(s)
      PROVE  Head(s) \notin Range(t) /\ IsInjective(t)
  <2>1. Head(s) \notin Range(t)
    <3> SUFFICES ASSUME NEW i \in 1..Len(s)-1, t[i] = Head(s) PROVE FALSE
      BY <1>1 DEF Range
    <3>1. s[i+1] = s[1] /\ i+1 \in DOMAIN s /\ 1 \in DOMAIN s /\ i+1 # 1
      BY <1>1
    <3> QED BY <1>5, <3>1 DEF IsInjective
  <2>2. IsInjective(t)
    <3> SUFFICES ASSUME NEW i \in 1..Len(s)-1, NEW j \in 1..Len(s)-1, t[i] = t[j]
                 PROVE  i = j
      BY <1>1 DEF IsInjective
    <3>1. s[i+1] = s[j+1] /\ i+1 \in DOMAIN s /\ j+1 \in DOMAIN s
      BY <1>1
    <3>2. i+1 = j+1
      BY <1>5, <3>1 DEF IsInjective
    <3> QED BY <3>2
  <2> QED BY <2>1, <2>2
<1> QED BY <1>1, <1>2, <1>3, <1>4, <1>5 DEF t

-----------------------------------------------------------------------------
(* schedule, as every blocking call uses it.                               *)

\* Status and ready list agree, the thread on the CPU aside.
ListsAgree(st, rd) ==
  /\ \A t \in Thread : st[t] = "READY" <=> t \in Range(rd)
  /\ IsInjective(rd)

\* What holds after a switch of threads.
Switched ==
  /\ status' \in [Thread -> TaskStatus]
  /\ ready' \in Seq(Thread)
  /\ cur' \in Thread
  /\ ticks' \in [Thread -> Nat] /\ \A t \in Thread : ticks'[t] <= Prio[t]
  /\ ReadyListExact'
  /\ kernel' = "up"

\* If status and ready list agree, if no other thread is RUNNING and if idle
\* is stopped whenever nobody is ready, schedule picks a thread, leaves the
\* lists exact, and fails no ASSERT.
LEMMA ScheduleKeepsLists ==
  ASSUME NEW st \in [Thread -> TaskStatus], NEW rd \in Seq(Thread), NEW ok,
         ThreadTypeOK, kernel = "up",
         ListsAgree(st, rd),
         \A t \in Thread : st[t] = "RUNNING" => t = cur,
         rd = << >> /\ st[cur] # "RUNNING" => st[Idle] \in Stopped,
         ok,
         schedule(st, rd, ok)
  PROVE  /\ Switched
         /\ cur' \in Range(rd) \cup {cur, Idle}
         /\ cur' = cur => cur = Idle \/ cur \in Range(rd) \/ st[cur] = "RUNNING"
         /\ status' = [status' EXCEPT ![cur'] = "RUNNING"]
         /\ \A t \in Thread \ {cur, cur'} : status'[t] = st[t]
         /\ cur # cur' => status'[cur] = IF st[cur] = "RUNNING" THEN "READY" ELSE st[cur]
<1> DEFINE expired == st[cur] = "RUNNING"
           rd1 == IF expired THEN AppendReady(rd, cur) ELSE rd
           st1 == IF expired THEN [st EXCEPT ![cur] = "READY"] ELSE st
           next == IF rd1 = << >> THEN Idle ELSE Head(rd1)
           rd2 == IF rd1 = << >> THEN << >> ELSE Tail(rd1)
<1>1. /\ cur \in Thread /\ Idle \in Thread
      /\ ticks \in [Thread -> Nat] /\ \A t \in Thread : ticks[t] <= Prio[t]
      /\ Prio \in [Thread -> Nat]
  BY ThreadAssumption DEF ThreadTypeOK
<1>2. /\ cur' = next /\ ready' = rd2
      /\ status' = [st1 EXCEPT ![next] = "RUNNING"]
      /\ ticks' = IF expired THEN [ticks EXCEPT ![cur] = Prio[cur]] ELSE ticks
      /\ kernel' = IF /\ ok /\ (expired => cur \notin Range(rd))
                      /\ (rd1 = << >> => st1[Idle] \in Stopped)
                   THEN kernel ELSE "panic"
  BY DEF schedule, AssertThat
<1>3. st1 \in [Thread -> TaskStatus]
  BY <1>1 DEF TaskStatus
<1>4. cur \in Range(rd) => ~expired
  BY <1>1 DEF ListsAgree
<1>5. /\ rd1 \in Seq(Thread) /\ ListsAgree(st1, rd1)
      /\ rd1 = << >> => ~expired /\ rd = << >>
  <2>1. CASE expired
    <3>1. /\ rd1 \in Seq(Thread) /\ rd1 # << >>
          /\ Range(rd1) = Range(rd) \cup {cur} /\ IsInjective(rd1)
      BY <1>1, <1>4, <2>1, AppendList DEF AppendReady, ListsAgree
    <3>2. st1[cur] = "READY" /\ \A t \in Thread \ {cur} : st1[t] = st[t]
      BY <1>1, <2>1
    <3>3. \A t \in Thread : st1[t] = "READY" <=> t \in Range(rd1)
      BY <1>1, <3>1, <3>2 DEF ListsAgree
    <3> QED BY <2>1, <3>1, <3>3 DEF ListsAgree
  <2>2. CASE ~expired
    BY <2>2
  <2> QED BY <2>1, <2>2
<1>6. /\ \A t \in Thread : st1[t] # "RUNNING"
      /\ Range(rd1) \subseteq Range(rd) \cup {cur}
      /\ ~expired => Range(rd1) = Range(rd)
  BY <1>1, AppendList DEF AppendReady
<1>7. kernel' = "up"
  BY <1>2, <1>4, <1>5
<1>8. ticks' \in [Thread -> Nat] /\ \A t \in Thread : ticks'[t] <= Prio[t]
  BY <1>1, <1>2
<1>9. /\ next \in Thread /\ rd2 \in Seq(Thread) /\ IsInjective(rd2)
      /\ Range(rd2) = Range(rd1) \ {next}
      /\ next \notin Range(rd2)
      /\ next \in Range(rd1) \cup {Idle}
  <2>1. CASE rd1 = << >>
    <3>1. next = Idle /\ rd2 = << >>
      BY <2>1
    <3>2. Range(rd2) = {} /\ IsInjective(rd2) /\ Range(rd1) = {}
      BY <2>1, <3>1 DEF Range, IsInjective
    <3> HIDE DEF rd1, rd2, next
    <3>3. next \in Thread /\ rd2 \in Seq(Thread)
      BY <1>1, <3>1
    <3> QED BY <3>1, <3>2, <3>3
  <2>2. CASE rd1 # << >>
    <3>1. next = Head(rd1) /\ rd2 = Tail(rd1)
      BY <2>2
    <3> HIDE DEF rd1, rd2, next
    <3>2. IsInjective(rd1)
      BY <1>5 DEF ListsAgree
    <3> QED BY <1>5, <2>2, <3>1, <3>2, PopList
  <2> QED BY <2>1, <2>2
<1> HIDE DEF expired, rd1, st1, next, rd2
<1>10. status' \in [Thread -> TaskStatus] /\ cur' \in Thread /\ ready' \in Seq(Thread)
  BY <1>2, <1>3, <1>9 DEF TaskStatus
<1>11. ReadyListExact'
  <2>1. \A t \in Thread : status'[t] = "RUNNING" <=> t = cur'
    BY <1>2, <1>3, <1>6, <1>9
  <2>2. \A t \in Thread : status'[t] = "READY" <=> t \in Range(ready')
    BY <1>2, <1>3, <1>5, <1>9 DEF ListsAgree
  <2> QED BY <1>2, <1>9, <2>1, <2>2 DEF ReadyListExact
<1>12. Switched
  BY <1>7, <1>8, <1>10, <1>11 DEF Switched
<1>13. /\ \A t \in Thread \ {cur, cur'} : status'[t] = st[t]
       /\ cur # cur' => status'[cur] = IF st[cur] = "RUNNING" THEN "READY" ELSE st[cur]
  BY <1>1, <1>2, <1>3, <1>9 DEF st1, expired
<1>14. status'[cur'] = "RUNNING"
  BY <1>2, <1>3, <1>9
<1>15. /\ cur' \in Range(rd) \cup {cur, Idle}
       /\ cur' = cur => cur = Idle \/ cur \in Range(rd) \/ st[cur] = "RUNNING"
  BY <1>2, <1>6, <1>9 DEF expired
<1> QED BY <1>10, <1>12, <1>13, <1>14, <1>15

-----------------------------------------------------------------------------
(* The inductive invariant.                                                *)

\* Idle is never WAITING, HANGING or DIED: together with ReadyListExact this
\* makes it BLOCKED whenever the ready list is empty and another thread gives
\* the CPU away, which is what schedule ASSERTs when it wakes idle.
IdleStays == status[Idle] \in {"RUNNING", "READY", "BLOCKED"}

ThreadInv == ThreadTypeOK /\ ReadyListExact /\ NoPanic /\ IdleStays

LEMMA InitInv == ThreadInit => ThreadInv
<1> SUFFICES ASSUME ThreadInit PROVE ThreadInv
  OBVIOUS
<1> USE ThreadAssumption DEF ThreadInit
<1>1. ThreadTypeOK
  <2>1. ready \in Seq(Thread)
    OBVIOUS
  <2>2. /\ status \in [Thread -> TaskStatus]
        /\ intr \in [Thread -> {"on", "off"}]
    BY DEF TaskStatus
  <2> QED BY <2>1, <2>2 DEF ThreadTypeOK
<1>2. DOMAIN ready = {1, 2} /\ ready[1] = InitProc /\ ready[2] = Idle
  OBVIOUS
<1>3. Range(ready) = {InitProc, Idle} /\ IsInjective(ready)
  BY <1>2 DEF Range, IsInjective
<1>4. ReadyListExact
  BY <1>3 DEF ReadyListExact
<1> QED BY <1>1, <1>4 DEF ThreadInv, NoPanic, IdleStays

LEMMA TimerInv == ThreadInv /\ TimerIntr => ThreadInv'
<1> SUFFICES ASSUME ThreadInv, TimerIntr PROVE ThreadInv'
  OBVIOUS
<1> USE ThreadAssumption
<1>1. CASE /\ ticks[cur] = 0 /\ schedule(status, ready, TRUE) /\ intr' = intr
  <2>1. /\ ThreadTypeOK /\ kernel = "up" /\ ListsAgree(status, ready)
        /\ status \in [Thread -> TaskStatus] /\ ready \in Seq(Thread)
        /\ cur \in Thread /\ status[cur] = "RUNNING"
        /\ \A t \in Thread : status[t] = "RUNNING" => t = cur
    BY DEF ThreadInv, ThreadTypeOK, ReadyListExact, NoPanic, ListsAgree
  <2>2. /\ Switched
        /\ \A t \in Thread \ {cur, cur'} : status'[t] = status[t]
        /\ status' = [status' EXCEPT ![cur'] = "RUNNING"]
        /\ cur # cur' => status'[cur] = "READY"
    BY <1>1, <2>1, ScheduleKeepsLists
  <2>3. IdleStays'
    BY <2>2 DEF ThreadInv, IdleStays, Switched
  <2> QED BY <1>1, <2>2, <2>3 DEF ThreadInv, ThreadTypeOK, NoPanic, Switched
<1>2. CASE /\ ticks[cur] # 0 /\ ticks' = [ticks EXCEPT ![cur] = @ - 1]
           /\ UNCHANGED <<status, ready, cur, intr, kernel>>
  BY <1>2 DEF ThreadInv, ThreadTypeOK, ReadyListExact, NoPanic, IdleStays
<1> QED BY <1>1, <1>2 DEF TimerIntr

\* A thread other than idle blocks itself, in whatever call: it stays
\* stopped, and no other thread is stopped or woken but idle.
LEMMA BlockKeepsLists ==
  ASSUME NEW stat \in Stopped, NEW ok, ok, ThreadInv, cur # Idle,
         thread_block(status, ready, ok, stat),
         intr' \in [Thread -> {"on", "off"}]
  PROVE  /\ ThreadInv'
         /\ status'[cur] = stat
         /\ \A t \in Thread \ {cur, Idle} :
              IF t = cur' THEN status[t] = "READY" /\ status'[t] = "RUNNING"
                          ELSE status'[t] = status[t]
<1> USE ThreadAssumption
<1> DEFINE st == [status EXCEPT ![cur] = stat]
<1>1. /\ ThreadTypeOK /\ kernel = "up" /\ cur \in Thread
      /\ status \in [Thread -> TaskStatus] /\ ready \in Seq(Thread)
      /\ status[cur] = "RUNNING" /\ stat \notin {"RUNNING", "READY"}
      /\ \A t \in Thread : status[t] = "RUNNING" <=> t = cur
      /\ \A t \in Thread : status[t] = "READY" <=> t \in Range(ready)
      /\ IsInjective(ready) /\ IdleStays
      /\ schedule(st, ready, ok)
  BY DEF ThreadInv, ThreadTypeOK, ReadyListExact, NoPanic, thread_block, Stopped
<1>2. st \in [Thread -> TaskStatus] /\ st[cur] = stat
      /\ \A t \in Thread \ {cur} : st[t] = status[t]
  BY <1>1 DEF TaskStatus, Stopped
<1>3. ListsAgree(st, ready)
  BY <1>1, <1>2 DEF ListsAgree
<1>4. ready = << >> => st[Idle] \in Stopped
  <2>1. ready = << >> => Range(ready) = {}
    BY DEF Range
  <2> QED BY <1>1, <1>2, <2>1 DEF IdleStays, Stopped
<1>5. \A t \in Thread : st[t] = "RUNNING" => t = cur
  BY <1>1, <1>2
<1> HIDE DEF st
<1>6. /\ Switched
      /\ cur' \in Range(ready) \cup {cur, Idle}
      /\ cur' = cur => cur = Idle \/ cur \in Range(ready) \/ st[cur] = "RUNNING"
      /\ \A t \in Thread \ {cur, cur'} : status'[t] = st[t]
      /\ cur # cur' => status'[cur] = IF st[cur] = "RUNNING" THEN "READY" ELSE st[cur]
      /\ status' = [status' EXCEPT ![cur'] = "RUNNING"]
  BY <1>1, <1>2, <1>3, <1>4, <1>5, ScheduleKeepsLists
<1>7. cur' # cur /\ status'[cur] = stat
  BY <1>1, <1>2, <1>6
<1>8. IdleStays'
  BY <1>1, <1>2, <1>6 DEF IdleStays, Switched
<1>9. ThreadInv'
  BY <1>1, <1>6, <1>8 DEF ThreadInv, ThreadTypeOK, NoPanic, Switched
<1> QED BY <1>1, <1>2, <1>6, <1>7, <1>9 DEF Switched

LEMMA BlockInv ==
  ASSUME NEW stat \in Stopped, ThreadInv, Block(stat) PROVE ThreadInv'
<1>1. intr' \in [Thread -> {"on", "off"}]
  BY DEF Block, ThreadInv, ThreadTypeOK
<1> QED BY <1>1, BlockKeepsLists DEF Block

\* Idle blocks itself, and is picked again if nobody else is ready.
LEMMA IdleInv == ThreadInv /\ IdleLoop => ThreadInv'
<1> SUFFICES ASSUME ThreadInv, IdleLoop PROVE ThreadInv'
  OBVIOUS
<1> USE ThreadAssumption
<1> DEFINE st == [status EXCEPT ![cur] = "BLOCKED"]
<1>1. /\ ThreadTypeOK /\ kernel = "up" /\ cur \in Thread /\ cur = Idle
      /\ status \in [Thread -> TaskStatus] /\ ready \in Seq(Thread)
      /\ \A t \in Thread : status[t] = "RUNNING" <=> t = cur
      /\ \A t \in Thread : status[t] = "READY" <=> t \in Range(ready)
      /\ IsInjective(ready)
      /\ schedule(st, ready, TRUE) /\ intr' = intr
  BY DEF ThreadInv, ThreadTypeOK, ReadyListExact, NoPanic, IdleLoop, thread_block
<1>2. st \in [Thread -> TaskStatus] /\ st[cur] = "BLOCKED"
      /\ \A t \in Thread \ {cur} : st[t] = status[t]
  BY <1>1 DEF TaskStatus
<1>3. ListsAgree(st, ready)
  BY <1>1, <1>2 DEF ListsAgree
<1>4. st[Idle] \in Stopped /\ \A t \in Thread : st[t] = "RUNNING" => t = cur
  BY <1>1, <1>2 DEF Stopped
<1> HIDE DEF st
<1>5. /\ Switched
      /\ status' = [status' EXCEPT ![cur'] = "RUNNING"]
      /\ cur # cur' => status'[cur] = "BLOCKED"
  BY <1>1, <1>2, <1>3, <1>4, ScheduleKeepsLists
<1>6. IdleStays'
  BY <1>1, <1>5 DEF IdleStays, Switched
<1> QED BY <1>1, <1>5, <1>6 DEF ThreadInv, ThreadTypeOK, NoPanic, Switched

\* The timer and idle leave stopped threads stopped and ready ones ready or
\* running, idle aside.
LEMMA SchedulerSteps ==
  ASSUME ThreadInv, TimerIntr \/ IdleLoop
  PROVE  /\ ThreadInv'
         /\ \A t \in Thread \ {Idle} :
              IF status[t] \in {"READY", "RUNNING"} THEN status'[t] \in {"READY", "RUNNING"}
                                                  ELSE status'[t] = status[t]
<1> USE ThreadAssumption
<1>0. /\ ThreadTypeOK /\ kernel = "up" /\ ListsAgree(status, ready)
      /\ status \in [Thread -> TaskStatus] /\ ready \in Seq(Thread)
      /\ cur \in Thread /\ status[cur] = "RUNNING"
      /\ \A t \in Thread : status[t] = "RUNNING" => t = cur
  BY DEF ThreadInv, ThreadTypeOK, ReadyListExact, NoPanic, ListsAgree
<1>1. CASE TimerIntr
  <2>1. ThreadInv'
    BY <1>1, TimerInv
  <2>2. CASE schedule(status, ready, TRUE)
    <3>1. /\ Switched /\ cur' \in Range(ready) \cup {cur, Idle}
          /\ \A t \in Thread \ {cur, cur'} : status'[t] = status[t]
          /\ status' = [status' EXCEPT ![cur'] = "RUNNING"]
          /\ cur # cur' => status'[cur] = "READY"
      BY <1>0, <2>2, ScheduleKeepsLists
    <3> QED BY <1>0, <2>1, <3>1 DEF ListsAgree, Switched
  <2>3. CASE UNCHANGED <<status, ready, cur, intr, kernel>>
    BY <2>1, <2>3
  <2> QED BY <1>1, <2>2, <2>3 DEF TimerIntr
<1>2. CASE IdleLoop
  <2>1. ThreadInv'
    BY <1>2, IdleInv
  <2> DEFINE st == [status EXCEPT ![cur] = "BLOCKED"]
  <2>2. /\ cur = Idle /\ schedule(st, ready, TRUE)
    BY <1>2 DEF IdleLoop, thread_block
  <2>3. /\ st \in [Thread -> TaskStatus] /\ st[cur] = "BLOCKED"
        /\ \A t \in Thread \ {cur} : st[t] = status[t]
    BY <1>0 DEF TaskStatus
  <2>4. ListsAgree(st, ready) /\ st[Idle] \in Stopped
    BY <1>0, <2>2, <2>3 DEF ListsAgree, Stopped
  <2>5. \A t \in Thread : st[t] = "RUNNING" => t = cur
    BY <1>0, <2>3
  <2> HIDE DEF st
  <2>6. /\ Switched /\ cur' \in Range(ready) \cup {cur, Idle}
        /\ \A t \in Thread \ {cur, cur'} : status'[t] = st[t]
        /\ status' = [status' EXCEPT ![cur'] = "RUNNING"]
    BY <1>0, <2>2, <2>3, <2>4, <2>5, ScheduleKeepsLists
  <2> QED BY <1>0, <2>1, <2>2, <2>3, <2>6 DEF ListsAgree, Switched
<1> QED BY <1>1, <1>2

\* A thread gives the CPU away and stays ready.
LEMMA YieldInv == ThreadInv /\ Yield => ThreadInv'
<1> SUFFICES ASSUME ThreadInv, Yield PROVE ThreadInv'
  OBVIOUS
<1> USE ThreadAssumption
<1> DEFINE st == [status EXCEPT ![cur] = "READY"]
           rd == Append(ready, cur)
           ok == cur \notin Range(ready)
<1>1. /\ ThreadTypeOK /\ kernel = "up" /\ cur \in Thread /\ cur # Idle
      /\ status \in [Thread -> TaskStatus] /\ ready \in Seq(Thread)
      /\ \A t \in Thread : status[t] = "RUNNING" <=> t = cur
      /\ \A t \in Thread : status[t] = "READY" <=> t \in Range(ready)
      /\ IsInjective(ready) /\ IdleStays /\ intr' = intr
  BY DEF ThreadInv, ThreadTypeOK, ReadyListExact, NoPanic, Yield
<1>2. schedule(st, rd, ok)
  <2>1. schedule(st, rd, TRUE /\ ok)
    BY DEF Yield, thread_yield, YieldStatus, AppendReady
  <2> QED BY <2>1
<1>3. ok
  BY <1>1
<1>4. /\ rd \in Seq(Thread) /\ rd # << >>
      /\ Range(rd) = Range(ready) \cup {cur} /\ IsInjective(rd)
  BY <1>1, <1>3, AppendList
<1>5. st \in [Thread -> TaskStatus] /\ st[cur] = "READY"
      /\ \A t \in Thread \ {cur} : st[t] = status[t]
  BY <1>1 DEF TaskStatus
<1> HIDE DEF st, rd, ok
<1>6. ListsAgree(st, rd) /\ \A t \in Thread : st[t] = "RUNNING" => t = cur
  BY <1>1, <1>4, <1>5 DEF ListsAgree
<1>7. /\ Switched
      /\ \A t \in Thread \ {cur, cur'} : status'[t] = st[t]
      /\ status' = [status' EXCEPT ![cur'] = "RUNNING"]
  BY <1>1, <1>2, <1>3, <1>4, <1>5, <1>6, ScheduleKeepsLists
<1>8. IdleStays'
  BY <1>1, <1>5, <1>7 DEF IdleStays, Switched
<1> QED BY <1>1, <1>7, <1>8 DEF ThreadInv, ThreadTypeOK, NoPanic, Switched

\* A thread that waits is woken.
LEMMA UnblockInv ==
  ASSUME NEW t \in Thread, ThreadInv, Unblock(t) PROVE ThreadInv'
<1> USE ThreadAssumption
<1>1. /\ ThreadTypeOK /\ kernel = "up" /\ status \in [Thread -> TaskStatus]
      /\ ready \in Seq(Thread) /\ t # Idle
      /\ status[t] \in {"BLOCKED", "WAITING"} /\ t # cur /\ t \notin Range(ready)
      /\ \A u \in Thread : status[u] = "RUNNING" <=> u = cur
      /\ \A u \in Thread : status[u] = "READY" <=> u \in Range(ready)
      /\ IsInjective(ready) /\ IdleStays
  BY DEF ThreadInv, ThreadTypeOK, ReadyListExact, NoPanic, Unblock
<1>2. /\ status' = [status EXCEPT ![t] = "READY"] /\ ready' = <<t>> \o ready
      /\ cur' = cur /\ ticks' = ticks /\ intr' = intr /\ kernel' = "up"
  BY <1>1 DEF Unblock, UnblockStatus, UnblockReady, UnblockOK, AssertThat, Stopped
<1>3. /\ ready' \in Seq(Thread) /\ Range(ready') = Range(ready) \cup {t}
      /\ IsInjective(ready')
  BY <1>1, <1>2, PushList
<1>4. ThreadTypeOK'
  BY <1>1, <1>2, <1>3 DEF ThreadTypeOK, TaskStatus
<1>5. ReadyListExact' /\ IdleStays'
  BY <1>1, <1>2, <1>3 DEF ReadyListExact, IdleStays
<1> QED BY <1>2, <1>4, <1>5 DEF ThreadInv, NoPanic

\* A new process is linked into the ready list.
LEMMA StartKeepsLists ==
  ASSUME NEW t \in Thread, ThreadInv, status[t] = "DIED",
         status' = StartStatus(status, t), ready' = AppendReady(ready, t), cur' = cur,
         ticks' = [ticks EXCEPT ![t] = Prio[t]], AssertThat(t \notin Range(ready)),
         intr' \in [Thread -> {"on", "off"}]
  PROVE  ThreadInv'
<1> USE ThreadAssumption
<1>1. /\ ThreadTypeOK /\ kernel = "up" /\ status \in [Thread -> TaskStatus]
      /\ ready \in Seq(Thread) /\ t # Idle /\ t # cur /\ t \notin Range(ready)
      /\ \A u \in Thread : status[u] = "RUNNING" <=> u = cur
      /\ \A u \in Thread : status[u] = "READY" <=> u \in Range(ready)
      /\ IsInjective(ready) /\ IdleStays
  BY DEF ThreadInv, ThreadTypeOK, ReadyListExact, NoPanic, IdleStays
<1>2. status' = [status EXCEPT ![t] = "READY"] /\ ready' = Append(ready, t) /\ kernel' = "up"
  BY <1>1 DEF StartStatus, AppendReady, AssertThat
<1>3. /\ ready' \in Seq(Thread) /\ Range(ready') = Range(ready) \cup {t}
      /\ IsInjective(ready')
  BY <1>1, <1>2, AppendList
<1>4. ThreadTypeOK'
  BY <1>1, <1>2, <1>3 DEF ThreadTypeOK, TaskStatus
<1>5. ReadyListExact' /\ IdleStays'
  BY <1>1, <1>2, <1>3 DEF ReadyListExact, IdleStays
<1> QED BY <1>2, <1>4, <1>5 DEF ThreadInv, NoPanic

\* sys_fork links a new process.
LEMMA StartInv ==
  ASSUME NEW t \in Thread, ThreadInv, Start(t) PROVE ThreadInv'
<1>1. intr' \in [Thread -> {"on", "off"}]
  BY DEF Start, ThreadInv, ThreadTypeOK
<1> QED BY <1>1, StartKeepsLists DEF Start

\* A zombie is reaped; it is in no list.
LEMMA ReapKeepsLists ==
  ASSUME NEW t \in Thread, ThreadInv, status[t] = "HANGING",
         status' = [status EXCEPT ![t] = "DIED"],
         ready' = IF t \in Range(ready) THEN SelectSeq(ready, LAMBDA u : u # t) ELSE ready,
         UNCHANGED <<cur, ticks, kernel>>, intr' \in [Thread -> {"on", "off"}]
  PROVE  ThreadInv'
<1> USE ThreadAssumption
<1>1. t \notin Range(ready) /\ IdleStays /\ t # Idle /\ status \in [Thread -> TaskStatus]
  BY DEF ThreadInv, ThreadTypeOK, ReadyListExact, IdleStays
<1>2. ready' = ready
  BY <1>1
<1>3. ThreadTypeOK'
  BY <1>1, <1>2 DEF ThreadInv, ThreadTypeOK, TaskStatus
<1>4. ReadyListExact' /\ IdleStays'
  BY <1>1, <1>2 DEF ThreadInv, ReadyListExact, IdleStays
<1> QED BY <1>3, <1>4 DEF ThreadInv, NoPanic

LEMMA ReapInv ==
  ASSUME NEW t \in Thread, ThreadInv, Reap(t) PROVE ThreadInv'
<1>1. intr' \in [Thread -> {"on", "off"}]
  BY DEF Reap, ThreadInv, ThreadTypeOK
<1> QED BY <1>1, ReapKeepsLists DEF Reap

\* System calls change the interrupt flag of the caller only.
LEMMA SyscallInv == ThreadInv /\ (SyscallEnter \/ SyscallExit) => ThreadInv'
  BY DEF ThreadInv, ThreadTypeOK, ReadyListExact, NoPanic, IdleStays,
         SyscallEnter, SyscallExit

\* Every step of the scheduler preserves the invariant.
LEMMA NextInv == ThreadInv /\ [ThreadNext]_threadVars => ThreadInv'
<1> SUFFICES ASSUME ThreadInv, [ThreadNext]_threadVars PROVE ThreadInv'
  OBVIOUS
<1>1. CASE TimerIntr
  BY <1>1, TimerInv
<1>2. CASE SyscallEnter \/ SyscallExit
  BY <1>2, SyscallInv
<1>3. CASE \E stat \in Stopped : Block(stat)
  BY <1>3, BlockInv
<1>4. CASE Wake
  BY <1>4, UnblockInv DEF Wake
<1>5. CASE Yield
  BY <1>5, YieldInv
<1>6. CASE IdleLoop
  BY <1>6, IdleInv
<1>7. CASE \E t \in Thread : Start(t)
  BY <1>7, StartInv
<1>8. CASE \E t \in Thread : Reap(t)
  BY <1>8, ReapInv
<1>9. CASE UNCHANGED threadVars
  BY <1>9 DEF threadVars, ThreadInv, ThreadTypeOK, ReadyListExact, NoPanic, IdleStays
<1> QED BY <1>1, <1>2, <1>3, <1>4, <1>5, <1>6, <1>7, <1>8, <1>9 DEF ThreadNext

-----------------------------------------------------------------------------
\* The inductive invariant holds in every reachable state.
THEOREM SchedulerInvariant == ThreadSafety => []ThreadInv
  BY InitInv, NextInv, PTL DEF ThreadSafety

\* Type correctness: in particular a time slice never exceeds the priority.
THEOREM SchedulerTypeOK == ThreadSafety => []ThreadTypeOK
<1>1. ThreadInv => ThreadTypeOK
  BY DEF ThreadInv
<1> QED BY <1>1, SchedulerInvariant, PTL

\* thread_ready_list holds exactly the READY threads, each once, and exactly
\* the thread on the CPU is RUNNING.
THEOREM ReadyListIsExact == ThreadSafety => []ReadyListExact
<1>1. ThreadInv => ReadyListExact
  BY DEF ThreadInv
<1> QED BY <1>1, SchedulerInvariant, PTL

\* No ASSERT of schedule, thread_unblock, thread_yield or sys_fork fails.
THEOREM SchedulerNeverPanics == ThreadSafety => []NoPanic
<1>1. ThreadInv => NoPanic
  BY DEF ThreadInv
<1> QED BY <1>1, SchedulerInvariant, PTL

-----------------------------------------------------------------------------
(* Who overtakes in the ready list.                                        *)

\* Every element both lists have is in r at most as far back as in s.
NoneOvertakes(s, r) ==
  \A i \in DOMAIN s, j \in DOMAIN r : s[i] = r[j] => j <= i

\* Appending an element that is not in the list, or removing the first one,
\* or both, lets no element be overtaken.
LEMMA QueueOrder ==
  ASSUME NEW S, NEW s \in Seq(S), IsInjective(s)
  PROVE  /\ NoneOvertakes(s, s) /\ NoneOvertakes(s, << >>)
         /\ s # << >> => NoneOvertakes(s, Tail(s))
         /\ \A e \in S \ Range(s) : /\ NoneOvertakes(s, Append(s, e))
                                    /\ NoneOvertakes(s, Tail(Append(s, e)))
<1>1. DOMAIN s = 1..Len(s) /\ Len(s) \in Nat
  OBVIOUS
<1>2. NoneOvertakes(s, s) /\ NoneOvertakes(s, << >>)
  BY <1>1 DEF NoneOvertakes, IsInjective
<1>3. ASSUME s # << >> PROVE NoneOvertakes(s, Tail(s))
  <2> SUFFICES ASSUME NEW i \in DOMAIN s, NEW j \in DOMAIN Tail(s), s[i] = Tail(s)[j]
               PROVE  j <= i
    BY DEF NoneOvertakes
  <2>1. j \in Nat /\ j+1 \in DOMAIN s /\ Tail(s)[j] = s[j+1]
    BY <1>1, <1>3
  <2>2. i = j+1
    BY <2>1 DEF IsInjective
  <2> QED BY <2>1, <2>2
<1>4. ASSUME NEW e \in S \ Range(s)
      PROVE  NoneOvertakes(s, Append(s, e)) /\ NoneOvertakes(s, Tail(Append(s, e)))
  <2> DEFINE a == Append(s, e)
  <2>1. /\ a \in Seq(S) /\ a # << >> /\ DOMAIN a = 1..Len(s)+1 /\ Len(a) = Len(s)+1
        /\ \A k \in 1..Len(s) : a[k] = s[k]
        /\ a[Len(s)+1] = e
    BY <1>1
  <2>2. DOMAIN Tail(a) = 1..Len(s) /\ \A k \in 1..Len(s) : Tail(a)[k] = a[k+1]
    BY <2>1, <1>1
  <2> HIDE DEF a
  <2>3. ASSUME NEW i \in DOMAIN s, NEW k \in DOMAIN a, s[i] = a[k] PROVE k = i
    <3>1. s[i] # e
      BY <1>4 DEF Range
    <3>2. k \in DOMAIN s /\ a[k] = s[k]
      BY <1>1, <2>1, <2>3, <3>1
    <3> QED BY <2>3, <3>2 DEF IsInjective
  <2>4. NoneOvertakes(s, a)
    BY <1>1, <2>3 DEF NoneOvertakes
  <2>5. NoneOvertakes(s, Tail(a))
    <3> SUFFICES ASSUME NEW i \in DOMAIN s, NEW j \in 1..Len(s), s[i] = Tail(a)[j]
                 PROVE  j <= i
      BY <2>2 DEF NoneOvertakes
    <3>1. j+1 \in DOMAIN a /\ s[i] = a[j+1]
      BY <1>1, <2>1, <2>2
    <3>2. j+1 = i
      BY <2>3, <3>1
    <3> QED BY <1>1, <3>2
  <2> QED BY <2>4, <2>5 DEF a
<1> QED BY <1>2, <1>3, <1>4

\* Under the invariant schedule does not let a ready thread be overtaken,
\* whether the slice of cur ran out or cur blocks.
LEMMA ScheduleOrder ==
  ASSUME ThreadInv, NEW st, NEW ok, schedule(st, ready, ok)
  PROVE  NoneOvertakes(ready, ready')
<1>1. /\ ready \in Seq(Thread) /\ IsInjective(ready) /\ cur \in Thread \ Range(ready)
  BY DEF ThreadInv, ThreadTypeOK, ReadyListExact
<1>2. \/ ready' = << >>
      \/ ready # << >> /\ ready' = Tail(ready)
      \/ ready' = Tail(Append(ready, cur))
  BY DEF schedule, AppendReady
<1> QED BY <1>1, <1>2, QueueOrder

\* Only wakeups overtake.
THEOREM WakeupsOvertakeOnly == ThreadSafety => OnlyWakeupsOvertake
<1> DEFINE Fair == ~Wake => NoneOvertakes(ready, ready')
<1>1. ASSUME ThreadInv, [ThreadNext]_threadVars PROVE [Fair]_threadVars
  <2> USE <1>1
  <2>1. ready \in Seq(Thread) /\ IsInjective(ready) /\ cur \in Thread \ Range(ready)
    BY DEF ThreadInv, ThreadTypeOK, ReadyListExact
  <2>2. CASE ready' = ready
    BY <2>1, <2>2, QueueOrder
  <2>3. CASE TimerIntr
    BY <2>2, <2>3, ScheduleOrder DEF TimerIntr
  <2>4. CASE SyscallEnter \/ SyscallExit
    BY <2>2, <2>4 DEF SyscallEnter, SyscallExit
  <2>5. CASE IdleLoop \/ \E stat \in Stopped : Block(stat)
    BY <2>5, ScheduleOrder DEF IdleLoop, Block, thread_block
  <2>6. CASE Yield
    <3>1. status[cur] # "READY" /\ YieldStatus(status)[cur] = "READY"
      BY DEF ThreadInv, ThreadTypeOK, ReadyListExact, YieldStatus
    <3>2. Append(ready, cur) # << >>
      BY <2>1, AppendList
    <3>3. ready' = Tail(Append(ready, cur))
      BY <2>6, <3>1, <3>2 DEF Yield, thread_yield, schedule, AppendReady
    <3> QED BY <2>1, <3>3, QueueOrder
  <2>7. CASE \E t \in Thread : Start(t)
    <3>1. PICK t \in Thread : Start(t)
      BY <2>7
    <3>2. t \notin Range(ready) /\ ready' = Append(ready, t)
      BY <3>1 DEF ThreadInv, ReadyListExact, Start, AppendReady
    <3> QED BY <2>1, <3>2, QueueOrder
  <2>8. CASE \E t \in Thread : Reap(t)
    BY <2>2, <2>8 DEF ThreadInv, ReadyListExact, Reap
  <2>9. CASE Wake \/ UNCHANGED threadVars
    BY <2>9
  <2> QED BY <2>3, <2>4, <2>5, <2>6, <2>7, <2>8, <2>9 DEF ThreadNext
<1>2. Fair <=> (~Wake => \A i \in DOMAIN ready, j \in DOMAIN ready' :
                            ready[i] = ready'[j] => j <= i)
  BY DEF NoneOvertakes
<1> QED BY <1>1, <1>2, SchedulerInvariant, PTL DEF ThreadSafety, OnlyWakeupsOvertake

=============================================================================
