------------------------- MODULE TaskSchedulerProofs -------------------------
(***************************************************************************)
(* Theorems of module TaskScheduler, for every number of tasks and calls   *)
(* and for weeks and months of any length.                                 *)
(***************************************************************************)
EXTENDS TaskScheduler, TLAPS

\* A round's time is read before the calls of parseCron in it.
Past == now <= clock

\* A task the round has still to look at has had no stale run since its last
\* change, unless the round copied it after that run.
FreshCopy ==
  \A i \in Ids : copy[i] # NoTask => \/ stale[i] = 0
                                     \/ copy[i] = tasks[i] /\ copy[i].enabled

IInv == TypeOK /\ Past /\ FreshCopy /\ OneStaleRun /\ StartFindsNoThread /\ NeverEarly

-----------------------------------------------------------------------------
(* Lemmas: the calendar *)

LEMMA HalfDays ==
  ASSUME NEW t \in Nat
  PROVE  /\ t \div 2 \in Nat
         /\ 2 * (t \div 2) <= t /\ t < 2 * (t \div 2) + 2
         /\ t % 2 = t - 2 * (t \div 2)
  OBVIOUS

LEMMA Remainder ==
  ASSUME NEW a \in Nat, NEW b \in Nat \ {0}
  PROVE  a % b \in Nat /\ a % b < b
  OBVIOUS

LEMMA MondayAhead ==
  ASSUME clock \in Nat
  PROVE  DaysUntilMonday \in Nat /\ DaysUntilMonday >= 1
<1> DEFINE wday == Today % Week
           days == ((Week + 1) - wday) % Week
<1>1. Week \in Nat \ {0} BY TaskSchedulerAssumption
<1>2. Today \in Nat BY HalfDays DEF Today
<1>3. wday \in Nat /\ wday < Week BY <1>1, <1>2, Remainder
<1>4. (Week + 1) - wday \in Nat BY <1>1, <1>3
<1>5. days \in Nat BY <1>1, <1>4, Remainder
<1>6. DaysUntilMonday = IF days = 0 THEN Week ELSE days BY DEF DaysUntilMonday
<1> HIDE DEF days
<1> QED BY <1>1, <1>5, <1>6

\* What parseCron computes lies ahead, but for the monthly run of a first.
LEMMA RunsAhead ==
  ASSUME clock \in Nat
  PROVE  /\ NextRun.daily > clock /\ NextRun.weekly > clock
         /\ NextRun.daily \in Nat /\ NextRun.weekly \in Nat /\ NextRun.monthly \in Nat
         /\ FirstOfMonth(Today) => NextRun.monthly = NineOf(Today)
         /\ ~FirstOfMonth(Today) => NextRun.monthly > clock
<1>1. Month \in Nat \ {0} BY TaskSchedulerAssumption
<1>2. Today \in Nat /\ 2 * Today <= clock /\ clock < 2 * Today + 2
  BY HalfDays DEF Today
<1>3. NextRun.daily \in Nat /\ NextRun.daily > clock
  BY <1>2 DEF NextRun, NineOf
<1>4. NextRun.weekly \in Nat /\ NextRun.weekly > clock
  <2>1. DaysUntilMonday \in Nat /\ DaysUntilMonday >= 1 BY MondayAhead
  <2>2. NextRun.weekly = 2 * (Today + DaysUntilMonday) + 1 BY DEF NextRun, NineOf
  <2> QED BY <1>2, <2>1, <2>2
<1>5. /\ NextRun.monthly \in Nat
      /\ FirstOfMonth(Today) => NextRun.monthly = NineOf(Today)
      /\ ~FirstOfMonth(Today) => NextRun.monthly > clock
  <2> DEFINE past == Today % Month
  <2>1. past \in Nat /\ past < Month BY <1>1, <1>2, Remainder
  <2>2. NextRun.monthly = NineOf(IF FirstOfMonth(Today) THEN Today ELSE (Today - past) + Month)
    BY DEF NextRun
  <2>3. CASE FirstOfMonth(Today)
    BY <1>2, <2>2, <2>3 DEF NineOf
  <2>4. CASE ~FirstOfMonth(Today)
    <3>1. NextRun.monthly = 2 * ((Today - past) + Month) + 1
      BY <2>2, <2>4 DEF NineOf
    <3> HIDE DEF past
    <3>2. NextRun.monthly \in Nat /\ NextRun.monthly > clock
      BY <1>1, <1>2, <2>1, <3>1
    <3> QED BY <2>4, <3>2
  <2> QED BY <2>3, <2>4
<1> QED BY <1>3, <1>4, <1>5

\* A run that lies ahead of the call is ahead of the round's time as well: of
\* a day's kinds of run only the monthly one of a first can be due.
LEMMA DueIsMonthly ==
  ASSUME clock \in Nat, now \in Nat, now <= clock, NEW t \in Tasks, Due(t)
  PROVE  t.cron = "monthly" /\ FirstOfMonth(now \div 2) /\ now % 2 = 1
<1>1. t.cron \in {"daily", "weekly", "monthly"} /\ now >= NextRun[t.cron]
  BY DEF Due, NextRun
<1>2. t.cron = "monthly" BY <1>1, RunsAhead
<1>3. now >= NextRun.monthly BY <1>1, <1>2
<1>4. FirstOfMonth(Today) /\ NextRun.monthly = NineOf(Today)
  BY <1>3, RunsAhead
<1>5. Today \in Nat /\ 2 * Today <= clock /\ clock < 2 * Today + 2
  BY HalfDays DEF Today
<1>6. now = 2 * Today + 1 BY <1>3, <1>4, <1>5 DEF NineOf
<1>7. now \div 2 = Today /\ now % 2 = 1 BY <1>5, <1>6
<1> QED BY <1>2, <1>4, <1>7

-----------------------------------------------------------------------------
(* The inductive invariant *)

LEMMA InitIInv == Init => IInv
<1> SUFFICES ASSUME Init PROVE IInv
  OBVIOUS
<1>1. Disabled \in Tasks BY DEF Disabled, Tasks, Crons
<1>2. TypeOK BY <1>1 DEF Init, TypeOK
<1>3. Past /\ FreshCopy /\ OneStaleRun
  BY DEF Init, Past, FreshCopy, OneStaleRun
<1>4. StartFindsNoThread /\ NeverEarly
  BY DEF Init, StartFindsNoThread, NeverEarly
<1> QED BY <1>2, <1>3, <1>4 DEF IInv

LEMMA NextIInv == IInv /\ [Next]_vars => IInv'
<1> SUFFICES ASSUME IInv, [Next]_vars PROVE IInv'
  OBVIOUS
<1> USE DEF IInv
<1>t. NoTask \notin Tasks BY TaskSchedulerAssumption
<1>1. CASE LoopTest
  BY <1>1 DEF LoopTest, TypeOK, Past, FreshCopy, OneStaleRun, StartFindsNoThread, NeverEarly
<1>2. CASE LoopCopy
  <2>1. copy' \in [Ids -> Tasks \cup {NoTask}]
    BY <1>2 DEF LoopCopy, Enabled, TypeOK
  <2>2. FreshCopy'
    BY <1>2, <1>t DEF LoopCopy, Enabled, TypeOK, FreshCopy
  <2> QED
    BY <1>2, <2>1, <2>2 DEF LoopCopy, TypeOK, Past, OneStaleRun, StartFindsNoThread, NeverEarly
<1>3. ASSUME NEW i \in Ids, LoopNext(i) PROVE IInv'
  <2>1. /\ copy[i] \in Tasks /\ copy' = [copy EXCEPT ![i] = NoTask]
        /\ UNCHANGED <<tasks, running, holder, now, clock, calls>>
    BY <1>3 DEF LoopNext, TypeOK
  <2>2. CASE Due(copy[i])
    <3>1. loop' = "execute" /\ id' = i /\ task' = copy[i]
      BY <1>3, <2>2 DEF LoopNext
    <3>2. \/ stale' = stale
          \/ stale' = [stale EXCEPT ![i] = @ + 1] /\ stale[i] = 0
      BY <1>3, <2>2 DEF LoopNext, TypeOK, FreshCopy
    <3>3. TypeOK' BY <2>1, <3>1, <3>2 DEF TypeOK
    <3>4. FreshCopy' BY <2>1, <3>2 DEF FreshCopy, TypeOK
    <3>5. OneStaleRun' BY <3>2 DEF OneStaleRun, TypeOK
    <3>6. NeverEarly'
      BY <2>1, <2>2, <3>1, DueIsMonthly DEF NeverEarly, TypeOK, Past
    <3>7. StartFindsNoThread' BY <1>3, <2>1 DEF StartFindsNoThread, LoopNext
    <3> QED BY <2>1, <3>3, <3>4, <3>5, <3>6, <3>7 DEF Past
  <2>3. CASE ~Due(copy[i])
    <3>1. UNCHANGED <<loop, id, task, stale>> BY <1>3, <2>3 DEF LoopNext
    <3>2. FreshCopy' BY <2>1, <3>1 DEF FreshCopy, TypeOK
    <3> QED
      BY <2>1, <3>1, <3>2 DEF TypeOK, Past, OneStaleRun, StartFindsNoThread, NeverEarly
  <2> QED BY <2>2, <2>3
<1>4. CASE LoopExecute \/ LoopSleep \/ LoopWake
  BY <1>4 DEF LoopExecute, LoopSleep, LoopWake, TypeOK, Past, FreshCopy, OneStaleRun,
              StartFindsNoThread, NeverEarly
<1>5. CASE Tick
  BY <1>5 DEF Tick, TypeOK, Past, FreshCopy, OneStaleRun, StartFindsNoThread, NeverEarly
<1>6. ASSUME NEW i \in Ids, NEW t \in Tasks \cup {NoTask}, Call, Change(i, t) PROVE IInv'
  BY <1>6 DEF Call, Change, TypeOK, Past, FreshCopy, OneStaleRun, StartFindsNoThread,
              NeverEarly
<1>7. ASSUME NEW i \in Ids, NEW t \in Tasks, AddTask(i, t) \/ UpdateTask(i, t) PROVE IInv'
  BY <1>6, <1>7 DEF AddTask, UpdateTask
<1>8. ASSUME NEW i \in Ids, RemoveTask(i) \/ EnableTask(i) \/ DisableTask(i) PROVE IInv'
  <2>1. CASE RemoveTask(i) BY <1>6, <2>1 DEF RemoveTask
  <2>2. CASE EnableTask(i)
    <3>1. [tasks[i] EXCEPT !.enabled = TRUE] \in Tasks
      BY <2>2 DEF EnableTask, TypeOK, Tasks
    <3> QED BY <1>6, <2>2, <3>1 DEF EnableTask
  <2>3. CASE DisableTask(i)
    <3>1. [tasks[i] EXCEPT !.enabled = FALSE] \in Tasks
      BY <2>3 DEF DisableTask, TypeOK, Tasks
    <3> QED BY <1>6, <2>3, <3>1 DEF DisableTask
  <2> QED BY <1>8, <2>1, <2>2, <2>3
<1>9. CASE Start \/ Stop \/ StopJoins
  <2>1. UNCHANGED <<tasks, copy, id, task, stale, now, clock>>
    BY <1>9 DEF Start, Stop, StopJoins
  <2>2. /\ running' \in BOOLEAN /\ holder' \in {"none", "stop"}
        /\ loop' \in {"none", "test", "copy", "next", "execute", "sleep", "ended"}
    BY <1>9 DEF Start, Stop, StopJoins, TypeOK
  <2>3. calls' \in Nat
    BY <1>9 DEF Start, Stop, StopJoins, Call, TypeOK
  <2>4. TypeOK'
    BY <2>1, <2>2, <2>3 DEF TypeOK
  <2>5. Past' /\ FreshCopy' /\ OneStaleRun'
    BY <2>1 DEF Past, FreshCopy, OneStaleRun
  <2>6. StartFindsNoThread'
    BY <1>9 DEF Start, Stop, StopJoins, StartFindsNoThread
  <2>7. NeverEarly'
    BY <1>9 DEF Start, Stop, StopJoins, NeverEarly
  <2> QED BY <2>4, <2>5, <2>6, <2>7
<1>10. CASE UNCHANGED vars
  BY <1>10 DEF vars, TypeOK, Past, FreshCopy, OneStaleRun, StartFindsNoThread, NeverEarly
<1> QED
  BY <1>1, <1>2, <1>3, <1>4, <1>5, <1>7, <1>8, <1>9, <1>10 DEF Next

LEMMA IInvHolds == Spec => []IInv
<1>1. Init => IInv BY InitIInv
<1>2. IInv /\ [Next]_vars => IInv' BY NextIInv
<1> QED BY <1>1, <1>2, PTL DEF Spec

-----------------------------------------------------------------------------
(* Theorems *)

\* The tasks, the loop's copy of them, the threads' places and the times keep
\* their types (task_scheduler.h, tasks_ and schedulerLoop's variables).
THEOREM TypesHold == Spec => []TypeOK
<1>1. IInv => TypeOK BY DEF IInv
<1> QED BY <1>1, IInvHolds, PTL

\* A change of a task takes effect after one run at most, that of the round
\* under way when the call took the mutex.
THEOREM OneStaleRunHolds == Spec => []OneStaleRun
<1>1. IInv => OneStaleRun BY DEF IInv
<1> QED BY <1>1, IInvHolds, PTL

\* start never finds a thread in schedulerThread_, and after stop none runs.
THEOREM StartFindsNoThreadHolds == Spec => []StartFindsNoThread
<1>1. IInv => StartFindsNoThread BY DEF IInv
<1> QED BY <1>1, IInvHolds, PTL

\* No report is written before nine o'clock, or on a day that is not its own.
THEOREM NeverEarlyHolds == Spec => []NeverEarly
<1>1. IInv => NeverEarly BY DEF IInv
<1> QED BY <1>1, IInvHolds, PTL
=============================================================================
