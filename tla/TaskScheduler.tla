---------------------------- MODULE TaskScheduler ----------------------------
(***************************************************************************)
(* The scheduler of the BI reports: the thread that runs them and the      *)
(* callers that register them (server/bi/task_scheduler.cpp). Every call   *)
(* takes mutex_ for its whole length, so it is one step, except stop, which *)
(* waits for the thread with the mutex held.                               *)
(*                                                                         *)
(* Time is counted in parts of a day: 2 * d is day d before nine o'clock,  *)
(* 2 * d + 1 the same day from nine on. The system clock is not set back.  *)
(* A task's report type, filter and format are left out.                   *)
(***************************************************************************)
EXTENDS Integers

CONSTANTS
  Ids,        \* task_id; add makes up TASK-<seconds>, which may be in use
  NoTask,     \* what tasks holds for an id that is not there
  Week,       \* days of a week, 7; day 1 is a Monday
  Month,      \* days of a month; day 0 is a first
  MaxClock,   \* bound: the clock stops here
  MaxCalls    \* bound: calls

Crons == {"daily", "weekly", "monthly", "other"}
Tasks == [cron : Crons, enabled : BOOLEAN]

ASSUME TaskSchedulerAssumption ==
  /\ NoTask \notin Tasks
  /\ Week \in Nat \ {0} /\ Month \in Nat \ {0}
  /\ MaxClock \in Nat /\ MaxCalls \in Nat

VARIABLES
  tasks,     \* tasks_
  running,   \* running_
  holder,    \* who holds mutex_ between two steps: "none" or "stop"
  loop,      \* where schedulerLoop is; "none": no thread, or it was joined
  copy,      \* tasksCopy, what is left of it
  id, task,  \* the task of the loop's body
  now,       \* the time of the round
  clock,     \* system_clock
  stale,     \* history: runs of what a task was before its last change
  calls      \* calls made

vars == <<tasks, running, holder, loop, copy, id, task, now, clock, stale, calls>>

Disabled == [cron |-> "other", enabled |-> FALSE]

Init ==
  /\ tasks = [i \in Ids |-> NoTask]
  /\ running = FALSE /\ holder = "none"
  /\ loop = "none" /\ copy = [i \in Ids |-> NoTask]
  /\ id \in Ids /\ task = Disabled
  /\ now = 0 /\ clock = 0
  /\ stale = [i \in Ids |-> 0] /\ calls = 0

-----------------------------------------------------------------------------
(* parseCron *)

Today == clock \div 2
NineOf(day) == 2 * day + 1
FirstOfMonth(day) == day % Month = 0
Monday(day) == day % Week = 1 % Week

\* (8 - tm_wday) % 7, and a week if that is 0.
DaysUntilMonday ==
  LET days == ((Week + 1) - (Today % Week)) % Week IN IF days = 0 THEN Week ELSE days

BugToday == [daily   |-> NineOf(Today),
             weekly  |-> NineOf(Today + DaysUntilMonday),
             monthly |-> NineOf(Today)]

\* The run that follows the moment of the call; on a first of the month the
\* one of the same day, be it past.
NextRun ==
  [daily   |-> IF NineOf(Today) <= clock THEN NineOf(Today) + 2 ELSE NineOf(Today),
   weekly  |-> NineOf(Today + DaysUntilMonday),
   monthly |-> NineOf(IF FirstOfMonth(Today) THEN Today
                      ELSE (Today - (Today % Month)) + Month)]

\* An expression that is not one of the three is not parsed.
Due(t) == t.cron \in DOMAIN NextRun /\ now >= NextRun[t.cron]

-----------------------------------------------------------------------------
(* schedulerLoop *)

\* while (running_), read without the mutex, and the time of the round.
LoopTest ==
  /\ loop = "test"
  /\ loop' = IF running THEN "copy" ELSE "ended"
  /\ now' = IF running THEN clock ELSE now
  /\ UNCHANGED <<tasks, running, holder, copy, id, task, clock, stale, calls>>

BugCopyAll == tasks

\* What the round looks at: the tasks that are enabled.
Enabled == [i \in Ids |-> IF tasks[i] # NoTask /\ tasks[i].enabled THEN tasks[i] ELSE NoTask]

LoopCopy ==
  /\ loop = "copy" /\ holder = "none"
  /\ copy' = Enabled
  /\ loop' = "next"
  /\ UNCHANGED <<tasks, running, holder, id, task, now, clock, stale, calls>>

\* The next task of the copy, in any order; it is run if it is due.
LoopNext(i) ==
  /\ loop = "next" /\ copy[i] # NoTask
  /\ copy' = [copy EXCEPT ![i] = NoTask]
  /\ IF Due(copy[i])
       THEN /\ loop' = "execute" /\ id' = i /\ task' = copy[i]
            /\ stale' = IF copy[i] = tasks[i] /\ copy[i].enabled THEN stale
                        ELSE [stale EXCEPT ![i] = @ + 1]
       ELSE UNCHANGED <<loop, id, task, stale>>
  /\ UNCHANGED <<tasks, running, holder, now, clock, calls>>

\* executeTask: the report is written, or fails, which is caught.
LoopExecute ==
  /\ loop = "execute" /\ loop' = "next"
  /\ UNCHANGED <<tasks, running, holder, copy, id, task, now, clock, stale, calls>>

LoopSleep ==
  /\ loop = "next" /\ \A i \in Ids : copy[i] = NoTask
  /\ loop' = "sleep"
  /\ UNCHANGED <<tasks, running, holder, copy, id, task, now, clock, stale, calls>>

LoopWake ==
  /\ loop = "sleep" /\ loop' = "test"
  /\ UNCHANGED <<tasks, running, holder, copy, id, task, now, clock, stale, calls>>

Tick ==
  /\ clock < MaxClock /\ clock' = clock + 1
  /\ UNCHANGED <<tasks, running, holder, loop, copy, id, task, now, stale, calls>>

-----------------------------------------------------------------------------
(* The callers *)

Call == holder = "none" /\ calls < MaxCalls /\ calls' = calls + 1

\* A call leaves t as task i.
Change(i, t) ==
  /\ tasks' = [tasks EXCEPT ![i] = t]
  /\ stale' = [stale EXCEPT ![i] = 0]
  /\ UNCHANGED <<running, holder, loop, copy, id, task, now, clock>>

AddTask(i, t) == Call /\ Change(i, t)
RemoveTask(i) == Call /\ tasks[i] # NoTask /\ Change(i, NoTask)
UpdateTask(i, t) == Call /\ tasks[i] # NoTask /\ Change(i, t)
EnableTask(i) == Call /\ tasks[i] # NoTask /\ Change(i, [tasks[i] EXCEPT !.enabled = TRUE])
DisableTask(i) == Call /\ tasks[i] # NoTask /\ Change(i, [tasks[i] EXCEPT !.enabled = FALSE])

\* start: of a scheduler that runs it does nothing.
Start ==
  /\ Call /\ ~running
  /\ running' = TRUE /\ loop' = "test"
  /\ UNCHANGED <<tasks, holder, copy, id, task, now, clock, stale>>

BugStopAsks ==
  /\ Call /\ running
  /\ holder' = "stop"
  /\ UNCHANGED <<running, tasks, loop, copy, id, task, now, clock, stale>>

\* stop: of a scheduler that does not run it does nothing.
Stop ==
  /\ Call /\ running
  /\ running' = FALSE /\ holder' = "stop"
  /\ UNCHANGED <<tasks, loop, copy, id, task, now, clock, stale>>

BugDetach ==
  /\ holder = "stop" /\ holder' = "none"
  /\ UNCHANGED <<tasks, running, loop, copy, id, task, now, clock, stale, calls>>

\* join, still with the mutex, which is given back at the end of the call.
StopJoins ==
  /\ holder = "stop" /\ loop = "ended"
  /\ loop' = "none" /\ holder' = "none"
  /\ UNCHANGED <<tasks, running, copy, id, task, now, clock, stale, calls>>

-----------------------------------------------------------------------------
Next ==
  \/ LoopTest \/ LoopCopy \/ LoopExecute \/ LoopSleep \/ LoopWake
  \/ \E i \in Ids : LoopNext(i)
  \/ Tick
  \/ \E i \in Ids, t \in Tasks : AddTask(i, t) \/ UpdateTask(i, t)
  \/ \E i \in Ids : RemoveTask(i) \/ EnableTask(i) \/ DisableTask(i)
  \/ Start \/ Stop \/ StopJoins

\* The thread keeps running, and gets mutex_ when calls leave it free;
\* a report is generated or fails.
Fairness ==
  /\ WF_vars(LoopTest) /\ SF_vars(LoopCopy) /\ WF_vars(LoopExecute)
  /\ WF_vars(LoopSleep) /\ WF_vars(LoopWake) /\ WF_vars(StopJoins)
  /\ \A i \in Ids : WF_vars(LoopNext(i))

Spec == Init /\ [][Next]_vars /\ Fairness

-----------------------------------------------------------------------------
(* Properties *)

\* The values of the variables.
TypeOK ==
  /\ tasks \in [Ids -> Tasks \cup {NoTask}]
  /\ running \in BOOLEAN /\ holder \in {"none", "stop"}
  /\ loop \in {"none", "test", "copy", "next", "execute", "sleep", "ended"}
  /\ copy \in [Ids -> Tasks \cup {NoTask}]
  /\ id \in Ids /\ task \in Tasks
  /\ now \in Nat /\ clock \in Nat
  /\ stale \in [Ids -> Nat] /\ calls \in Nat

\* Callers and the thread overlap as they like: since the last call that
\* added, changed, disabled or removed a task, at most one run of what it was
\* before has begun, that of the round under way (task_scheduler.cpp:142-156).
OneStaleRun == \A i \in Ids : stale[i] <= 1

\* The thread start creates is assigned to schedulerThread_ when no thread is
\* left in it, which would end the process (:27); and once stop has returned
\* no report is being written.
StartFindsNoThread == holder = "none" /\ ~running => loop = "none"

\* No report is written ahead of its time: the round that runs a task was
\* begun after nine o'clock, on a Monday if the task is weekly, on a first of
\* the month if it is monthly, however tasks change between two rounds and
\* whenever the loop gets to the call of parseCron (:155, :166-203). That a
\* report is written at all is another matter: a daily or a weekly one never is.
NeverEarly ==
  loop = "execute" =>
    /\ now % 2 = 1
    /\ task.cron = "weekly" => Monday(now \div 2)
    /\ task.cron = "monthly" => FirstOfMonth(now \div 2)

\* stop returns, unless it takes the mutex just when the thread has tested
\* running_ and is going to lock it: then both wait for each other (:38-43,
\* :139-144).
StopReturns == holder = "stop" /\ loop # "copy" ~> holder = "none"
=============================================================================
