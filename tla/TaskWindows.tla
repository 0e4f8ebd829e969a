---------------------------- MODULE TaskWindows ----------------------------
(***************************************************************************)
(* When a worker makes the runs of a scheduled job, and when it looks for  *)
(* those that wait (infra/gocronqueue/server.go, tasks/queue/queueimpl/    *)
(* queue_schedule_job_tasks.go and queue_schedule_tasks.go).               *)
(*                                                                         *)
(* Both happen at the ticks of a timer, at intervals set in the database   *)
(* (TaskSettings), over windows of time by intervals in the configuration  *)
(* (Tasks.Queue). A run no window covers is never made; one that waits,    *)
(* and no scheduler has, is never run.                                     *)
(*                                                                         *)
(* One worker and one job: other workers' ticks only come in between. How  *)
(* a run is executed is in TaskExecution, what edits of the job do in      *)
(* SchedJobTasks.                                                          *)
(***************************************************************************)
EXTENDS Integers

CONSTANTS
    Run,            \* the times of the job's runs
    MaxTime,        \* bound: the time the model ends
    CreateEvery,    \* the setting TaskCreateInterval: when runs are made
    CreateAhead,    \* the configuration's: how far ahead
    CheckEvery,     \* the setting TaskCheckInterval: when they are looked for
    CheckAhead,     \* the configuration's: how far ahead, and back at least
    MissedPeriod,   \* missedTaskPeriod
    Late,           \* how late a tick may be handled
    MaxDown,        \* how long the worker may be down
    MaxFaults       \* bound: failed transactions and calls, crashes

Time == 0..MaxTime

ASSUME WindowsAssumption ==
    /\ MaxTime \in Nat /\ Run \subseteq Time
    /\ CreateEvery \in Nat \ {0} /\ CreateAhead \in Nat
    /\ CheckEvery \in Nat \ {0} /\ CheckAhead \in Nat /\ MissedPeriod \in Nat
    /\ Late \in Nat /\ Late < CreateEvery /\ Late < CheckEvery
    /\ MaxDown \in Nat /\ MaxFaults \in Nat

VARIABLES
    now,        \* the time
    up,         \* whether the worker is there
    downFor,    \* how long it has been down
    toMake,     \* how long until runs are made; below 0: overdue
    toScan,     \* how long until they are looked for
    status,     \* of each run's task
    madeAt,     \* when it was made (created_at)
    jobMap,     \* the runs the worker's scheduler has
    faults,
    \* History, for the properties:
    served,     \* whether the worker is there and its last making went well
    unserved,   \* the times at which it was not so
    lastMade    \* when runs were last made

timers == <<toMake, toScan>>
rows == <<status, madeAt>>
history == <<served, unserved, lastMade>>
vars == <<now, up, downFor, timers, rows, jobMap, faults, history>>

Fault == faults < MaxFaults /\ faults' = faults + 1

-----------------------------------------------------------------------------
\* The worker starts; both timers begin with a tick at once.
Init ==
    /\ now = 0
    /\ up = TRUE /\ downFor = 0
    /\ toMake = 0 /\ toScan = 0
    /\ status = [t \in Run |-> "none"] /\ madeAt = [t \in Run |-> 0]
    /\ jobMap = {}
    /\ faults = 0
    /\ served = FALSE /\ unserved = {0} /\ lastMade = 0

\* Time goes on: ticks are handled in time, runs that are due are started
\* (TaskScheduler), and a worker that is down is started again.
Tick ==
    /\ now < MaxTime
    /\ IF up THEN toMake > -Late /\ toScan > -Late /\ \A t \in jobMap : t > now
             ELSE downFor < MaxDown
    /\ now' = now + 1
    /\ IF up THEN toMake' = toMake - 1 /\ toScan' = toScan - 1 /\ UNCHANGED downFor
             ELSE downFor' = downFor + 1 /\ UNCHANGED timers
    /\ unserved' = IF served THEN unserved ELSE unserved \cup {now'}
    /\ UNCHANGED <<up, rows, jobMap, faults, served, lastMade>>

-----------------------------------------------------------------------------
\* Faulty: neither end of the window belongs to it.
RunsInRangeFromNext == {t \in Run : now < t /\ t < now + CreateAhead}

\* CalcNextRunsInRange: the runs from now to the end of the window, both ends
\* included.
RunsInRange == {t \in Run : now <= t /\ t <= now + CreateAhead}

\* doCreateTasksForJobs: rows that are there stand. A transaction that fails
\* makes none, and nobody tries again before the next tick. The timer's next
\* tick does not wait for this one to be handled.
MakeRuns ==
    /\ up /\ toMake <= 0
    /\ toMake' = toMake + CreateEvery
    /\ LET new == {t \in RunsInRange : status[t] = "none"}
       IN  \/ /\ status' = [t \in Run |-> IF t \in new THEN "waiting" ELSE status[t]]
              /\ madeAt' = [t \in Run |-> IF t \in new THEN now ELSE madeAt[t]]
              /\ served' = TRUE /\ lastMade' = now
              \* ScheduleTask, whose error is ignored.
              /\ \/ jobMap' = jobMap \cup new /\ UNCHANGED faults
                 \/ Fault /\ UNCHANGED jobMap
              /\ UNCHANGED unserved
           \/ /\ Fault
              /\ served' = FALSE /\ unserved' = unserved \cup {now}
              /\ UNCHANGED <<rows, jobMap, lastMade>>
    /\ UNCHANGED <<now, up, downFor, toScan>>

\* Faulty: the scan looks back to the last one only.
LookBackToLastScan == CheckAhead

\* scanWindow: how far back a scan looks.
LookBack == IF CheckAhead > MissedPeriod THEN CheckAhead ELSE MissedPeriod

\* findSchedulingTasks: those made, or due, since the window's begin.
Found ==
    {t \in Run : /\ status[t] = "waiting"
                 /\ \/ madeAt[t] >= now - LookBack
                    \/ t >= now - LookBack /\ t < now + CheckAhead}

\* shouldScheduleMissedTask: of the runs that were missed, the last one stands
\* for those before it.
StandIn(t) == \E u \in Found : u > t /\ u < now

ScanTasks ==
    /\ up /\ toScan <= 0
    /\ toScan' = toScan + CheckEvery
    /\ \/ jobMap' = jobMap \cup {t \in Found : t < now => ~StandIn(t)} /\ UNCHANGED faults
       \/ Fault /\ UNCHANGED jobMap
    /\ UNCHANGED <<now, up, downFor, toMake, rows, history>>

\* A run that is due is executed.
Execute(t) ==
    /\ t \in jobMap /\ t <= now
    /\ status' = [status EXCEPT ![t] = "done"]
    /\ jobMap' = jobMap \ {t}
    /\ UNCHANGED <<now, up, downFor, timers, madeAt, faults, history>>

-----------------------------------------------------------------------------
Crash ==
    /\ up
    /\ Fault
    /\ up' = FALSE /\ downFor' = 0
    /\ jobMap' = {}
    /\ served' = FALSE /\ unserved' = unserved \cup {now}
    /\ UNCHANGED <<now, timers, rows, lastMade>>

\* Faulty: the timers go on from where they were, with an interval added.
RestartLater ==
    /\ ~up
    /\ up' = TRUE
    /\ toMake' = toMake + CreateEvery /\ toScan' = toScan + CheckEvery
    /\ UNCHANGED <<now, downFor, rows, jobMap, faults, history>>

\* Both timers begin with a tick at once.
Restart ==
    /\ ~up
    /\ up' = TRUE
    /\ toMake' = 0 /\ toScan' = 0
    /\ UNCHANGED <<now, downFor, rows, jobMap, faults, history>>

Next ==
    \/ Tick
    \/ MakeRuns \/ ScanTasks
    \/ \E t \in Run : Execute(t)
    \/ Crash \/ Restart

Spec == Init /\ [][Next]_vars

\* Time goes on, ticks are handled, what is due is executed, and the worker is
\* started again.
FairSpec ==
    /\ Spec
    /\ WF_vars(Tick) /\ WF_vars(MakeRuns) /\ WF_vars(ScanTasks) /\ WF_vars(Restart)
    /\ \A t \in Run : WF_vars(Execute(t))

-----------------------------------------------------------------------------
\* Every variable has its type.
TypeOK ==
    /\ now \in Time /\ up \in BOOLEAN /\ downFor \in 0..MaxDown
    /\ toMake \in (-Late)..CreateEvery /\ toScan \in (-Late)..CheckEvery
    /\ status \in [Run -> {"none", "waiting", "done"}] /\ madeAt \in [Run -> Time]
    /\ jobMap \subseteq Run
    /\ faults \in 0..MaxFaults
    /\ served \in BOOLEAN /\ unserved \subseteq Time /\ lastMade \in Time

\* A run that is not made although the worker was there, and had not just failed to
\* make runs, lies between two windows: after the end of one, and less than the
\* interval and the lateness of the ticks after its begin. So the gaps are no longer
\* than what the interval and the lateness are more than the window.
OnlyGapsAreMissed ==
    [][\A t \in Run : t = now /\ t < now' /\ t \notin unserved /\ status[t] = "none" =>
          lastMade + CreateAhead < t /\ t < lastMade + CreateEvery + Late]_vars

\* What is to be hoped: there are no gaps. It does not hold where the interval is
\* that of the configuration, as it is at first, and ticks may be late.
EveryRunIsMade ==
    \A t \in Run : t < now /\ t \notin unserved => status[t] # "none"

\* "ahead to the next scan, and back missedTaskPeriod": a run that waits and
\* that the scheduler lost is run once the worker is there again, or a later one
\* was run in its place.
MissedIsRun ==
    \A t \in Run : status[t] = "waiting" ~>
        \E u \in Run : u >= t /\ status[u] = "done"

\* What a comment says of missed runs: one is not scheduled "if the task having
\* the same target as the missedTask was executed later". It does not hold: the
\* later one is looked at only as long as it has not started, and the scan after
\* that finds the earlier one by itself.
LaterStandsForGood ==
    [][\A t \in jobMap' \ jobMap :
          t < now => ~\E u \in Run : u > t /\ status[u] = "done"]_vars
=============================================================================
