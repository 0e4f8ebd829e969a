--------------------------- MODULE TaskScheduler ---------------------------
(***************************************************************************)
(* The scheduler of one worker process: infra/gocronqueue/server.go.       *)
(*                                                                         *)
(* It has one entry per task in a map (jobMap), and a one-time job of the  *)
(* library gocron per entry, made and removed outside the map's mutex. A   *)
(* task is scheduled by the scan of the database, by messages other        *)
(* processes leave in a list in redis, by the process itself, and by the   *)
(* task's own run: one that finds the scheduler paused, or a task of       *)
(* higher priority due about now, puts the task off, and one that is to    *)
(* run again asks for it. All of these run at once.                        *)
(*                                                                         *)
(* Time goes in ticks of half a second: taskLowPriorityDelay is one,       *)
(* taskHighPriorityLookAhead two.                                          *)
(***************************************************************************)
EXTENDS Integers, Sequences, FiniteSets

CONSTANTS
    Task,           \* the tasks
    Entry,          \* bound: the entries there can be at once, by name
    None,           \* no entry, no time
    Priority,       \* Task.Config.Priority, a number
    Critical,       \* the priority that gives way to none
    Concurrency,    \* Config.Concurrency: how many runs at once
    PauseLimit,     \* Server.pauseLimit
    PauseRecheck,   \* Server.pauseRecheckEvery
    MaxDue,         \* the tasks are due between 1 and MaxDue at first
    MaxTime,        \* bound: the time the model ends
    MaxReruns,      \* bound: how often runs ask to be run again
    MaxMessages,    \* bound: how many messages are sent
    MaxFaults       \* bound: restarts, lost messages, runs without effect

LookAhead == 2
LowPriorityDelay == 1

(***************************************************************************)
(* An entry: its task, RunAt, how far the making of its job is, and where  *)
(* the job is.                                                             *)
(*   making: "replace" - it is in the map, the job it took the place of    *)
(*     (old) has yet to be removed; "new" - its job has yet to be made;    *)
(*     "set" - its job is made, and has yet to be set in the entry;        *)
(*     "stray" - the entry was replaced meanwhile, and its job has yet to  *)
(*     be removed; "made".                                                 *)
(*   job: "none", "waiting", "running" - the task's executor runs;         *)
(*     "again" - the task is to be scheduled at again; "over".             *)
(***************************************************************************)
EntryData == [task : Task, runAt : Nat, old : Entry \cup {None}, soon : BOOLEAN,
              making : {"replace", "new", "set", "stray", "made"},
              job : {"none", "waiting", "running", "again", "over"},
              again : Nat]

ASSUME SchedulerAssumption ==
    /\ None \notin Entry /\ None \notin Nat /\ None \notin EntryData
    /\ Priority \in [Task -> Nat] /\ Critical \in Nat
    /\ Concurrency \in Nat \ {0}
    /\ PauseLimit \in Nat \ {0} /\ PauseRecheck \in Nat \ {0}
    /\ MaxDue \in Nat \ {0} /\ MaxTime \in Nat
    /\ MaxReruns \in Nat /\ MaxMessages \in Nat /\ MaxFaults \in Nat

VARIABLES
    now,            \* the time
    due,            \* when a task is to run next, in the database; None: not
    ctrl,           \* the list of control messages in redis
    jobMap,         \* Server.jobMap: a task's entry
    data,           \* the entries, with their jobs
    scanned,        \* what a scan has read and has yet to schedule
    removing,       \* the entry whose job UnscheduleTask has yet to remove
    pausedUntil,    \* Server.pausedUntil; 0: not paused
    reruns, sent, faults

vars == <<now, due, ctrl, jobMap, data, scanned, removing, pausedUntil, reruns, sent, faults>>

Messages == [kind : {"start", "stop", "old_stop"}]
            \cup [kind : {"schedule"}, task : Task, runAt : Nat]
            \cup [kind : {"unschedule"}, task : Task]

\* Entries nothing refers to any more are free again.
Live(map, d) ==
    LET Replaced == {d[x].old : x \in {y \in Entry : d[y] # None}}
    IN  [e \in Entry |->
            IF /\ d[e] # None /\ d[e].making = "made" /\ d[e].job = "over"
               /\ map[d[e].task] # e /\ e \notin Replaced \cup {removing}
            THEN None ELSE d[e]]

Update(map, d) == jobMap' = map /\ data' = Live(map, d)

-----------------------------------------------------------------------------
(* The functions under the map's mutex, in terms of the map and the        *)
(* entries as they are.                                                    *)

\* scheduleTask and reserveJob: nothing is done for a task in the map for that
\* time; otherwise an entry takes the place of the task's. d is data as the
\* caller leaves it.
ScheduleAt(t, at, d) ==
    LET current == jobMap[t]
        replaced == IF current # None /\ d[current].making = "made" THEN current ELSE None
    IN  IF current # None /\ d[current].runAt = at
        THEN Update(jobMap, d)
        ELSE \E e \in {x \in Entry : Live(jobMap, d)[x] = None} :
                Update([jobMap EXCEPT ![t] = e],
                       [d EXCEPT ![e] = [task |-> t, runAt |-> at, old |-> replaced, soon |-> FALSE,
                                         making |-> "replace", job |-> "none", again |-> 0]])

\* gocron's RemoveJob: a job that runs goes on.
RemoveJob(d, e) ==
    IF e # None /\ d[e] # None /\ d[e].job = "waiting" THEN [d EXCEPT ![e].job = "over"] ELSE d

\* Faulty: the entry of a run that is over stays.
NotReleased(map, t, e) == map

\* releaseJob
Released(map, t, e) == IF map[t] = e THEN [map EXCEPT ![t] = None] ELSE map

Paused == pausedUntil > 0 /\ now < pausedUntil

\* findPriorityJob: the entries of other tasks, of higher priority, due about
\* now. An entry is in the map while its task runs.
PriorityJobs(t) ==
    {jobMap[u] : u \in {v \in Task \ {t} :
        /\ jobMap[v] # None
        /\ Priority[v] > Priority[t]
        /\ data[jobMap[v]].runAt - now \in (1 - LookAhead)..(LookAhead - 1)}}

-----------------------------------------------------------------------------
Init ==
    /\ now = 0
    /\ due \in [Task -> 1..MaxDue]
    /\ ctrl = <<>>
    /\ jobMap = [t \in Task |-> None]
    /\ data = [e \in Entry |-> None]
    /\ scanned = {}
    /\ removing = None
    /\ pausedUntil = 0
    /\ reruns = 0 /\ sent = 0 /\ faults = 0

Fault == faults < MaxFaults /\ faults' = faults + 1

Tick ==
    /\ now < MaxTime
    /\ now' = now + 1
    /\ UNCHANGED <<due, ctrl, jobMap, data, scanned, removing, pausedUntil, reruns, sent, faults>>

-----------------------------------------------------------------------------
(* Scheduling. *)

\* Faulty: the scan does not look back.
ScanTasksAhead ==
    /\ scanned = {}
    /\ scanned' = {<<t, due[t]>> : t \in {u \in Task : due[u] # None /\ due[u] > now}}
    /\ UNCHANGED <<now, due, ctrl, jobMap, data, removing, pausedUntil, reruns, sent, faults>>

\* The scan reads the tasks to run, and then schedules them one by one, by
\* what it has read.
ScanTasks ==
    /\ scanned = {}
    /\ scanned' = {<<t, due[t]>> : t \in {u \in Task : due[u] # None}}
    /\ UNCHANGED <<now, due, ctrl, jobMap, data, removing, pausedUntil, reruns, sent, faults>>

ScanNext ==
    /\ \E s \in scanned :
         /\ scanned' = scanned \ {s}
         /\ ScheduleAt(s[1], s[2], data)
    /\ UNCHANGED <<now, due, ctrl, removing, pausedUntil, reruns, sent, faults>>

\* Faulty: a task that is done is scheduled too.
ScheduleTaskDone(t) ==
    /\ ScheduleAt(t, due[t], data)
    /\ UNCHANGED <<now, due, ctrl, scanned, removing, pausedUntil, reruns, sent, faults>>

\* ScheduleTask, by this process: an API handler's, for a task as it is.
ScheduleTask(t) ==
    /\ due[t] # None
    /\ ScheduleAt(t, due[t], data)
    /\ UNCHANGED <<now, due, ctrl, scanned, removing, pausedUntil, reruns, sent, faults>>

\* The rest of scheduleTask for an entry in the map: the job replaced is
\* removed, and whether to start at once is decided.
RemoveReplaced(e) ==
    /\ data[e] # None /\ data[e].making = "replace"
    /\ Update(jobMap, [RemoveJob(data, data[e].old) EXCEPT
                          ![e].making = "new", ![e].old = None, ![e].soon = data[e].runAt <= now])
    /\ UNCHANGED <<now, due, ctrl, scanned, removing, pausedUntil, reruns, sent, faults>>

\* gocron's NewJob, which refuses a time that has passed since. A scan whose
\* task is refused stops there: the rest of what it read is left.
NewJob(e) ==
    /\ data[e] # None /\ data[e].making = "new"
    /\ \/ /\ data[e].soon \/ data[e].runAt >= now
          /\ Update(jobMap, [data EXCEPT ![e].making = "set", ![e].job = "waiting", ![e].soon = FALSE])
          /\ UNCHANGED scanned
       \/ /\ ~(data[e].soon \/ data[e].runAt >= now)
          /\ Update(Released(jobMap, data[e].task, e),
                    [data EXCEPT ![e].making = "made", ![e].job = "over"])
          /\ scanned' \in {scanned, {}}
    /\ UNCHANGED <<now, due, ctrl, removing, pausedUntil, reruns, sent, faults>>

\* Faulty: the entry is put in the map again.
SetJobPutBack(e) ==
    /\ data[e] # None /\ data[e].making = "set"
    /\ Update([jobMap EXCEPT ![data[e].task] = e], [data EXCEPT ![e].making = "made"])
    /\ UNCHANGED <<now, due, ctrl, scanned, removing, pausedUntil, reruns, sent, faults>>

\* Faulty: whether the entry was replaced is not looked at.
SetJobBlindly(e) ==
    /\ data[e] # None /\ data[e].making = "set"
    /\ Update(jobMap, [data EXCEPT ![e].making = "made"])
    /\ UNCHANGED <<now, due, ctrl, scanned, removing, pausedUntil, reruns, sent, faults>>

\* setJob
SetJob(e) ==
    /\ data[e] # None /\ data[e].making = "set"
    /\ Update(jobMap, [data EXCEPT ![e].making =
                          IF jobMap[data[e].task] = e THEN "made" ELSE "stray"])
    /\ UNCHANGED <<now, due, ctrl, scanned, removing, pausedUntil, reruns, sent, faults>>

RemoveStray(e) ==
    /\ data[e] # None /\ data[e].making = "stray"
    /\ Update(jobMap, [RemoveJob(data, e) EXCEPT ![e].making = "made"])
    /\ UNCHANGED <<now, due, ctrl, scanned, removing, pausedUntil, reruns, sent, faults>>

-----------------------------------------------------------------------------
(* A job's run: executeTask. *)

\* The job fires: put off while paused, or for a task of higher priority, or
\* executed. A pause that has run out ends here.
Fire(e) ==
    /\ data[e] # None /\ data[e].job = "waiting"
    /\ data[e].runAt <= now
    /\ Cardinality({x \in Entry : data[x] # None /\ data[x].job \in {"running", "again"}}) < Concurrency
    /\ LET t == data[e].task
           jobs == IF Priority[t] = Critical THEN {} ELSE PriorityJobs(t)
       IN  \/ /\ Paused
              /\ Update(jobMap, [data EXCEPT ![e].job = "again", ![e].again = now + PauseRecheck])
           \/ /\ ~Paused
              /\ \E p \in jobs :
                   Update(jobMap, [data EXCEPT ![e].job = "again",
                                               ![e].again = data[p].runAt + LowPriorityDelay])
           \/ /\ ~Paused /\ jobs = {}
              /\ Update(jobMap, [data EXCEPT ![e].job = "running"])
    /\ pausedUntil' = IF Paused THEN pausedUntil ELSE 0
    /\ UNCHANGED <<now, due, ctrl, scanned, removing, reruns, sent, faults>>

\* The run of the task ends for good, or had nothing to do: the entry is
\* released, if it is still the task's.
Finish(e) ==
    /\ data[e] # None /\ data[e].job = "running"
    /\ \/ due' = [due EXCEPT ![data[e].task] = None] /\ UNCHANGED faults
       \/ Fault /\ UNCHANGED due
    /\ Update(Released(jobMap, data[e].task, e), [data EXCEPT ![e].job = "over"])
    /\ UNCHANGED <<now, ctrl, scanned, removing, pausedUntil, reruns, sent>>

\* The run leaves the task to be run again, now or later. Two readings of the
\* clock differ: the time is later than the one the run was scheduled for.
FinishToRerun(e) ==
    /\ data[e] # None /\ data[e].job = "running"
    /\ due[data[e].task] # None
    /\ reruns < MaxReruns
    /\ reruns' = reruns + 1
    /\ \E at \in {now, now + 2} :
         /\ at > data[e].runAt
         /\ due' = [due EXCEPT ![data[e].task] = at]
         /\ Update(jobMap, [data EXCEPT ![e].job = "again", ![e].again = at])
    /\ UNCHANGED <<now, ctrl, scanned, removing, pausedUntil, sent, faults>>

\* The task put off, or to be run again, is scheduled, and its job is over.
\* The entry of the run is not released: the new one is in its place.
ScheduleAgain(e) ==
    /\ data[e] # None /\ data[e].job = "again"
    /\ ScheduleAt(data[e].task, data[e].again, [data EXCEPT ![e].job = "over", ![e].again = 0])
    /\ UNCHANGED <<now, due, ctrl, scanned, removing, pausedUntil, reruns, sent, faults>>

-----------------------------------------------------------------------------
(* Control messages. *)

\* Any process leaves a message: that tasks are to be scheduled as they are, or
\* not to run, or that the scheduler is to stop, or go on.
Send ==
    /\ sent < MaxMessages
    /\ sent' = sent + 1
    /\ \E m \in [kind : {"start", "stop"}] \cup [kind : {"unschedule"}, task : Task]
                \cup {[kind |-> "schedule", task |-> t, runAt |-> due[t]] : t \in {u \in Task : due[u] # None}} :
         ctrl' = Append(ctrl, m)
    /\ UNCHANGED <<now, due, jobMap, data, scanned, removing, pausedUntil, reruns, faults>>

\* handleCtrlMessage. A stop sent before this process started is ignored.
HandleCtrlMessage ==
    /\ ctrl # <<>> /\ removing = None
    /\ ctrl' = Tail(ctrl)
    /\ LET m == Head(ctrl)
       IN  \/ /\ m.kind = "start"
              /\ pausedUntil' = 0
              /\ UNCHANGED <<jobMap, data, removing>>
           \/ /\ m.kind = "stop"
              /\ pausedUntil' = now + PauseLimit
              /\ UNCHANGED <<jobMap, data, removing>>
           \/ /\ m.kind = "old_stop"
              /\ UNCHANGED <<jobMap, data, removing, pausedUntil>>
           \/ /\ m.kind = "schedule"
              /\ ScheduleAt(m.task, m.runAt, data)
              /\ UNCHANGED <<removing, pausedUntil>>
           \/ /\ m.kind = "unschedule"
              /\ removing' = LET e == jobMap[m.task]
                             IN  IF e # None /\ data[e].making = "made" /\ data[e].job # "over"
                                 THEN e ELSE None
              /\ Update([jobMap EXCEPT ![m.task] = None], data)
              /\ UNCHANGED pausedUntil
    /\ UNCHANGED <<now, due, scanned, reruns, sent, faults>>

\* The rest of removeJob.
RemoveUnscheduled ==
    /\ removing # None
    /\ Update(jobMap, RemoveJob(data, removing))
    /\ removing' = None
    /\ UNCHANGED <<now, due, ctrl, scanned, pausedUntil, reruns, sent, faults>>

\* Another process reads the message instead: the list is every worker's.
OtherTakesMessage ==
    /\ ctrl # <<>>
    /\ Fault
    /\ ctrl' = Tail(ctrl)
    /\ UNCHANGED <<now, due, jobMap, data, scanned, removing, pausedUntil, reruns, sent>>

\* The process dies, and is started anew: the stops sent so far are old.
Restart ==
    /\ Fault
    /\ jobMap' = [t \in Task |-> None]
    /\ data' = [e \in Entry |-> None]
    /\ scanned' = {}
    /\ removing' = None
    /\ pausedUntil' = 0
    /\ ctrl' = [i \in DOMAIN ctrl |-> IF ctrl[i].kind = "stop" THEN [kind |-> "old_stop"] ELSE ctrl[i]]
    /\ UNCHANGED <<now, due, reruns, sent>>

-----------------------------------------------------------------------------
EntryStep(e) ==
    \/ RemoveReplaced(e) \/ NewJob(e) \/ SetJob(e) \/ RemoveStray(e)
    \/ Fire(e) \/ Finish(e) \/ FinishToRerun(e) \/ ScheduleAgain(e)

Next ==
    \/ Tick
    \/ ScanTasks \/ ScanNext
    \/ \E t \in Task : ScheduleTask(t)
    \/ \E e \in Entry : EntryStep(e)
    \/ Send \/ HandleCtrlMessage \/ RemoveUnscheduled
    \/ OtherTakesMessage \/ Restart

Spec == Init /\ [][Next]_vars

\* Time goes on, the process's goroutines run, and so does a job once it is
\* due and there is room for it. A scan comes every so often.
Fairness ==
    /\ WF_vars(Tick)
    /\ WF_vars(ScanTasks) /\ WF_vars(ScanNext)
    /\ WF_vars(HandleCtrlMessage) /\ WF_vars(RemoveUnscheduled)
    /\ \A e \in Entry : /\ WF_vars(RemoveReplaced(e)) /\ WF_vars(NewJob(e))
                        /\ WF_vars(SetJob(e)) /\ WF_vars(RemoveStray(e))
                        /\ SF_vars(Fire(e)) /\ WF_vars(Finish(e)) /\ WF_vars(ScheduleAgain(e))

FairSpec == Spec /\ Fairness

-----------------------------------------------------------------------------
(* Properties. *)

TypeOK ==
    /\ now \in 0..MaxTime
    /\ due \in [Task -> Nat \cup {None}]
    /\ ctrl \in Seq(Messages)
    /\ jobMap \in [Task -> Entry \cup {None}]
    /\ data \in [Entry -> EntryData \cup {None}]
    /\ scanned \subseteq Task \X Nat
    /\ removing \in Entry \cup {None}
    /\ pausedUntil \in Nat
    /\ reruns \in 0..MaxReruns /\ sent \in 0..MaxMessages /\ faults \in 0..MaxFaults

\* A task in the map has a job that is being made, waits or runs. Otherwise
\* the map says that the task is scheduled, and nothing will run it: the scan,
\* or a message, for that time again is taken for done already.
NoOrphanEntry ==
    \A t \in Task : jobMap[t] # None =>
        data[jobMap[t]].making # "made" \/ data[jobMap[t]].job # "over"

\* A job that waits to run is its task's in the map, but for the moment in
\* which it is being made or removed: what was replaced or unscheduled does
\* not run later on its own.
NoStrayJob ==
    \A e \in Entry : data[e] # None /\ data[e].job = "waiting" /\ data[e].making = "made" =>
        \/ jobMap[data[e].task] = e
        \/ removing = e
        \/ \E x \in Entry : data[x] # None /\ data[x].old = e

\* What is still to come when the model's time ends.
AfterTheEnd(t) ==
    \/ due[t] > MaxTime
    \/ pausedUntil > MaxTime
    \/ jobMap[t] # None /\ data[jobMap[t]].runAt > MaxTime

\* Every task due is run in the end, through pauses, restarts and lost or late
\* messages: a pause ends on its own, and the scan finds what was dropped.
EventuallyRun == \A t \in Task : <>[](due[t] = None \/ AfterTheEnd(t))
=============================================================================
