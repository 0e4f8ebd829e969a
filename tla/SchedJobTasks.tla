--------------------------- MODULE SchedJobTasks ---------------------------
(***************************************************************************)
(* The runs of one scheduled job, as rows of the database: made ahead of   *)
(* their time from the job's schedule, and taken off and made anew when    *)
(* the job is turned off, on, given another schedule or deleted            *)
(* (tasks/queue/queueimpl/queue_api.go, queue_schedule_job_tasks.go and    *)
(* the use cases of usecase/settings/schedjobuc).                          *)
(*                                                                         *)
(* Those who change or read the job lock its row (FOR UPDATE) for their    *)
(* transaction; taking runs off skips rows that others have locked (SKIP   *)
(* LOCKED) - an execution, for as long as its work takes, and a cancel. An *)
(* execution reads the job without a lock. There is one live row for a     *)
(* time, by the table's unique index, so a row is known by its time here;  *)
(* a removed one (deleted_at) is None.                                     *)
(***************************************************************************)
EXTENDS Integers

CONSTANTS
    Schedule,    \* the schedules the job may be given
    RunsOf,      \* a schedule's times
    MaxTime,     \* bound: the last time
    Ahead,       \* how far ahead runs are made: config's TaskCreateInterval
    Editor,      \* calls that change the job, each made once
    Worker,      \* the workers, which make the runs of active jobs
    None,        \* no row, nobody
    MaxFaults    \* bound: transactions that fail

Time == 0..MaxTime

\* started: whether an execution of it was ever committed (StartedAt).
Row == [status : {"not_started", "failed", "done", "canceled"}, started : BOOLEAN]

ASSUME JobAssumption ==
    /\ MaxTime \in Nat /\ Ahead \in Nat /\ MaxFaults \in Nat
    /\ Schedule # {} /\ RunsOf \in [Schedule -> SUBSET Time]
    /\ Editor \cap Worker = {}
    /\ None \notin Editor \cup Worker \cup {"run", "cancel"} \cup Row
    /\ Editor \cap {"run", "cancel"} = {}

VARIABLES
    now,        \* the time
    job,        \* the job, as committed: on, and its schedule
    task,       \* the live row of each time, as committed, or None
    rowLock,    \* who has locked a time's row: an editor, "run", "cancel", None
    holder,     \* who has locked the job's row, or None
    step,       \* where the holder is in its transaction
    draft,      \* the job, as the holder has it
    takeOff,    \* whether the holder takes the coming runs off
    removed,    \* the rows the holder has removed,
    stopped,    \* canceled,
    made,       \* and made,
    until,      \* as far as this time; -1: not at all
    called,     \* the editors whose call was made
    faults,
    \* History, for the properties:
    madeUntil,  \* until of the last that committed
    skipped,    \* the times whose rows were skipped, locked by others
    userStopped,\* the times whose runs a user canceled
    begun       \* the times whose runs were under way once

txVars == <<holder, step, draft, takeOff, removed, stopped, made, until>>

history == <<madeUntil, skipped, userStopped, begun>>

vars == <<now, job, task, rowLock, txVars, called, faults, history>>

NewRow == [status |-> "not_started", started |-> FALSE]

CanCancel(t) == task[t].status = "not_started"

\* Rows others have locked are skipped.
Unlocked(t) == task[t] # None /\ rowLock[t] = None

-----------------------------------------------------------------------------
\* The job was created just now, and with it the runs as far as Ahead.
Init ==
    /\ now = 0
    /\ job \in [on : BOOLEAN, sched : Schedule]
    /\ task = [t \in Time |-> IF job.on /\ t \in RunsOf[job.sched] /\ t <= Ahead THEN NewRow ELSE None]
    /\ rowLock = [t \in Time |-> None]
    /\ holder = None /\ step = "none" /\ draft = job /\ takeOff = FALSE
    /\ removed = {} /\ stopped = {} /\ made = {} /\ until = -1
    /\ called = {} /\ faults = 0
    /\ madeUntil = (IF job.on THEN Ahead ELSE -1) /\ skipped = {} /\ userStopped = {} /\ begun = {}

Fault == faults < MaxFaults /\ faults' = faults + 1

Tick ==
    /\ now < MaxTime
    /\ now' = now + 1
    /\ UNCHANGED <<job, task, rowLock, txVars, called, faults, history>>

-----------------------------------------------------------------------------
(* A transaction that changes the job. *)

\* The job's row is locked, and the change saved: another status, or the same
\* (UpdateSchedJobStatus), or its deletion (DeleteSchedJob), which is turning it
\* off for what it does to its runs - these always take off the coming runs; or
\* another schedule, or the same (UpdateSchedJob), which does if it is another.
LockJob(e) ==
    /\ holder = None /\ e \notin called
    /\ holder' = e /\ called' = called \cup {e}
    /\ \/ \E on \in BOOLEAN : draft' = [job EXCEPT !.on = on] /\ takeOff' = TRUE
       \/ \E s \in Schedule : draft' = [job EXCEPT !.sched = s] /\ takeOff' = (s # job.sched)
    /\ step' = "take_off"
    /\ UNCHANGED <<now, job, task, rowLock, removed, stopped, made, until, faults, history>>

\* Faulty: a run that never started is canceled, and kept.
UnscheduledKept(rows) ==
    [removed |-> {}, stopped |-> {t \in rows : CanCancel(t)}]

\* Faulty: a run that started and goes on later is removed.
UnscheduledAll(rows) ==
    [removed |-> {t \in rows : CanCancel(t)}, stopped |-> {}]

\* unscheduleTasks: what never started is removed, and makes room for the same
\* run made anew; what did is canceled, and kept.
Unscheduled(rows) ==
    [removed |-> {t \in rows : CanCancel(t) /\ ~task[t].started},
     stopped |-> {t \in rows : CanCancel(t) /\ task[t].started}]

\* Faulty: the coming runs are taken off only with the job on.
TakenOffOfActive ==
    IF takeOff /\ draft.on THEN {t \in Time : Unlocked(t) /\ task[t].status # "done"} ELSE {}

\* loadCurrentTasksForUnscheduling: whatever is not done, of the last ten days.
TakenOff == IF takeOff THEN {t \in Time : Unlocked(t) /\ task[t].status # "done"} ELSE {}

\* The rows are locked until the end of the transaction.
TakeOff(e) ==
    /\ holder = e /\ step = "take_off"
    /\ removed' = Unscheduled(TakenOff).removed
    /\ stopped' = Unscheduled(TakenOff).stopped
    /\ rowLock' = [t \in Time |-> IF t \in TakenOff THEN e ELSE rowLock[t]]
    /\ skipped' = skipped \cup {t \in Time : takeOff /\ rowLock[t] # None}
    /\ step' = "make"
    /\ UNCHANGED <<now, job, task, holder, draft, takeOff, made, until, called, faults,
                   madeUntil, userStopped, begun>>

\* The runs the schedule has from now on, as far as Ahead; a row that is there
\* already stands (ON CONFLICT DO NOTHING).
RunsToMake(sched) ==
    {t \in RunsOf[sched] : t \in now..(now + Ahead) /\ (task[t] = None \/ t \in removed)}

\* createTasksForJobs
Make(p) ==
    /\ holder = p /\ step = "make"
    /\ made' = IF draft.on THEN RunsToMake(draft.sched) ELSE {}
    /\ until' = IF draft.on THEN now + Ahead ELSE -1
    /\ step' = "commit"
    /\ UNCHANGED <<now, job, task, rowLock, holder, draft, takeOff, removed, stopped,
                   called, faults, history>>

\* A worker's tick (doCreateTasksForJobs): the job is read if it is active, and
\* locked; its runs are made as by one who changes it.
LockToMake(w) ==
    /\ holder = None /\ job.on
    /\ holder' = w
    /\ draft' = job
    /\ step' = "make"
    /\ UNCHANGED <<now, job, task, rowLock, takeOff, removed, stopped, made, until,
                   called, faults, history>>

EndTx ==
    /\ holder' = None /\ step' = "none" /\ takeOff' = FALSE
    /\ removed' = {} /\ stopped' = {} /\ made' = {} /\ until' = -1
    /\ rowLock' = [t \in Time |-> IF rowLock[t] = holder THEN None ELSE rowLock[t]]

Commit ==
    /\ step = "commit"
    /\ job' = draft
    /\ task' = [t \in Time |-> IF t \in made THEN NewRow
                               ELSE IF t \in removed THEN None
                               ELSE IF t \in stopped THEN [task[t] EXCEPT !.status = "canceled"]
                               ELSE task[t]]
    /\ madeUntil' = until
    /\ skipped' = skipped \ made /\ userStopped' = userStopped \ made
    /\ EndTx
    /\ UNCHANGED <<now, draft, called, faults, begun>>

\* A step of it fails, or its process dies: nothing of it stays.
Rollback ==
    /\ holder # None
    /\ Fault
    /\ draft' = job
    /\ EndTx
    /\ UNCHANGED <<now, job, task, called, history>>

-----------------------------------------------------------------------------
(* Executions and cancels, as far as the rows are concerned; module            *)
(* TaskExecution has them in full.                                             *)

\* A run whose time has come is locked and executed, or canceled if its job is
\* off: loadTask reads both rows in one query.
Execute(t) ==
    /\ now >= t /\ Unlocked(t)
    /\ task[t].status \in {"not_started", "failed"}
    /\ \/ /\ job.on
          /\ rowLock' = [rowLock EXCEPT ![t] = "run"]
          /\ UNCHANGED task
       \/ /\ ~job.on
          /\ task' = [task EXCEPT ![t].status = "canceled"]
          /\ UNCHANGED rowLock
    /\ UNCHANGED <<now, job, txVars, called, faults, history>>

\* Faulty: the status an execution sets in memory is what it saves.
SettleInProgress(t) ==
    /\ rowLock[t] = "run"
    /\ task' = [task EXCEPT ![t] = [status |-> "in_progress", started |-> TRUE]]
    /\ rowLock' = [rowLock EXCEPT ![t] = None]
    /\ begun' = begun \cup {t}
    /\ UNCHANGED <<now, job, txVars, called, faults, madeUntil, skipped, userStopped>>

\* It is done, has failed, is canceled, or goes on later (Continue).
Settle(t) ==
    /\ rowLock[t] = "run"
    /\ \E s \in {"not_started", "failed", "done", "canceled"} :
         task' = [task EXCEPT ![t] = [status |-> s, started |-> TRUE]]
    /\ rowLock' = [rowLock EXCEPT ![t] = None]
    /\ begun' = begun \cup {t}
    /\ UNCHANGED <<now, job, txVars, called, faults, madeUntil, skipped, userStopped>>

\* Its transaction fails: the row says it never started.
GiveUp(t) ==
    /\ rowLock[t] = "run"
    /\ Fault
    /\ rowLock' = [rowLock EXCEPT ![t] = None]
    /\ UNCHANGED <<now, job, task, txVars, called, history>>

\* A user cancels a run that waits (CancelTask).
Cancel(t) ==
    /\ Unlocked(t) /\ CanCancel(t)
    /\ rowLock' = [rowLock EXCEPT ![t] = "cancel"]
    /\ UNCHANGED <<now, job, task, txVars, called, faults, history>>

CommitCancel(t) ==
    /\ rowLock[t] = "cancel"
    /\ task' = [task EXCEPT ![t].status = "canceled"]
    /\ rowLock' = [rowLock EXCEPT ![t] = None]
    /\ userStopped' = userStopped \cup {t}
    /\ UNCHANGED <<now, job, txVars, called, faults, madeUntil, skipped, begun>>

RollbackCancel(t) ==
    /\ rowLock[t] = "cancel"
    /\ Fault
    /\ rowLock' = [rowLock EXCEPT ![t] = None]
    /\ UNCHANGED <<now, job, task, txVars, called, history>>

-----------------------------------------------------------------------------
Next ==
    \/ Tick
    \/ \E e \in Editor : LockJob(e) \/ TakeOff(e)
    \/ \E p \in Editor \cup Worker : Make(p)
    \/ \E w \in Worker : LockToMake(w)
    \/ Commit \/ Rollback
    \/ \E t \in Time : Execute(t) \/ Settle(t) \/ GiveUp(t)
    \/ \E t \in Time : Cancel(t) \/ CommitCancel(t) \/ RollbackCancel(t)

Spec == Init /\ [][Next]_vars

-----------------------------------------------------------------------------
\* Every variable has its type.
TypeOK ==
    /\ now \in Time
    /\ job \in [on : BOOLEAN, sched : Schedule] /\ draft \in [on : BOOLEAN, sched : Schedule]
    /\ task \in [Time -> Row \cup {None}]
    /\ rowLock \in [Time -> Editor \cup {"run", "cancel", None}]
    /\ holder \in Editor \cup Worker \cup {None}
    /\ step \in {"none", "take_off", "make", "commit"} /\ takeOff \in BOOLEAN
    /\ removed \subseteq Time /\ stopped \subseteq Time /\ made \subseteq Time
    /\ until \in -1..(MaxTime + Ahead) /\ madeUntil \in -1..(MaxTime + Ahead)
    /\ called \subseteq Editor /\ faults \in 0..MaxFaults
    /\ skipped \subseteq Time /\ userStopped \subseteq Time /\ begun \subseteq Time

\* A run still to come, and not one that was being canceled when the job was
\* last changed, is one of the job as it is now: the job is on, and has it in
\* its schedule. It is what taking the coming runs off is for.
WaitingFollowsSchedule ==
    \A t \in Time :
        (t > now /\ t \notin skipped /\ task[t] # None /\ task[t].status = "not_started")
            => job.on /\ t \in RunsOf[job.sched]

\* With the job on, each of its runs to come, as far as they were made, is
\* there and waits, unless a user canceled it: a run taken off does not stand
\* in the way of the same one made anew.
ComingRunsAreThere ==
    job.on =>
        \A t \in RunsOf[job.sched] :
            (now < t /\ t <= madeUntil)
                => /\ task[t] # None
                   /\ task[t].status = "canceled" => t \in userStopped

\* A run that was under way once is kept, as a record of what was done: it is
\* neither removed nor made anew, however the job is changed.
BegunIsKept ==
    \A t \in begun : task[t] # None /\ task[t].started
=============================================================================
