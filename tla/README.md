# HivePaaS in TLA+

HivePaaS is a self-hosted platform on docker swarm: a Go backend
(`hivepaas_app`, as app, worker or both), agents on the nodes, PostgreSQL,
redis, and a dashboard in TypeScript. This directory models the parts of it
where many processes act on shared state with no one in charge: the **task
queue**, which does all work that takes longer than a request; the **settings
on probation**, which a change that locks everybody out must not survive; the
**system update**, which replaces the processes that run it; and the
**dashboard's session**, shared by the tabs of a browser and the server.

## The system's parts

| part | where | state | operations | what is hard | what makes it correct |
|---|---|---|---|---|---|
| Task execution | `tasks/queue/queueimpl/queue_execution.go` | a row of `tasks`; an entry and a list per task in redis; the data an execution shares with its listener | load and lock, mark in progress, run, settle, commit; listen for a cancel | many workers, a lock held as long as the work, crashes, a goroutine that outlives its execution | one execution at a time, retries counted, a task ends, a cancel is obeyed |
| Task cancel | `service/taskservice/.../cancel_task.go` | the same row and list | cancel a waiting task, or tell the one under way | races with the start and the end of executions | the answer given stays true |
| Scheduler | `infra/gocronqueue` | a map of entries, gocron's jobs, the pause, the control list in redis | scan, schedule, unschedule, fire, put off, pause, resume | steps outside the mutex, jobs that run before they are registered, messages any process may take | every task due is run; the map and the jobs agree |
| Scheduled jobs' tasks | `queue_schedule_job_tasks.go`, `queue_api.go`, `queue_schedule_tasks.go` | rows made ahead from a schedule | make, take off, remake, look for | transactions against workers; windows against ticks | the rows are what the job as it is now says; no run falls between two windows |
| Periodic jobs | `queue_periodic.go`, `periodic_settings_repo.go`, `lock_redis.go` | a sorted set of due times and locks with an expiry, in redis; a cache per worker | read due jobs, move them on, run under the lock, reload | every worker reads the same set | a job does not run twice at once, and is not starved |
| Settings on probation | `service/settingsprobationservice`, `service/settingsrevertservice`, `tasks/tasksettingsrevert`, three update use cases | a setting, the revert tasks of its trials, timers, what the cluster runs | change, confirm, revert now, revert at the deadline, reconcile | a request, the worker and a timer at once, over row locks; a cluster outside every transaction | a trial is settled once; what nobody stood by does not stay |
| System update | `service/sysupdateservice`, `updater` | the update's row, a dump, the database's volumes, swarm services | stop, back up, move and migrate the database, undo, replace, bring back | each step may fail, the process may be killed, its own database moves under it | the app comes back, on a database that holds what it wrote; a task that says done is |
| Dashboard session | `web/src/infrastructure/api`, `web/src/application/authentication`, `usecase/sessionuc` | the token in local storage, the refresh cookie, each tab's refresh queue; sessions in redis | send, refresh, retry, leave; renew, look up, end | tabs that refresh at once, answers in any order or lost, steps of the server that fail | one refresh per tab, a token of a session that lives, every request ends |
| Job sequences, workflows, triggers | `tasks/taskworkflow`, `service/schedjobexecservice`, `service/schedjobtriggerservice` | steps kept in a task's args | one step per execution, `Continue` | crashes between steps | no step skipped |
| everything else | see `PROJECT.json` | | docker, git, ACME, mail; handlers; views and forms | mostly I/O | |

How they meet: a use case, in its transaction, writes rows of `tasks`; the
scheduler of a worker finds them by its scan or by a message, keeps an entry
per task, and fires; the execution locks the row and works; what is to run
again goes back to the scheduler. Cancels and the progress of executions go
through redis, since a locked row cannot be written by others. The revert of a
setting and the system update are such tasks, but each has a second process at
it - the main app's timers, the updater - since the worker may be what is down.

## Modules

| module | what it is |
|---|---|
| `TaskLifecycle` | the abstract specification of one task: taken, let go, settled, canceled |
| `TaskExecution` | one task, its executions by several workers, their listeners, the calls that cancel it; implements `TaskLifecycle` |
| `TaskScheduler` | the scheduler of one process, over a few tasks and half-second ticks |
| `SchedJobTasks` | the rows of one scheduled job: made ahead, taken off, made anew, executed |
| `TaskWindows` | when a worker makes a job's runs and looks for them: ticks against windows |
| `PeriodicJobs` | the jobs on intervals, run by whichever worker finds them due |
| `SettingsProbation` | one kind of settings, its trials, the requests, the worker and the timers |
| `SystemUpdate` | one cluster, its updater, several updates |
| `DashboardSession` | one browser's tabs and the server's sessions |
| `..._proofs` | the theorems about `TaskExecution`, `TaskScheduler`, `SchedJobTasks`, `TaskWindows`, `PeriodicJobs`, `SettingsProbation`, `SystemUpdate`, `DashboardSession` |
| `MC...` | the instances for TLC: the values of the function constants, the symmetries, the faults looked at |

The components are models of their own, each with the others reduced to what
they may do to it: in `TaskExecution` any worker may fire at any time; in
`TaskScheduler` a run ends, asks to be run again, or has no effect; in
`SchedJobTasks` an execution is a row's lock and its result; in
`SettingsProbation` the worker's queue is the claim of a due row, the commit
and the retry. `TaskLifecycle` is what the rest of the system may rely on.

A definition whose comment starts with "Faulty:" is no part of a specification:
it is what its neighbour would be with a plausible bug, kept to see that the
property named in `PROJECT.json` ("mutants") does catch it.

### TaskExecution

| in the model | in the code |
|---|---|
| `row` | the task's row as committed: `Status`, `Config.Retry` and `MaxRetry`, what is left of the steps in its args, its failed `Runs`, `Config.ControlDisabled` |
| `lock` | PostgreSQL's row lock (`FOR UPDATE SKIP LOCKED`, `queue_execution.go:201`), held from loading to the end of the transaction |
| `info`, `ctrl` | the entry that says "in progress", and the list of cancel commands, in redis |
| `pc`, `staged`, `data`, `listener` | a run, the row it has in memory, its `taskData`, its goroutine `taskControlCheck` |
| `call` | a call of `CancelTask` and its answer |
| `Load`, `LoadInactive` | `loadTask`: a failed task is on its next retry, or left alone; a task whose job is off is canceled |
| `SetInfo`, `Finish`, `DelInfo`, `Commit` | the rest of `executeTask`, in its order; `SetInfoFails`, `Rollback`, `TimeOut`, `Crash` where it fails |
| `ListenerCheck/Pop/TimeOut/Leave` | the loop of `taskControlCheck`: its condition, BLPOP, the list deleted on the way out |
| `CancelTask`, `CommitCancel`, `CancelInProgressTask`, `PushCancel` | `cancel_task.go` and its caller `taskuc/cancel.go`: lock the row, or look in redis and push a command, which stays pushed if the record of the cancel cannot be written |

A row's status is never `in_progress` here, as it never is in the database: an
execution sets it in memory only, and settles the task before it saves it. What
an executor does is an *outcome*: no error, `Continue`, an error, an error that
is not to be retried. A panic is an error, as the code has it. No executor sets
`TaskNonCancelable`, so a command taken always cancels.

### TaskScheduler

| in the model | in the code |
|---|---|
| `jobMap`, `data` | `Server.jobMap` and its entries; `making` is how far `scheduleTask` has come with an entry, `job` where gocron's job is |
| `scanned` | the rows `ScanTasks` has read and has yet to schedule |
| `ctrl` | the list of control messages, which every process pops |
| `pausedUntil` | the pause, which ends by itself |
| `ScheduleAt` | `reserveJob`: nothing for a task that is in the map for that time, else a new entry in place of the old |
| `RemoveReplaced`, `NewJob`, `SetJob`, `RemoveStray` | the steps of `scheduleTask` outside the mutex; a scan whose task is refused by gocron leaves the rest of what it read |
| `Live` | no code: entries nothing refers to are free to be used again |
| `Fire`, `Finish`, `FinishToRerun`, `ScheduleAgain` | `executeTask`: put off while paused or for a task of higher priority, executed, released or scheduled again |
| `HandleCtrlMessage`, `RemoveUnscheduled` | `handleCtrlMessage`, `removeJob` |
| `OtherTakesMessage`, `Restart` | what happens around it |

gocron is external: a one-time job waits for its time, runs once, refuses a time
that is past, and `RemoveJob` does not stop one that runs. It was modelled from
the way the code uses it. Ticks are half a second, since that is the unit in
which the code's two constants (a delay of half a second, a look-ahead of a
second) differ.

### SchedJobTasks

| in the model | in the code |
|---|---|
| `job`, `holder`, `step`, `draft` | the job's row as committed, who has it locked, and that transaction's own view of it |
| `task`, `rowLock` | the live row of each time (the unique index on job and time), and its lock |
| `LockJob`, `TakeOff`, `Make`, `Commit` | the transaction of a use case that changes the job: `UpdateSchedJobStatus`, `UpdateSchedJob`, `DeleteSchedJob`, then `unscheduleTasks` and `createTasksForJobs` |
| `LockToMake` | a worker's tick, `doCreateTasksForJobs` |
| `Execute`, `Settle`, `GiveUp`, `Cancel`, ... | executions and users' cancels, reduced to what they do to rows |
| `madeUntil`, `skipped`, `userStopped`, `begun` | history, read by the properties only; a run whose transaction fails (`GiveUp`) has left no trace, and does not count as begun |

A schedule is the set of its times. A row removed (`deleted_at`) is none. A
deletion is turning the job off, which is what it is for the job's rows. A change
is made whatever `UpdateVer` its caller has read: the code refuses some of those,
so it has fewer behaviours.

### TaskWindows

| in the model | in the code |
|---|---|
| `toMake`, `toScan` | the two tickers of `Server.Start` (`server.go:126-156`), whose intervals are a *setting* (`TaskCreateInterval`, `TaskCheckInterval`) |
| `CreateAhead`, `CheckAhead` | the windows, which are by the *configuration* (`Tasks.Queue`) |
| `status`, `madeAt`, `jobMap` | the rows, when they were made, what the worker's scheduler has |
| `RunsInRange`, `MakeRuns` | `calcNextRunsInRange`, `doCreateTasksForJobs`: a failed transaction is not tried again before the next tick; the error of `ScheduleTask` is ignored |
| `LookBack`, `Found`, `StandIn`, `ScanTasks` | `scanWindow`, `findSchedulingTasks`, `shouldScheduleMissedTask` |
| `Crash`, `Restart` | a new process begins with both ticks at once |
| `served`, `unserved`, `lastMade` | history: the times at which no worker was there, or its last making had failed; when the last making was |

The worker is down for `MaxDown` at most, which is less than `MissedPeriod`
(`missedTaskPeriod`): the code gives a run up after that, by intent. As shipped,
windows and intervals are the same: ten minutes to make, ten to look for
(`config/tasks.go:13-14`), and so they are in `TaskWindows.cfg`. A window then
ends when the next tick is due, and one that is handled late leaves a gap.

### PeriodicJobs

| in the model | in the code |
|---|---|
| `db`, `edit` | the jobs' intervals in the database, and a change whose event is out but which is not committed |
| `Others` | whether there are other jobs on beside these: a worker whose cache has no job at all does nothing in its rounds, and does not even take out what is off (`DueTo`, `queue_periodic.go:233`) |
| `schedule`, `lock` | the sorted set and the locks in redis, as times from now |
| `cache`, `age`, `event` | a worker's `periodicCache`, since when it has it, whether `periodicReloadChan` has something |
| `at`, `read`, `taken`, `plan` | where a worker's round is, and what it has in memory from the steps before |
| `waiting`, `run` | its goroutines, without and with one of its `periodicRunSlots` |
| `ReadJobs`, `PutSlots`, `GetDueJobs`, `MoveJobs` | `doPeriodicJob`: reload if need be, read what is due, move it on and start it; a job that is off is taken out, which may fail unnoticed (`ToRemove`) |
| `StartRun`, `EndRun`, `ReleaseLock` | `startPeriodicRun` and `doPeriodicTask`, with the lock of `lock_redis.go` |

All times are relative, so nothing bounds the time. `Tick` waits for runs that
are at the end of their time: a run's context has a timeout, and `Overrun` is
how much longer it may keep the lock after that.

### SettingsProbation

| in the model | in the code |
|---|---|
| `kind` | routing of the app, the service's settings, traefik's command line: they lock different rows and reach the cluster at different moments |
| `setting` | the setting's row: `UpdateVer`, and its configuration as a number |
| `tasks` | the rows of the settings-revert tasks: status, retry, the version on trial, the snapshot, where the trial's clock is |
| `running`, `before` | what the cluster runs, and what swarm would roll back to |
| `tx` | the transactions of the requests, the worker and the timer: what each has read, where it is, the row locks it holds |
| `up`, `timers` | the main app and its fallback timers (`armFallback`) |
| `BeginUpdate`, `LockForUpdate`, `WriteUpdate`, `CommitUpdate`, `Schedule` | the three update use cases with `Arm`: lock, take the pending trial's snapshot over, write and apply, commit, arm the timer. Traefik's locks the app's row, reads what the cluster runs, and only then locks the setting's (`config_options_update.go:173-189`, `221`); the service's change is applied after the commit, under no lock |
| `BeginAnswer`, `LockSetting`, `CommitConfirm` | `Confirm` and the first half of `RevertNow`: read the trial without a lock, lock the setting, `EnsureStillLive`, cancel the task |
| `ClaimByWorker`, `TimerFires`, `LockForRevert`, `PushRevert`, `CommitRevert`, `SkipRevert`, `RevertFails` | the queue's and the timer's way to `Revert`, and the revert itself |
| `Deadlock`, `Abort`, `Crash`, `Restart`, `SwarmRollsBack`, `TimePasses` | the database's deadlock detection, a transaction or the main app that ends, `Reconcile` at the start, docker's own rollback, settle delay and window |
| `LooksLive` | `EnsureStillLive`: nothing for routing; for the service, only the trusted IPs, which may be right whatever else is running |
| `vouched`, `stood`, `astray` | history: the configuration last stood by, and all those stood by; and those the cluster is left at in the ways named below |

`astray` gets a configuration at six places, each an action: a transaction cut off
after it has told the cluster (`CutOff`), and what swarm takes such a one back to
(`SwarmRollsBack`); a revert docker refuses the worker (`RevertFails`); a command
traefik's update has read and a revert has replaced since (`LockForUpdate`); a
change of the service applied when it is no longer in force (`TooLate`); and what
else than it the cluster is still running when such a change is confirmed or
reverted (`Beside`). The two properties excuse these configurations, and no others.

Left out: `OnConfirmed`, the audit log, and the unscheduling of a task that was
canceled, which finds its row canceled anyway. `Crash` is the main app's: the
worker is a process of its own, and the transaction of a revert goes on.

### SystemUpdate

| in the model | in the code |
|---|---|
| `volume`, `db`, `postgres`, `record` | what the tables on each volume hold, the volume the service is on and the major of its image, the volume `db-volume.env` names |
| `dump` | the file of the last backup |
| `replicas`, `image`, `up` | the app's and the worker's service, and the containers that still run; the release each is at, and the updater's own |
| `on`, `updater` | the updater's service, its process and what it has in memory |
| `args`, `asked`, `fresh` | the requests, the transaction that stores one, the hour in which another is refused |
| `RequestUpdate`, `CommitRequest` | `app_update.go`, `app_updater.go`: the updater is moved to the release and turned on before the task is stored; an older postgres major is no reason to refuse |
| `PlanMajor`, `MoveDb`, `RecordVolume` | `planDbMajorUpgrade` answers any other major with an upgrade; `updateServiceImage` skips an image that is not newer; the restore, the record and the way back go on as planned |
| `Migrations`, `UpdateImage` | the migrations are those of the updater's own files, of whichever release it was last moved to; the app and the worker are not moved to a release that is older than theirs |
| `LoadTask` ... `Shutdown` | `executor.go`, `SysUpdate`, `onBefore/AfterSystemUpdate`, the updater's `Start`, one action per step, each with the ways it fails |
| `Deadline`, `Crash`, `Deploy`, `ContainersStop`, `Write` | the task's hour, the process killed, the stack deployed again, containers in their grace period, and what they still write |
| `kept`, `faults`, `hurt` | history: the last thing written by a service nobody had told to stop; how many faults there were, and of which kinds |
| `hurt` with "older" | an update to a release of an older postgres major (`PlanMajor`), which is no fault |

Redis, traefik, the system apps and the agent are one step. Releases are numbered
as they were cut, each names one postgres major, and all their images are in one
repository, which is what lets the code tell newer from older. The setting that
blocks major upgrades is left out: with it there are fewer updates. `HourPasses`
comes only where it matters. `OneFailedStep` is the condition of what is said of
the data: one step has failed at most, every update took its dump, none was
killed, late, or to an older postgres major.

### DashboardSession

| in the model | in the code |
|---|---|
| `token`, `cookie`, `page` | local storage and the refresh cookie, which the tabs share, and where each tab is |
| `isOpen`, `req` | `RefreshQueue` of a tab, and each request: in the queue, running the refresh, sent, answered |
| `calls` | the refresh requests under way, with what the server has done for each |
| `alive`, `last` | the sessions in redis; a session, its token and its cookie are one number |
| `expired`, `seen` | which access tokens have expired by the server's clock, and by the browser's |
| `Send`, `ReceiveAnswer/Invalid/Expired`, `WaitForToken` | the request and response interceptors (`auth.interceptors.ts`) |
| `RefreshOk/Over/Transient`, `RetryRefresh`, `Leave` | what the tab that refreshes does with the answer, its retries, the way to the sign-in page |
| `Serve` | `GetCurrentUserByJWT`, which takes an error of redis for an invalid token |
| `Verify`, `CreateSession`, `RefuseSession`, `InvalidateOld`, `HandleFails` | the steps of the renewal on the server |
| `LoseAnswer`, `Reload`, `Outage`, `EndSessions`, `SignIn`, `TokenExpires` | what happens around it |

An answer arrives and is handled in one step, since a tab has one thread; a
redirect to the sign-in page reloads it at once.

## What the runs check

`PROJECT.json` names each run's properties. In short:

| run | instance | what it shows |
|---|---|---|
| `task_execution` | 2 workers, 2 cancels, 1 retry, 1 `Continue`, 1 fault; 0.6 million states | runs exclude each other; a task under way can be reached through redis; retries and failures agree, over crashes and rollbacks; a cancel reported stays; done and canceled are final; each step is one of `TaskLifecycle`; a task ends for good, and so does a listener that stays behind its run |
| `scheduler` | 1 task, 2 entries, 2 runs at once, 1 message, 1 rerun, 1 fault | no entry in the map whose job is over; no job waits that the map has given up; a task due is run, through a pause, a restart, a lost message |
| `scheduler_priority` | 2 priorities, 1 run at a time | the task that gives way is run in the end |
| `scheduler_orphan` | 2 priorities, 2 runs at once, no message, no fault | *violated*, see below |
| `sched_job_tasks_safety` | 2 changes, 1 worker, 2 schedules, times 0..3, 2 ahead, 1 fault; 3.7 million states | what waits is what the job as it is now says; the coming runs are there; what ran once is kept |
| `task_windows` | 3 runs of which 2 close together, ticks every 3 and at most 2 late, windows of 3 as shipped, the worker down for up to 2, 2 faults; 1.2 million states | a run the worker was there for and did not make lies in the gap between two windows, which is as long as ticks are late; what the scheduler lost is run, or a later run in its place |
| `periodic` | 2 workers, interval 2, reloads every 1, 1 change, 1 fault; 0.6 million states | the lock keeps a job's runs apart, as long as a run lets go of it within the margin; a job that stays on runs again and again; one that stays off is run no more, and leaves the schedule |
| `settings_probation` | each kind of settings: 2 requests at once, 2 changes, 2 answers, the worker and the timer, 1 retry, 1 fault; 0.4 million states | a trial is settled once; what nobody stood by has a deadline, or a transaction that is about to decide, but for what is left astray; a trial falls back to what somebody stood by, with the same exception, however many changes came without; no trial goes on for good |
| `settings_half_revert` | traefik, 1 change, docker refuses the worker once | *violated*, see below |
| `system_update` | 2 updates, 2 releases, 2 majors, with and without backup, 1 write; up to 3 calls refused with up to 2 commands failed, or one other fault, or one in an update to an older major | what was written is on the database the app comes back to, behind a backup and one failed step, as long as no release names an older major; it is not half migrated; a task that says done did all of it; the app and the worker come back |
| `system_update_dump` | 2 updates, 1 major, 1 failed command | *violated*, see below |
| `dashboard_session` | 2 tabs, 2 requests and a logout, 1 retry, 1 token that expires, 1 event; 1.0 million states | one refresh per tab, nobody waits for none; the stored token is of a session that lives; every request ends |

Beside these there are instances to be run by hand, that are larger or ask for
something that does not hold: `TaskExecution_safety.cfg` (goroutines of the same
worker; 1.9 million states up to symmetry), `TaskScheduler_safety.cfg` (four
entries), `PeriodicJobs_safety.cfg` (intervals 0 to 2, two slots) and
`PeriodicJobs_last.cfg` (no job on beside it) pass; `TaskExecution_cancel.cfg`,
`TaskScheduler_stuck.cfg`, `TaskWindows_gap.cfg`, `TaskWindows_later.cfg`,
`PeriodicJobs_overlap.cfg`, `PeriodicJobs_cache.cfg`,
`SettingsProbation_stale.cfg`, `SettingsProbation_late.cfg`,
`SystemUpdate_older.cfg`, `SystemUpdate_release.cfg`, `SystemUpdate_cluster.cfg`
and `DashboardSession_signout.cfg` each end with a counterexample, see below. E.g.
`tlc -config TaskWindows_gap.cfg MCTaskWindows`.

**Why the bounds are enough.** Two actors of each kind are what each of the
hazards needs: a worker that has the row and one that is refused it, a listener
left behind and a new one, a stale reader and a writer, a confirmation and a
change. One retry and one step show the first, the middle and the last execution
of a task. Two entries let a task have one that is settled and one in the
making. Four times with two of them ahead let a run be past, due, made and not
made yet; of the two schedules one is a part of the other, so that a change
keeps some runs and drops others. In `task_windows` the windows are as long as the
intervals, which is what is shipped, and the lateness is long enough for a run to
be in the gap. Two changes of a setting are one on top of a
trial of the other. Two updates are what a stale dump needs, two majors what a
move of the database needs, and two releases what an updater needs that runs
another's task. One fault at any step is each partial failure
alone; `system_update` and `task_windows` take several, since what they check is
what is left after a failed way back. `MaxWaiting` of 1 merges goroutines of the
same job that wait for a slot in the same worker. `TaskScheduler`'s and
`TaskWindows`'s time ends (`MaxTime`), and what lies beyond it is excused. The
proofs have no bounds.

**Deadlock** is checked where the system always has something to do
(`task_execution`, the schedulers', `periodic`). In `sched_job_tasks_safety`,
`task_windows`, `settings_probation`, `system_update` and `dashboard_session`
the calls, requests or the time do run out. The row locks of
`SettingsProbation` can deadlock; the database then ends one of the
transactions, which is an action (`Deadlock`) and part of `TrialsEnd`.

**Symmetry** is used in runs of invariants and of action properties only, over
names that are alike: workers, goroutines, clients, entries, editors.

**Fairness**, and why the code has it:

- `TaskExecution`: an execution under way goes on, as its work ends by its
  timeout at the latest (`task_timeout.go`); BLPOP returns after seven seconds;
  a call, once made, goes on; a task that can run is run, as every worker scans
  for such tasks. (A scan looks an hour back: a task that no worker is there to
  find within that is a missed one, which is `TaskWindows`' subject.) Nothing is
  assumed of crashes, of users, of which worker is
  the one to run a task, nor that a listener that could get a command does.
- `TaskScheduler`: the time goes on, scans come, goroutines and executions go
  on. `Fire` is strongly fair: a job that is due may be kept waiting again and
  again by the limit of concurrent runs, and gocron's queue lets it run when
  there is room. Messages are sent by no fairness, but handled.
- `TaskWindows`: the time goes on, ticks are handled, what is due is executed,
  a worker is started again.
- `PeriodicJobs`: the time goes on, a transaction ends, each worker has its
  rounds, a goroutine gets a slot at some time and goes on. An event need not
  arrive, a job need not change.
- `SettingsProbation`: a request's transaction gets the rows it waits for at
  some time (strong, since others take them in between), a revert goes on, a
  deadlock is resolved, time passes, the main app is started again. The
  worker and the timer are fair together only (`Reverter`): whichever is there
  and finds the row unlocked.
- `SystemUpdate`: the updater's process goes on, as long as swarm keeps it.
- `DashboardSession`: the server answers or the connection ends, and the browser
  runs its callbacks. Nobody need sign in, or open a tab again.

## What does not hold

Statements of the sources that are not what the code does. Three have a run of
their own and are findings in `PROJECT.json`:

- **An entry may be orphaned** (`scheduler_orphan`). A task put off for one of
  higher priority, to half a second after that one's time, fires while that one
  still runs, and is put off to the same time again: `reserveJob` takes the
  entry of the job that is just ending for one that is scheduled. The next scan
  asks for the row's own time, which is another, and replaces the entry: that
  is why `EventuallyRun` holds all the same in `scheduler_priority`. If the row
  is due at that very time, the scan is refused too, and this process never runs
  the task (`TaskScheduler_stuck.cfg`).
- **A revert may be half done** (`settings_half_revert`). The queue commits a
  task's transaction also when its executor fails. The row of the setting is
  saved before the cluster is told; if docker refuses, the row is restored, the
  cluster is not, and the retry takes the version it wrote itself for somebody's
  later change. The run checks `LiveIsVouchedOrOnTrial`, which the main run has
  with the exception of what is `astray`.
- **An update may be undone to the wrong dump** (`system_update_dump`). Nothing
  deletes the dump of an update that went well. One that skips its backup and
  fails to migrate restores it.

By hand:

- **A cancel may be lost** (`TaskExecution_cancel.cfg`, `SentCancelArrives`).
  `tasks/queue/types.go:66` says of `Continue` that "A failure or a cancel wins
  over it". The listener of the execution that asked for it is still in its
  BLPOP when the next execution starts, and takes the cancel sent to that one.
- **A lock may be deleted by another** (`PeriodicJobs_overlap.cfg`). A run that
  used up its timeout, and takes longer than the margin to save its task,
  deletes by its key the lock the next run has taken.
- **A cache may stay old** (`PeriodicJobs_cache.cfg`). The event that a setting
  changed is published inside the transaction: a worker may read the jobs before
  the commit. `RunsAgainAndAgain` and `OffIsForgotten` hold since caches expire.
- **The last job turned off stays in the schedule.** A worker that has no job on
  returns before it reads what is due (`queue_periodic.go:233`), so nobody takes
  it out; turned on again it is due at once. `OffIsForgotten` says so.
- **A run may fall between two windows** (`TaskWindows_gap.cfg`,
  `EveryRunIsMade`). Runs are made for ten minutes ahead every ten minutes, as
  shipped: a tick that is handled late, by whatever little, leaves a gap, and a
  run in it is never made. Ticks are by a setting besides (up to a day), the
  windows by the configuration. `queue_schedule_tasks.go:21-24` speaks of a look
  "ahead to the next scan". `NoGapWithSlack` is proved for windows that are as
  much longer as ticks are late.
- **A trial may fall back to what nobody stood by** (`SettingsProbation_stale.cfg`,
  `LiveIsVouchedOrOnTrial`, no fault). Traefik's update reads the live command
  before it locks the setting's row; a revert, which locks that row only, pushes
  another and commits in between. The update finds no trial pending, and its
  snapshot is the command just undone, where `arm.go:41` speaks of "the last
  configuration somebody actually vouched for". Reverted in its turn, it leaves
  that command live without a deadline.
- **A change may be applied after it was undone** (`SettingsProbation_late.cfg`,
  `LiveIsVouchedOrOnTrial`, no fault). The service's change reaches the cluster
  after its commit and under no lock: a revert asked for meanwhile restores the
  row, and what it undid is then applied, with no trial left.
- **An older major is moved to on paper** (`SystemUpdate_older.cfg`,
  `RecordIsMovedTo`, no fault). A release that names an older postgres major is
  not refused: the plan is an upgrade, the image is skipped as not newer, the dump
  is restored onto the running database, and the volume of the plan is recorded,
  on which the database never was. The comment at `update_db.go:199-202` calls a
  deploy pointed at such a volume worse than one pointed at the old. A migration
  that fails is "undone" by a way back to where the service is already, with the
  schema as it was left.
- **Done may be another release's** (`SystemUpdate_release.cfg`, `DoneIsMigrated`,
  no fault). The updater is moved by whoever asks last, also where its task is then
  lost; the task it finds may be an earlier one, which it migrates with its own
  files. `OutcomeIsTrue` speaks of the updater's migrations for that reason.
- **The older of two missed runs may come second** (`TaskWindows_later.cfg`).
  `queue_schedule_tasks.go:91` means to leave out a run when a later one of the
  same target was executed; it looks at later ones that have not started, so the
  scan after the later one is done finds the older.
- **A new cluster may not be empty** (`SystemUpdate_cluster.cfg`,
  `NewClusterIsEmpty`). `update_db.go:139` says "From here a major upgrade has an
  empty new cluster running". The volume is named by the major alone
  (`repointDbVolume`), and the way back puts the service on the old one without
  emptying the new: the second try of a move that failed after its load restores
  the dump onto the first one's tables.
- **A tab may be signed out of a session that lives**
  (`DashboardSession_signout.cfg`). `auth.interceptors.ts:100-106` and
  `api.exceptions.utils.ts:140-147` take an invalid token for a session that is
  over. A request sent with the old token, and answered after another's refresh
  has replaced it, is such an answer.

Seen while the models were written, without a property of their own:

- *Scheduled jobs.* The comment at `queue_api.go:143` speaks of runs "under way"
  that are canceled, where the query at 131 skips locked rows. A run that is
  overdue when its job changes is removed and not made anew.
- *Probation.* A revert asked for that read the trial before a confirmation
  committed undoes what was confirmed: the one exception of `SettledOnce`. The
  routing update locks the app's row, a confirmation the setting's: one that
  comes between leaves the next trial with an older snapshot. A main app that
  dies between the push to swarm and its commit leaves a live change without a
  deadline (`astray`). After one failed attempt the task is `failed`, and
  the timer, `Reconcile`, `Confirm` and `Arm` no longer see it. The fallback
  timer fires once.
- *System update.* A deadline during the load of a moved database makes the way
  back fail too, and the app returns on an empty cluster, against
  `update_db.go:139-141`. A rollout whose wait fails returns before the way back
  is registered. What containers write in their ten minutes of grace is lost
  when the update is undone or the database moves (`executor.go:111` says
  otherwise). A killed updater finds its task again, where `updater.go:50-52`
  says it finds none, and then reads the replicas it had set to none itself.
  A failed `pg_dump` overwrites the good dump. `hurt` is how the properties name
  these.
- *Sessions.* The answer to a refresh lost, the next one is refused and the user
  signed out. A logout beside another tab's refresh may leave a token behind.
  The `attempts` guard (`auth.interceptors.ts:145-150`) never meets a retry. An
  error of redis reads as an invalid token (`get_current_user.go:26-28`).
- *The dialog that confirms settings on trial* is not modelled. Its phase
  "disconnected" waits for two failures of a query that is not retried, whose
  count starts anew with each fetch; and a probe that is turned off keeps its
  last answer, so a second trial of the same kind looks resolved at first.

## What is proved

Everything below is for every value of the constants, from the assumptions of
the modules (`...Assumption`: bounds are naturals, names are told apart).

| module | theorem | statement |
|---|---|---|
| `TaskExecution_proofs` | `TypeCorrect` | `Spec => []TypeOK` |
| | `MutualExclusion` | `Spec => []OneRunAtATime` |
| | `Reachable` | `Spec => []RunningIsReachable` |
| | `RetryBudget` | `Spec => []FailuresAreCounted` |
| | `CanceledForGood` | `Spec => []CanceledAnswerHolds` |
| | `Final` | `Spec => FinalStays` |
| | `Implementation` | `Spec => ImplementsLifecycle` |
| `TaskScheduler_proofs` | `TypeCorrect` | `Spec => []TypeOK` |
| | `NoJobStrays` | `Spec => []NoStrayJob` |
| | `NoEntryOrphaned` | `NoneGivesWay` implies `Spec => []NoOrphanEntry` |
| `SchedJobTasks_proofs` | `TypeCorrect` | `Spec => []TypeOK` |
| | `WaitingFollows` | `Spec => []WaitingFollowsSchedule` |
| | `ComingRuns` | `Spec => []ComingRunsAreThere` |
| | `BegunKept` | `Spec => []BegunIsKept` |
| `TaskWindows_proofs` | `TypeCorrect` | `Spec => []TypeOK` |
| | `GapsAreShort` | `Spec => OnlyGapsAreMissed`; as a corollary (`NoGapWithSlack`), `CreateEvery + Late <= CreateAhead` implies `Spec => []EveryRunIsMade` |
| `PeriodicJobs_proofs` | `TypeCorrect` | `Spec => []TypeOK` |
| | `Exclusion` | `Overrun < LockMargin` implies `Spec => []NoOverlap` |
| `SettingsProbation_proofs` | `TypeCorrect` | `Spec => []TypeOK` |
| | `SettledForGood` | `Spec => SettledOnce` |
| | `PendingFallsBack` | `Spec => []FallsBackToVouched` |
| | `NothingStaysUnvouched` | `Spec => []LiveIsVouchedOnTrialOrAstray` |
| `SystemUpdate_proofs` | `TypeCorrect` | `Spec => []TypeOK` |
| | `DoneIsDone` | `Spec => OutcomeIsTrue` |
| | `NothingIsLost` | `Spec => []KeptIfBackedUp` |
| | `NoneIsHalfMigrated` | `Spec => []NoHalfSchema` |
| `DashboardSession_proofs` | `TypeCorrect` | `Spec => []TypeOK` |
| | `OneRefresh` | `Spec => []OneRefreshPerTab` |
| | `TokenLives` | `Spec => []StoredTokenLives` |

**TaskExecution.** None of the invariants is inductive alone. That
`RunningIsReachable` survives the end of another run needs that there is no
other run; that a retry is counted once needs that the row a run has in hand is
the committed row, taken once, until it commits. So `IInv` is their conjunction
with `LockInv` (whoever is past loading holds the lock, and no one else does),
`InHandInv` (a run has its row, and it or its listener its data, as long as they
are used), `HeldInv` (a held row is one that can run, or be canceled),
`StagedInv` (what a run has in hand is what `Taken` and then `SettleTask` make of
the row as it is in the database now) and `CountInv` (failures less retries are
one for a failed task, none or one for a canceled one, none otherwise).
`CommitKeeps` is where the counting happens: from `StagedInv` the new row is
settled from the old one, and `SettledCounts` says what that does to the
counters. `Implementation` needs `IInv` too: a commit of a run is `Settle` or
`Cancel` of `TaskLifecycle` by `StagedInv`, a commit of a cancel is `Cancel` by
`HeldInv`, every other step takes the lock, lets it go, or is a stutter.

**TaskScheduler.** `Sound` relates the map and the entries: the entry a task has
in the map is the task's own (`Mapped`); a job that is made and waits is the one
its task has in the map, or is being removed, or is remembered as the old one of
an entry that replaces it (`Owned`); and only an entry that replaces another
remembers an old one (`OldInv`). `NoStrayJob` follows. `NoOrphanEntry` needs
more, `Ordered`: an entry that is removed, replaced or stray is out of the map, a
job put off has a later time than its own, and the job of an entry in the map is
not over. With two priorities that last part fails (`scheduler_orphan`), hence
`NoneGivesWay`: each task is critical, or no other has a higher priority. The
lemmas say what the making, changing and removal of one entry do to `Sound` and
to `Ordered`; there is one `...Keeps` per action on top of them.

**SchedJobTasks.** Nobody but the holder of the job's row has anything in hand
(`TxInv`), the rows it has locked stay as it found them (`LockInv`), nothing is
begun ahead of its time but by a user (`RowInv`), and the draft differs from the
rows by what was taken off and made (`DraftInv`). `CommitKeeps` then reads the
three properties off the draft.

**TaskWindows.** The theorem is about the step in which the time passes a run that
is not made. `AheadInv`: after a making that went well, the runs up to the end of
its window are made, and the next tick is an interval after it at the latest.
`GapInv`: a time counts as served only while a worker is up, and as unserved from a
fault on until the next making that goes well. So a run that is missed is after the
window, and the tick that would have made it is due or will come late: before an
interval and the lateness have passed. It needs nothing of the constants: where the
window is longer than both together, the two bounds exclude each other, which is
the corollary; as shipped it is not.

**PeriodicJobs.** A run's lock outlives the run (`LockOutlivesRun`), as it was
taken for the timeout and the margin, and a lock has one holder (`OneHolder`).

**SettingsProbation.** `IInv` says what a transaction in its middle may rely on.
No lock is held twice (`Exclusive`); no trial is of a later version than the
setting, and one that is done or has failed is of an earlier (`Versions`); and
`Good` says of each transaction what it holds at each of its steps and what is
still as it read it: the trial an update supersedes is waiting or canceled, the
one a confirmation has checked is the one in force, the one the worker or the
timer has taken is on trial. `OthersGood` is the heart: whoever writes a trial
or the setting holds, or finds free, the lock by which the others rely on it -
for an update and a revert that is `RevertLock`, which both take first, and a
confirmation may write without, as it only cancels. A confirmation that comes
late finds the version changed, by `Versions`.

`Falls` comes on top of it, for the two properties that speak of the
configurations. The trial that is not started is of the setting's version, and
no two are of the same (`TrialInv`). What a trial would restore, and the setting
itself while none is pending, was stood by or is astray (`SnapInv`). What the
cluster runs while nobody is applying anything is the setting's configuration, or
what was last stood by, or is astray; for the service's settings, which are
applied under no lock, only where no trial is pending (`RunInv`). What an update or
a revert under way has read is still so, since they exclude each other by
`RevertLock` or by the row (`ReadInv`); traefik's update has that from
`LockForUpdate` on, and what it has read before and is so no longer is astray. What
one of them has made the cluster run is run until it commits, but for what swarm
takes back (`AppliedInv`). The theorems have no hypothesis: what goes wrong in the
code goes wrong at the places where `astray` grows, and the proof shows that there
is no other.

**SystemUpdate.** Three invariants, one on top of the other. `Known`: the types,
and that no table and no dump has a row of a task that nobody asked for. `Run`:
at which steps the services are stopped, who takes back what once a step has
failed, and, while none has, what has been done so far; `DoneIsDone` reads it at
the step that saves the task. It needs no condition on the faults. `TameInv` says
where the data is, under `OneFailedStep`. Before the first fault nothing is left
over from an earlier update (`FirstFault`), so that what goes wrong at a step
goes wrong with everything else in place. The volume on record holds what is to
be kept, but while a migration of it is undone, and the service is on it, or on
its way to another or back, or left on an empty cluster when its rollout was not
seen to end (`PlaceInv`, and the `"wait"` in `KeptIfBackedUp`). The dump is good from the backup until nobody would restore it
(`DumpInv`): this is what fails once an update may skip its backup
(`system_update_dump`). Moves go to newer majors only (`UpInv`), which is why the
condition leaves out updates to an older one: there the service stays where it is
and the record does not. What a service is moved to is newer than what it is at,
or it stays: `DoneIsDone` says "the task's release or a newer one".

**DashboardSession.** `CallInv` and `PairInv` tie each refresh that is still
waited for to the one request that waits, and say that no other call knows the
session it made: else `InvalidateOld` of another call could delete the session a
token is about to be stored for.

Model-checked only is liveness: TLAPS does not do `ENABLED`, so no property that
rests on fairness can be proved. That is `EventuallyFinished` and `ListenersEnd`,
`EventuallyRun`, `MissedIsRun`, `RunsAgainAndAgain` and `OffIsForgotten`,
`TrialsEnd`, `AppComesBack` and `WorkerComesBack`, `EveryRequestEnds`. Every
invariant and every action property of a run that passes has its theorem.

## What is not modelled

- In the components above: delays of retries and the expiry of the entry in
  redis (`TaskExecution` has no clock); `Shutdown` and `ScheduleNextTask` of the
  scheduler; cron expressions; that a batch of periodic jobs ends at a hundred;
  what a periodic run saves; in the session, passwords, second factors, OAuth
  and permission, and that `getProfile` drops the token on a 404; what a
  confirmation of settings triggers afterwards.
- The dashboard beyond its session. It is some 250 thousand lines in 4500 files
  of views, forms, tables, schemas and typed calls, each showing what the API
  answers: there is no state in them that a step of another actor can make
  wrong, but for the dialog named above. A model of a tenth of it would be a
  transcript of forms. The lines modelled are therefore a small share of it,
  and nearly all of the Go code modelled is counted nowhere in that share.
- The rest is calls to docker, git, ACME, cloud and mail services, handlers that
  decode and authorize, generated configuration. `PROJECT.json` gives the reason
  for each.

## Plan

Done: the task queue (execution, scheduler, rows, windows, periodic jobs), the
settings on probation, the system update, the dashboard's session, and theorems
about all of these. What is left, in this order:

1. `JobSequence`: steps of a task over `Continue`, crashes and retries
   (`tasks/taskworkflow`, `schedjobexecservice`), with the triggers that start
   and wait for them; that no step is skipped, none done twice after its result
   was saved.
2. `QueueSystem`: `SchedJobTasks` with the scheduler, for tasks scheduled from
   inside the transaction that makes their rows.
3. The dialog that confirms settings on trial, against `SettingsProbation`.
4. Pure functions: the autoscaler's decision, the permission of a role, the next
   time of a schedule, each against a reference definition.
5. Theorems about each of these, with the module.
