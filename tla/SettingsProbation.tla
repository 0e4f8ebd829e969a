------------------------- MODULE SettingsProbation -------------------------
(***************************************************************************)
(* A change of the settings HivePaaS is reached through is applied at once *)
(* and is on trial: a task, stored with the change, undoes it at its       *)
(* deadline unless somebody confirms it (settingsprobationservice).  Three *)
(* kinds of settings are: the app's routing, the service's proxy settings, *)
(* traefik's command line.                                                 *)
(*                                                                         *)
(* Updates, confirmations and reverts asked for are transactions of the    *)
(* main app, as are the reverts its own timers run; the task queue's       *)
(* worker runs a revert too.  A transaction reads what is committed and    *)
(* holds its row locks until it ends; two that wait for each other are     *)
(* told apart by the database.  The cluster is in no transaction.          *)
(*                                                                         *)
(* A configuration is a number: 1 is the first, n + 1 the one of change n. *)
(***************************************************************************)
EXTENDS Naturals, Sequences, SequencesExt

CONSTANTS
    Client,         \* the requests the main app handles
    Kinds,          \* those of "routing", "service" and "traefik" looked at
    Worker,         \* the task queue's worker
    Timer,          \* the main app's timers
    MaxRetry,       \* the retries of a revert (arm.go)
    MaxChanges,     \* bound: changes
    MaxAnswers,     \* bound: answers to trials
    Faults,         \* those there may be, for each kind: a crash, a transaction ended,
                    \* docker refusing the main app or the worker, a rollback by swarm
    MaxFaults       \* bound: how many there are

ASSUME ProbationAssumption ==
    /\ Worker # Timer /\ {Worker, Timer} \cap Client = {}
    /\ Kinds \subseteq {"routing", "service", "traefik"}
    /\ MaxRetry \in Nat /\ MaxChanges \in Nat /\ MaxAnswers \in Nat /\ MaxFaults \in Nat
    /\ Faults \in [Kinds -> SUBSET {"crash", "abort", "docker", "worker", "rollback"}]

VARIABLES
    kind,           \* the kind of settings
    setting,        \* the setting's row: its UpdateVer and its configuration
    tasks,          \* the trials: the rows of the settings-revert tasks
    running,        \* the configuration the cluster runs
    before,         \* and ran before: what swarm rolls back to
    up,             \* the main app runs
    timers,         \* the trials it has a timer armed for
    tx,             \* [Actor -> Tx] the transactions
    last,           \* the changes begun
    answers,        \* the answers given
    faults,         \* how many there were
    vouched,        \* history: the configuration last stood by
    stood,          \* history: and those stood by so far
    astray          \* history: those the cluster was left at, or is to be left at, in
                    \* the ways the actions name: by transactions cut off, reverts the
                    \* cluster refuses, commands read too early, changes applied too late

asked == <<last, answers>>
history == <<vouched, stood, astray>>
app == <<up, timers>>
cluster == <<running, before>>
vars == <<kind, setting, tasks, cluster, app, tx, asked, faults, history>>

-----------------------------------------------------------------------------
Actor == Client \cup {Worker, Timer}

Config == 1..(MaxChanges + 1)

Row == [ver : Nat, conf : Config]

\* A trial is too young to be confirmed ("settling"), "open" to it, or past its
\* deadline ("due").
Task == [status : {"not_started", "failed", "done", "canceled"},
         retry : 0..MaxRetry, ver : Nat, conf : Config, snap : Config,
         time : {"settling", "open", "due"}]

\* What a transaction locks: the app's row, the setting's, a task's.
AppRow == <<"app", 0>>
SettingRow == <<"setting", 0>>
TaskRow(t) == <<"task", t>>

Lock == {AppRow, SettingRow} \cup {TaskRow(t) : t \in 1..MaxChanges}

Tx == [op : {"none", "update", "confirm", "revertNow", "undo"},
       at : {"idle", "read", "locked", "applied", "committed", "skip"},
       task : 0..MaxChanges,        \* the trial read, 0 for none
       conf : Config, snap : Config,
       holds : SUBSET Lock]

Idle == [op |-> "none", at |-> "idle", task |-> 0, conf |-> 1, snap |-> 1, holds |-> {}]

Trials == DOMAIN tasks

\* FindPending: the latest trial not started, read without a lock.
NotStarted == {t \in Trials : tasks[t].status = "not_started"}
Latest(t) == t \in NotStarted /\ \A u \in NotStarted : u <= t
FindPending == IF \E t \in Trials : Latest(t) THEN CHOOSE t \in Trials : Latest(t) ELSE 0

CanRetry(t) == tasks[t].status = "failed" /\ tasks[t].retry < MaxRetry

OnTrial(t) == tasks[t].status = "not_started" \/ CanRetry(t)

\* What an update, and a revert, lock first (SelectFor).
UpdateLock == IF kind = "service" THEN SettingRow ELSE AppRow
RevertLock == IF kind = "routing" THEN AppRow ELSE SettingRow

Free(L, a) == \A b \in Actor \ {a} : L \cap tx[b].holds = {}

Fault(f) == f \in Faults[kind] /\ faults < MaxFaults /\ faults' = faults + 1

End(a) == tx' = [tx EXCEPT ![a] = Idle]

Push(conf) == running' = conf /\ before' = running

StoodBy(conf) == vouched' = conf /\ stood' = stood \cup {conf}

-----------------------------------------------------------------------------
(* An update: UpdateRoutingSettings, UpdateServiceSettings,                *)
(* UpdateConfigOptions.                                                    *)

\* Faulty: nothing is captured where no trial is pending.
SnapshotOfTrial(p, conf) == IF p # 0 THEN tasks[p].snap ELSE 0

\* Faulty: the snapshot is always of what the update replaces.
SnapshotOfNow(p, conf) == conf

\* Arm: what the pending trial would restore, or else the settings as they were read.
Snapshot(p, conf) == IF p # 0 THEN tasks[p].snap ELSE conf

\* The row is locked, and read with the trial pending. Traefik's update has only
\* the app's row as it reads what the cluster runs. Of requests made for another
\* UpdateVer, and those refused, nothing comes.
BeginUpdate(c) ==
    /\ up /\ tx[c] = Idle
    /\ last < MaxChanges /\ last' = last + 1
    /\ Free({UpdateLock}, c)
    /\ tx' = [tx EXCEPT ![c] =
                 IF kind = "traefik"
                 THEN [op |-> "update", at |-> "read", task |-> 0, conf |-> last + 2,
                       snap |-> running, holds |-> {UpdateLock}]
                 ELSE [op |-> "update", at |-> "locked", task |-> FindPending, conf |-> last + 2,
                       snap |-> Snapshot(FindPending, setting.conf), holds |-> {UpdateLock}]]
    /\ UNCHANGED <<kind, setting, tasks, cluster, app, answers, faults, history>>

\* loadOrSeedConfigSetting, Arm: now the setting's row is locked. A revert may have
\* come between, and what was read is then what it has replaced.
LockForUpdate(c) ==
    LET p == FindPending
    IN  /\ tx[c].op = "update" /\ tx[c].at = "read"
        /\ Free({SettingRow}, c)
        /\ tx' = [tx EXCEPT ![c] = [tx[c] EXCEPT !.at = "locked", !.task = p,
                                                 !.snap = Snapshot(p, tx[c].snap),
                                                 !.holds = tx[c].holds \cup {SettingRow}]]
        /\ astray' = astray \cup IF p = 0 THEN {tx[c].snap} \ {running} ELSE {}
        /\ UNCHANGED <<kind, setting, tasks, cluster, app, asked, faults, vouched, stood>>

Written(p) == {SettingRow} \cup IF p = 0 THEN {} ELSE {TaskRow(p)}

\* The rows are written, and the change is applied; the service's is later.
WriteUpdate(c) ==
    /\ tx[c].op = "update" /\ tx[c].at = "locked"
    /\ Free(Written(tx[c].task), c)
    /\ tx' = [tx EXCEPT ![c] = [tx[c] EXCEPT !.at = "applied",
                                             !.holds = tx[c].holds \cup Written(tx[c].task)]]
    /\ IF kind = "service" THEN UNCHANGED cluster ELSE Push(tx[c].conf)
    /\ UNCHANGED <<kind, setting, tasks, app, asked, faults, history>>

Canceled(t) == [tasks EXCEPT ![t] = [tasks[t] EXCEPT !.status = "canceled"]]

\* The trial armed is stored with the change, the one it replaces canceled.
CommitUpdate(c) ==
    LET p == tx[c].task
        new == [status |-> "not_started", retry |-> 0, ver |-> setting.ver + 1,
                conf |-> tx[c].conf, snap |-> tx[c].snap, time |-> "settling"]
        superseded == IF p = 0 THEN tasks ELSE Canceled(p)
    IN  /\ tx[c].op = "update" /\ tx[c].at = "applied"
        /\ setting' = [ver |-> setting.ver + 1, conf |-> tx[c].conf]
        /\ tasks' = Append(superseded, new)
        /\ tx' = [tx EXCEPT ![c] = [tx[c] EXCEPT !.at = "committed", !.task = Len(tasks) + 1,
                                                !.holds = {}]]
        /\ UNCHANGED <<kind, cluster, app, asked, faults, history>>

\* What the cluster is told of a change that by then is neither in force nor on
\* top of a trial.
TooLate(conf) == IF NotStarted = {} THEN {conf} \ {setting.conf} ELSE {}

\* Schedule: a timer is armed beside the queue. The service's change is applied
\* before, under no lock, or failed to be.
Schedule(c) ==
    /\ tx[c].op = "update" /\ tx[c].at = "committed"
    /\ timers' = timers \cup {tx[c].task}
    /\ End(c)
    /\ \/ /\ kind # "service"
          /\ UNCHANGED <<cluster, faults, astray>>
       \/ /\ kind = "service" /\ Push(tx[c].conf)
          /\ astray' = astray \cup TooLate(tx[c].conf)
          /\ UNCHANGED faults
       \/ kind = "service" /\ Fault("docker") /\ UNCHANGED <<cluster, astray>>
    /\ UNCHANGED <<kind, setting, tasks, up, asked, vouched, stood>>

\* Docker refuses, and the update's transaction is rolled back.
UpdateFails(c) ==
    /\ tx[c].op = "update" /\ tx[c].at = "locked" /\ kind # "service"
    /\ Fault("docker")
    /\ End(c)
    /\ UNCHANGED <<kind, setting, tasks, cluster, app, asked, history>>

-----------------------------------------------------------------------------
(* The answers to a trial: Confirm and RevertNow.                          *)

\* pendingFor: the trial is read, and is the one the answer names.
BeginAnswer(c) ==
    /\ up /\ tx[c] = Idle /\ FindPending # 0
    /\ answers < MaxAnswers /\ answers' = answers + 1
    /\ \E op \in {"confirm", "revertNow"} :
          tx' = [tx EXCEPT ![c] = [Idle EXCEPT !.op = op, !.at = "read", !.task = FindPending]]
    /\ UNCHANGED <<kind, setting, tasks, cluster, app, last, faults, history>>

\* Faulty: a confirmation looks at nothing.
StillLiveUnchecked == TRUE

\* EnsureStillLive: for routing there is nothing to check.
StillLive == kind = "routing" \/ running = setting.conf

\* Of the service's settings only the trusted IPs are looked at: they may be those
\* of the change whatever else is running.
LooksLive == {StillLive} \cup IF kind = "service" THEN {TRUE} ELSE {}

\* What was read is the change in force, and a confirmation is worth something.
Accepts(c, live) ==
    LET t == tasks[tx[c].task]
    IN  /\ t.ver = setting.ver
        /\ tx[c].op = "confirm" => t.time # "settling" /\ live

\* The setting's row is locked, and the answer refused if it comes too late, too
\* early, or for what is not running.
LockSetting(c) ==
    /\ tx[c].op \in {"confirm", "revertNow"} /\ tx[c].at = "read"
    /\ Free({SettingRow}, c)
    /\ \E live \in LooksLive :
          IF ~Accepts(c, live) THEN End(c)
          ELSE tx' = [tx EXCEPT ![c] = [tx[c] EXCEPT !.at = "locked", !.holds = {SettingRow}]]
    /\ UNCHANGED <<kind, setting, tasks, cluster, app, asked, faults, history>>

\* What the cluster runs beside what is decided on: of the service's settings, which
\* are applied under no lock.
Beside(conf) == IF kind = "service" THEN {running} \ {conf} ELSE {}

\* The task is canceled whatever its row says by now.
CommitConfirm(c) ==
    LET p == tx[c].task IN
    /\ tx[c].op = "confirm" /\ tx[c].at = "locked"
    /\ Free({TaskRow(p)}, c)
    /\ tasks' = Canceled(p)
    /\ StoodBy(tasks[p].conf)
    /\ astray' = astray \cup Beside(tasks[p].conf)
    /\ End(c)
    /\ UNCHANGED <<kind, setting, cluster, app, asked, faults>>

-----------------------------------------------------------------------------
(* The revert: by the worker, by a timer, or asked for.                    *)

\* executeTask, loadTask: the task is taken unless its row is locked.
ClaimByWorker(t) ==
    /\ tx[Worker] = Idle
    /\ OnTrial(t) /\ tasks[t].time = "due"
    /\ Free({TaskRow(t)}, Worker)
    /\ tx' = [tx EXCEPT ![Worker] = [Idle EXCEPT !.op = "undo", !.at = "read", !.task = t,
                                                 !.holds = {TaskRow(t)}]]
    /\ UNCHANGED <<kind, setting, tasks, cluster, app, asked, faults, history>>

\* Faulty: a timer takes the task whatever its status.
TimerFindsAny(t) == Free({TaskRow(t)}, Timer)

TimerFinds(t) == tasks[t].status = "not_started" /\ Free({TaskRow(t)}, Timer)

\* armFallback, runFallback: the timer fires once. A task that somebody holds or
\* has settled is left alone.
TimerFires(t) ==
    /\ up /\ tx[Timer] = Idle
    /\ t \in timers /\ tasks[t].time = "due"
    /\ timers' = timers \ {t}
    /\ tx' = IF TimerFinds(t)
             THEN [tx EXCEPT ![Timer] = [Idle EXCEPT !.op = "undo", !.at = "read", !.task = t,
                                                     !.holds = {TaskRow(t)}]]
             ELSE tx
    /\ UNCHANGED <<kind, setting, tasks, cluster, up, asked, faults, history>>

Reverts(a) == \/ tx[a].op = "undo" /\ tx[a].at = "read"
              \/ tx[a].op = "revertNow" /\ tx[a].at = "locked" /\ RevertLock \notin tx[a].holds

\* Revert: the row is locked, and if the settings have changed since there is
\* nothing to undo.
LockForRevert(a) ==
    /\ Reverts(a)
    /\ Free({RevertLock}, a)
    /\ tx' = [tx EXCEPT ![a] =
                 [tx[a] EXCEPT !.holds = tx[a].holds \cup {RevertLock},
                               !.at = IF tasks[tx[a].task].ver = setting.ver THEN "locked" ELSE "skip"]]
    /\ UNCHANGED <<kind, setting, tasks, cluster, app, asked, faults, history>>

ReadyToPush(a) ==
    /\ tx[a].op \in {"undo", "revertNow"} /\ tx[a].at = "locked"
    /\ RevertLock \in tx[a].holds
    /\ Free({SettingRow}, a)

Restored(t) == [ver |-> setting.ver + 1, conf |-> tasks[t].snap]

\* The row is written and the cluster told; not what it runs already.
PushRevert(a) ==
    /\ ReadyToPush(a)
    /\ tx' = [tx EXCEPT ![a] = [tx[a] EXCEPT !.at = "applied",
                                             !.holds = tx[a].holds \cup {SettingRow}]]
    /\ IF running = tasks[tx[a].task].snap THEN UNCHANGED cluster ELSE Push(tasks[tx[a].task].snap)
    /\ UNCHANGED <<kind, setting, tasks, app, asked, faults, history>>

\* Faulty: the row is not saved.
SettledUnsaved(t, a, status) == tasks

\* The queue counts a retry as it takes a failed task.
SettledBy(a, task, status) ==
    [task EXCEPT !.status = status,
                 !.retry = IF a = Worker /\ task.status = "failed" THEN task.retry + 1 ELSE task.retry]

Settled(t, a, status) == [tasks EXCEPT ![t] = SettledBy(a, tasks[t], status)]

CommitRevert(a) ==
    LET t == tx[a].task IN
    /\ tx[a].op \in {"undo", "revertNow"} /\ tx[a].at = "applied"
    /\ Free({TaskRow(t)}, a)
    /\ setting' = Restored(t)
    /\ tasks' = Settled(t, a, "done")
    /\ IF tx[a].op = "revertNow" THEN StoodBy(tasks[t].snap) ELSE UNCHANGED <<vouched, stood>>
    /\ astray' = astray \cup Beside(tasks[t].snap)
    /\ End(a)
    /\ UNCHANGED <<kind, cluster, app, asked, faults>>

SkipRevert(a) ==
    LET t == tx[a].task IN
    /\ tx[a].at = "skip"
    /\ Free({TaskRow(t)}, a)
    /\ tasks' = Settled(t, a, "done")
    /\ End(a)
    /\ UNCHANGED <<kind, setting, cluster, app, asked, faults, history>>

\* Docker refuses. The main app rolls its transaction back; the queue commits
\* it, with the row as the revert left it, and the task as failed.
RevertFails(a) ==
    LET t == tx[a].task IN
    /\ ReadyToPush(a)
    /\ Fault(IF a = Worker THEN "worker" ELSE "docker")
    /\ IF a = Worker
       THEN /\ setting' = Restored(t) /\ tasks' = Settled(t, a, "failed")
            /\ astray' = astray \cup {running}
       ELSE UNCHANGED <<setting, tasks, astray>>
    /\ End(a)
    /\ UNCHANGED <<kind, cluster, app, asked, vouched, stood>>

-----------------------------------------------------------------------------
(* Transactions that end otherwise, and the processes.                     *)

\* What transactions that end so have made the cluster run.
CutOff(A) ==
    {IF tx[a].op = "update" THEN tx[a].conf ELSE tasks[tx[a].task].snap :
        a \in {b \in A : tx[b].at = "applied" /\ ~(kind = "service" /\ tx[b].op = "update")}}

InTransaction(a) == tx[a].at \notin {"idle", "committed"}

RollBack(a) ==
    /\ End(a)
    /\ astray' = astray \cup CutOff({a})
    /\ UNCHANGED <<kind, setting, tasks, cluster, app, asked, vouched, stood>>

\* The locks a transaction asks for next.
Wanted(a) ==
    CASE tx[a].op = "update" /\ tx[a].at = "locked" -> Written(tx[a].task)
      [] tx[a].at = "read" /\ tx[a].op # "undo" -> {SettingRow}
      [] Reverts(a) -> {RevertLock}
      [] tx[a].op \in {"undo", "revertNow"} /\ tx[a].at = "locked" -> {SettingRow}
      [] tx[a].op # "update" /\ tx[a].at \in {"locked", "applied", "skip"} -> {TaskRow(tx[a].task)}
      [] OTHER -> {}

WaitsFor(a, b) == a # b /\ Wanted(a) \cap tx[b].holds # {}

\* The database ends one of the transactions that wait for each other, two or
\* three of them.
Deadlock(a) ==
    /\ \E b \in Actor : /\ WaitsFor(a, b)
                        /\ WaitsFor(b, a) \/ \E c \in Actor : WaitsFor(b, c) /\ WaitsFor(c, a)
    /\ RollBack(a)
    /\ UNCHANGED faults

Abort(a) ==
    /\ InTransaction(a)
    /\ Fault("abort")
    /\ RollBack(a)

Crash ==
    /\ up /\ Fault("crash")
    /\ up' = FALSE /\ timers' = {}
    /\ tx' = [a \in Actor |-> IF a = Worker THEN tx[a] ELSE Idle]
    /\ astray' = astray \cup CutOff(Actor \ {Worker})
    /\ UNCHANGED <<kind, setting, tasks, cluster, asked, vouched, stood>>

\* Reconcile: a timer for each trial not started, at once for those overdue.
Restart ==
    /\ ~up /\ up' = TRUE
    /\ timers' = NotStarted
    /\ UNCHANGED <<kind, setting, tasks, cluster, tx, asked, faults, history>>

\* Swarm takes back an update whose task does not become healthy. That of a
\* change somebody confirms has: the confirmation went through it.
SwarmRollsBack ==
    /\ kind # "routing" /\ running \notin stood \cup {before}
    /\ \A c \in Client : ~(tx[c].op = "confirm" /\ tx[c].at = "locked")
    /\ Fault("rollback")
    /\ running' = before
    /\ astray' = IF running \in astray THEN astray \cup {before} ELSE astray
    /\ UNCHANGED <<kind, setting, tasks, before, app, tx, asked, vouched, stood>>

\* The settle delay of a trial is over, or its window is.
TimePasses(t) ==
    /\ tasks[t].time # "due"
    /\ tasks' = [tasks EXCEPT ![t] =
                    [tasks[t] EXCEPT !.time = IF tasks[t].time = "settling" THEN "open" ELSE "due"]]
    /\ UNCHANGED <<kind, setting, cluster, app, tx, asked, faults, history>>

-----------------------------------------------------------------------------
Init ==
    /\ kind \in Kinds
    /\ setting = [ver |-> 1, conf |-> 1]
    /\ tasks = <<>>
    /\ running = 1 /\ before = 1
    /\ up = TRUE /\ timers = {}
    /\ tx = [a \in Actor |-> Idle]
    /\ last = 0 /\ answers = 0 /\ faults = 0
    /\ vouched = 1 /\ stood = {1} /\ astray = {}

UpdateStep(c) == LockForUpdate(c) \/ WriteUpdate(c) \/ CommitUpdate(c) \/ Schedule(c)

AnswerStep(c) == LockSetting(c) \/ CommitConfirm(c)

RevertStep(a) == LockForRevert(a) \/ PushRevert(a) \/ CommitRevert(a) \/ SkipRevert(a)

Next ==
    \/ \E c \in Client : \/ BeginUpdate(c) \/ UpdateStep(c) \/ UpdateFails(c)
                         \/ BeginAnswer(c) \/ AnswerStep(c)
    \/ \E a \in Actor : RevertStep(a) \/ RevertFails(a) \/ Deadlock(a) \/ Abort(a)
    \/ \E t \in Trials : ClaimByWorker(t) \/ TimerFires(t) \/ TimePasses(t)
    \/ Crash \/ Restart \/ SwarmRollsBack

Spec == Init /\ [][Next]_vars

ClientStep(c) == UpdateStep(c) \/ AnswerStep(c) \/ RevertStep(c)

Reverter(t) == ClaimByWorker(t) \/ TimerFires(t)

\* Transactions go on, a client's whenever it is given the rows it waits for;
\* time does, and the main app comes back. It is the worker or a timer that acts
\* at a deadline, whichever is there and finds the task unlocked.
Fairness ==
    /\ \A c \in Client : SF_vars(ClientStep(c))
    /\ WF_vars(RevertStep(Worker)) /\ WF_vars(RevertStep(Timer))
    /\ WF_vars(\E a \in Actor : Deadlock(a)) /\ WF_vars(\E c \in Client : Deadlock(c))
    /\ \A t \in 1..MaxChanges : /\ WF_vars(t \in Trials /\ TimePasses(t))
                                /\ SF_vars(t \in Trials /\ Reverter(t))
    /\ WF_vars(Restart)

FairSpec == Spec /\ Fairness

-----------------------------------------------------------------------------
TypeOK ==
    /\ kind \in Kinds
    /\ setting \in Row
    /\ tasks \in Seq(Task) /\ Len(tasks) <= last
    /\ {running, before, vouched} \subseteq Config
    /\ up \in BOOLEAN
    /\ timers \subseteq Trials
    /\ tx \in [Actor -> Tx]
    /\ \A a \in Actor : tx[a].task = 0 \/ tx[a].task \in Trials
    /\ last \in 0..MaxChanges /\ answers \in 0..MaxAnswers /\ faults \in 0..MaxFaults
    /\ {stood, astray} \subseteq SUBSET Config

\* What the cluster runs has been stood by, or a trial in force, or an update on its
\* way, is to decide on it. Otherwise a change that may have locked everyone out
\* stays, with nothing left to undo it.
LiveIsVouchedOrOnTrial ==
    \/ running \in stood
    \/ \E t \in Trials : OnTrial(t) /\ tasks[t].ver = setting.ver
    \/ \E a \in Actor : tx[a].op = "update" /\ running = tx[a].conf

\* So it is, but for the configurations left in the ways that are known.
LiveIsVouchedOnTrialOrAstray == LiveIsVouchedOrOnTrial \/ running \in astray

\* What a pending trial restores is what somebody last stood by, however many
\* changes were made on top of each other without; or one of those configurations.
FallsBackToVouched ==
    kind # "routing" => \A t \in NotStarted : tasks[t].snap = vouched \/ tasks[t].snap \in astray

\* A trial is settled once. Only a revert that was asked for, before it knew of
\* the confirmation, undoes a change that was confirmed.
SettledOnce ==
    [][\A t \in Trials : ~OnTrial(t) /\ tasks'[t].status # tasks[t].status =>
          \E c \in Client : tx[c].op = "revertNow" /\ tx[c].task = t]_vars

\* No trial goes on for good: with the main app down at the deadline, with the
\* worker and the timer both at it, or transactions ended by the database.
TrialsEnd == []<>(\A t \in Trials : ~OnTrial(t))
=============================================================================
