--------------------------- MODULE TaskExecution ---------------------------
(***************************************************************************)
(* One task of HivePaaS's task queue, run by the workers of a cluster:     *)
(* tasks/queue/queueimpl/queue_execution.go, and the cancelling of it      *)
(* (service/taskservice/taskserviceimpl/cancel_task.go).                   *)
(*                                                                         *)
(* The task is a row of the database. A run holds the row's lock (SELECT   *)
(* ... FOR UPDATE SKIP LOCKED) for as long as its work takes, so that the  *)
(* row itself never says "in progress": that is said by an entry in redis, *)
(* and a run is cancelled through a list in redis, which a goroutine of    *)
(* the run - its listener - reads with BLPOP. A listener outlives its run: *)
(* nothing wakes it from a BLPOP of seven seconds.                         *)
(*                                                                         *)
(* Which run happens when is left open here (module TaskScheduler): every  *)
(* worker scans the database for tasks to run, and any of them may fire.   *)
(***************************************************************************)
EXTENDS Integers

CONSTANTS
    Worker,        \* the worker processes
    Slot,          \* the goroutines a worker has for runs, by name
    Client,        \* the calls of CancelTask, each made once
    None,          \* no holder of the row, no row in hand, no data
    MaxRetry,      \* Task.Config.MaxRetry, as the task was created
    MaxSteps,      \* how often the work may ask to Continue
    MaxFaults      \* bound: crashes and failed calls to redis or the database

ASSUME ConstantsAssumption ==
    /\ MaxRetry \in Nat
    /\ MaxSteps \in Nat
    /\ MaxFaults \in Nat
    /\ None \notin (Worker \X Slot) \cup Client
    /\ (Worker \X Slot) \cap Client = {}

\* A run is known by the worker and the goroutine that make it.
Run == Worker \X Slot

WorkerOf(r) == r[1]

VARIABLES
    row,        \* the task's row, as committed
    lock,       \* who holds the row: a run, a client, or None
    active,     \* whether the job the task belongs to is turned on
    info,       \* the task's entry in redis: "none", "open", "disabled"
    ctrl,       \* how many cancel commands are in the task's list in redis
    pc,         \* where a run is
    staged,     \* the row as a run has it in hand, not committed, or None
    data,       \* the taskData a run and its listener share, or None
    listener,   \* where a run's listener is
    call,       \* where a client's call is, and its answer
    faults      \* how many faults have happened

vars == <<row, lock, active, info, ctrl, pc, staged, data, listener, call, faults>>

-----------------------------------------------------------------------------
(* The task. *)

Status == {"not_started", "failed", "done", "canceled"}

\* retry: Config.Retry; max: Config.MaxRetry; steps: how many steps the work
\* has left, from its args; fails: the runs that failed, Runs (AddRun).
\* ctl: whether it can be controlled, ~Config.ControlDisabled.
Row == [status : Status, retry : 0..MaxRetry, max : 0..MaxRetry,
        steps : 0..MaxSteps, fails : Nat, ctl : BOOLEAN]

CanCancel(t) == t.status = "not_started"

\* Faulty: one retry too many.
CanRetryOnceMore(t) == t.status = "failed" /\ t.max >= t.retry

CanRetry(t) == t.status = "failed" /\ t.max > t.retry

\* A task no run will ever be made of again.
Finished(t) == t.status \in {"done", "canceled"} \/ (t.status = "failed" /\ ~CanRetry(t))

\* Faulty: every run counts as a retry.
TakenAlwaysCounted(t) == [t EXCEPT !.retry = @ + 1]

\* What a run has in hand once it has the task: a failed one is on its next try.
Taken(t) == IF t.status = "failed" THEN [t EXCEPT !.retry = @ + 1] ELSE t

\* How the work ends: without an error, having asked to Continue or not, or
\* with one, having said that it is not to be retried or not.
Outcome == {"ok", "continue", "error", "final_error"}

Failed(t) == [t EXCEPT !.status = "failed", !.fails = @ + 1]

\* Faulty: an error that is not to be retried raises the retry to the limit.
SettleTaskRaisingRetry(t, wasCanceled, outcome) ==
    CASE wasCanceled              -> [t EXCEPT !.status = "canceled"]
      [] outcome = "error"       /\ ~wasCanceled -> Failed(t)
      [] outcome = "final_error" /\ ~wasCanceled -> [Failed(t) EXCEPT !.retry = t.max]
      [] outcome = "continue"    /\ ~wasCanceled -> [t EXCEPT !.status = "not_started", !.steps = @ - 1]
      [] outcome = "ok"          /\ ~wasCanceled -> [t EXCEPT !.status = "done"]

\* settleTask: where a run leaves its task.
SettleTask(t, wasCanceled, outcome) ==
    CASE wasCanceled              -> [t EXCEPT !.status = "canceled"]
      [] outcome = "error"       /\ ~wasCanceled -> Failed(t)
      [] outcome = "final_error" /\ ~wasCanceled -> [Failed(t) EXCEPT !.max = t.retry]
      [] outcome = "continue"    /\ ~wasCanceled -> [t EXCEPT !.status = "not_started", !.steps = @ - 1]
      [] outcome = "ok"          /\ ~wasCanceled -> [t EXCEPT !.status = "done"]

-----------------------------------------------------------------------------
Init ==
    /\ row \in {[status |-> "not_started", retry |-> 0, max |-> MaxRetry,
                 steps |-> MaxSteps, fails |-> 0, ctl |-> c] : c \in BOOLEAN}
    /\ lock = None
    /\ active = TRUE
    /\ info = "none"
    /\ ctrl = 0
    /\ pc = [r \in Run |-> "idle"]
    /\ staged = [r \in Run |-> None]
    /\ data = [r \in Run |-> None]
    /\ listener = [r \in Run |-> "off"]
    /\ call = [c \in Client |-> "not_made"]
    /\ faults = 0

Fault == faults < MaxFaults /\ faults' = faults + 1

(* A run, in the order of executeTask. *)

\* Faulty: a row another holds is not skipped.
LockTaskHeld(r) ==
    /\ pc[r] = "idle" /\ listener[r] = "off"
    /\ row.status \in {"not_started", "failed"}
    /\ lock' = r

\* Faulty: a task is taken whatever its status.
LockTaskAnyStatus(r) ==
    /\ pc[r] = "idle" /\ listener[r] = "off"
    /\ lock = None
    /\ lock' = r

\* Faulty: a failed task is not taken again.
LockTaskNotFailed(r) ==
    /\ pc[r] = "idle" /\ listener[r] = "off"
    /\ lock = None
    /\ row.status = "not_started"
    /\ lock' = r

\* The row of a task that can run is read and locked, by a goroutine whose
\* last run is over, its listener too. A row another holds is skipped.
LockTask(r) ==
    /\ pc[r] = "idle" /\ listener[r] = "off"
    /\ lock = None
    /\ row.status \in {"not_started", "failed"}
    /\ lock' = r

\* The transaction of a run is over; its data is the listener's, if anyone's.
EndTx(r) ==
    /\ lock' = None
    /\ pc' = [pc EXCEPT ![r] = "idle"]
    /\ staged' = [staged EXCEPT ![r] = None]
    /\ data' = [data EXCEPT ![r] = IF listener[r] = "off" THEN None ELSE [@ EXCEPT !.over = TRUE]]

\* loadTask finds the task's job turned off: the task is canceled with it.
LoadInactive(r) ==
    /\ LockTask(r)
    /\ ~active
    /\ staged' = [staged EXCEPT ![r] = [row EXCEPT !.status = "canceled"]]
    /\ pc' = [pc EXCEPT ![r] = "commit"]
    /\ UNCHANGED <<row, active, info, ctrl, data, listener, call, faults>>

\* loadTask finds a task to run, and the run's listener is started. A failed
\* task with no retry left is left alone, which changes nothing.
Load(r) ==
    /\ LockTask(r)
    /\ active
    /\ row.status = "failed" => CanRetry(row)
    /\ staged' = [staged EXCEPT ![r] = Taken(row)]
    /\ data' = [data EXCEPT ![r] = [canceled |-> FALSE, done |-> FALSE, over |-> FALSE]]
    /\ listener' = [listener EXCEPT ![r] = IF row.ctl THEN "check" ELSE "off"]
    /\ pc' = [pc EXCEPT ![r] = "set_info"]
    /\ UNCHANGED <<row, active, info, ctrl, call, faults>>

\* Faulty: the entry does not say that the task cannot be controlled.
SetInfoOpen(r) ==
    /\ pc[r] = "set_info"
    /\ info' = "open"
    /\ pc' = [pc EXCEPT ![r] = "exec"]
    /\ UNCHANGED <<row, lock, active, ctrl, staged, data, listener, call, faults>>

\* The task is marked in progress in redis.
SetInfo(r) ==
    /\ pc[r] = "set_info"
    /\ info' = IF staged[r].ctl THEN "open" ELSE "disabled"
    /\ pc' = [pc EXCEPT ![r] = "exec"]
    /\ UNCHANGED <<row, lock, active, ctrl, staged, data, listener, call, faults>>

\* Redis does not answer: the transaction is rolled back, nothing settled.
SetInfoFails(r) ==
    /\ pc[r] = "set_info"
    /\ Fault
    /\ EndTx(r)
    /\ UNCHANGED <<row, active, info, ctrl, listener, call>>

\* The run's time is up. Its work has yet to notice.
TimeOut(r) ==
    /\ pc[r] = "exec" /\ ~data[r].over
    /\ data' = [data EXCEPT ![r].over = TRUE]
    /\ UNCHANGED <<row, lock, active, info, ctrl, pc, staged, listener, call, faults>>

\* The work returns, or panics, and the task is settled.
Finish(r) ==
    /\ pc[r] = "exec"
    /\ \E outcome \in Outcome :
         /\ outcome = "continue" => staged[r].steps > 0
         /\ staged' = [staged EXCEPT ![r] = SettleTask(staged[r], data[r].canceled, outcome)]
    /\ data' = [data EXCEPT ![r].done = TRUE]
    /\ pc' = [pc EXCEPT ![r] = "del_info"]
    /\ UNCHANGED <<row, lock, active, info, ctrl, listener, call, faults>>

\* The entry in redis is deleted, an error ignored; the row is updated next.
DelInfo(r) ==
    /\ pc[r] = "del_info"
    /\ \/ info' = "none" /\ UNCHANGED faults
       \/ Fault /\ UNCHANGED info
    /\ pc' = [pc EXCEPT ![r] = "commit"]
    /\ UNCHANGED <<row, lock, active, ctrl, staged, data, listener, call>>

Commit(r) ==
    /\ pc[r] = "commit"
    /\ row' = staged[r]
    /\ EndTx(r)
    /\ UNCHANGED <<active, info, ctrl, listener, call, faults>>

\* The update or the commit fails: what the run did to the row is undone.
Rollback(r) ==
    /\ pc[r] = "commit"
    /\ Fault
    /\ EndTx(r)
    /\ UNCHANGED <<row, active, info, ctrl, listener, call>>

-----------------------------------------------------------------------------
(* A run's listener: taskControlCheck. *)

\* Faulty: only a cancel ends the loop.
ListenerCheckCancelOnly(r) ==
    /\ listener[r] = "check"
    /\ listener' = [listener EXCEPT ![r] = IF data[r].canceled THEN "leave" ELSE "wait"]
    /\ UNCHANGED <<row, lock, active, info, ctrl, pc, staged, data, call, faults>>

\* The loop's condition: over, or another wait for a command.
ListenerCheck(r) ==
    /\ listener[r] = "check"
    /\ listener' = [listener EXCEPT ![r] =
           IF data[r].done \/ data[r].canceled \/ data[r].over THEN "leave" ELSE "wait"]
    /\ UNCHANGED <<row, lock, active, info, ctrl, pc, staged, data, call, faults>>

\* BLPOP hands a command to this listener, whether its run goes on or not. The
\* run is canceled, and so is its context: no executor makes its task one that
\* is not cancelable.
ListenerPop(r) ==
    /\ listener[r] = "wait"
    /\ ctrl > 0
    /\ ctrl' = ctrl - 1
    /\ data' = [data EXCEPT ![r].canceled = TRUE, ![r].over = TRUE]
    /\ listener' = [listener EXCEPT ![r] = "leave"]
    /\ UNCHANGED <<row, lock, active, info, pc, staged, call, faults>>

\* BLPOP returns with nothing.
ListenerTimeOut(r) ==
    /\ listener[r] = "wait"
    /\ listener' = [listener EXCEPT ![r] = "check"]
    /\ UNCHANGED <<row, lock, active, info, ctrl, pc, staged, data, call, faults>>

\* The list is deleted on the way out, in the run's context: not, if that is
\* over, as the client of redis takes no call in such a context.
ListenerLeave(r) ==
    /\ listener[r] = "leave"
    /\ ctrl' = IF data[r].over THEN ctrl ELSE 0
    /\ listener' = [listener EXCEPT ![r] = "off"]
    /\ data' = [data EXCEPT ![r] = IF pc[r] = "idle" THEN None ELSE @]
    /\ UNCHANGED <<row, lock, active, info, pc, staged, call, faults>>

-----------------------------------------------------------------------------
(* A client's call of CancelTask. *)

Answer(c, a) == call' = [call EXCEPT ![c] = a]

\* Faulty: the row is read, and not locked.
CancelTaskUnlocked(c) ==
    /\ call[c] = "not_made"
    /\ \/ lock = None /\ CanCancel(row) /\ Answer(c, "locked")
       \/ lock = None /\ ~CanCancel(row) /\ Answer(c, "refused")
       \/ lock # None /\ Answer(c, "in_progress")
    /\ UNCHANGED <<row, lock, active, info, ctrl, pc, staged, data, listener, faults>>

\* The row is read for update: a row nobody holds is canceled if it waits to
\* run, and refused otherwise; one that is held is looked for in redis.
CancelTask(c) ==
    /\ call[c] = "not_made"
    /\ \/ /\ lock = None /\ CanCancel(row)
          /\ lock' = c
          /\ Answer(c, "locked")
       \/ /\ lock = None /\ ~CanCancel(row)
          /\ Answer(c, "refused")
          /\ UNCHANGED lock
       \/ /\ lock # None
          /\ Answer(c, "in_progress")
          /\ UNCHANGED lock
    /\ UNCHANGED <<row, active, info, ctrl, pc, staged, data, listener, faults>>

CommitCancel(c) ==
    /\ call[c] = "locked"
    /\ row' = [row EXCEPT !.status = "canceled"]
    /\ lock' = None
    /\ Answer(c, "canceled")
    /\ UNCHANGED <<active, info, ctrl, pc, staged, data, listener, faults>>

\* The record of the cancel cannot be written, or the process goes.
RollbackCancel(c) ==
    /\ call[c] = "locked"
    /\ Fault
    /\ lock' = None
    /\ Answer(c, "refused")
    /\ UNCHANGED <<row, active, info, ctrl, pc, staged, data, listener>>

\* CancelInProgressTask: refused without an entry in redis, or by it.
CancelInProgressTask(c) ==
    /\ call[c] = "in_progress"
    /\ Answer(c, IF info = "open" THEN "pushing" ELSE "refused")
    /\ UNCHANGED <<row, lock, active, info, ctrl, pc, staged, data, listener, faults>>

\* The command is pushed, unless redis does not answer. A record of the cancel
\* that cannot be written then fails the call, and leaves the command there.
PushCancel(c) ==
    /\ call[c] = "pushing"
    /\ \/ ctrl' = ctrl + 1 /\ Answer(c, "sent") /\ UNCHANGED faults
       \/ Fault /\ ctrl' \in {ctrl, ctrl + 1} /\ Answer(c, "refused")
    /\ UNCHANGED <<row, lock, active, info, pc, staged, data, listener>>

-----------------------------------------------------------------------------
(* The surroundings. *)

\* A worker process dies. Its transactions are rolled back; redis keeps what
\* it has.
Crash(w) ==
    LET mine == {r \in Run : WorkerOf(r) = w}
        Lost(f, v) == [r \in Run |-> IF r \in mine THEN v ELSE f[r]]
    IN  /\ \E r \in mine : pc[r] # "idle" \/ listener[r] # "off"
        /\ Fault
        /\ pc' = Lost(pc, "idle")
        /\ staged' = Lost(staged, None)
        /\ data' = Lost(data, None)
        /\ listener' = Lost(listener, "off")
        /\ lock' = IF lock \in mine THEN None ELSE lock
        /\ UNCHANGED <<row, active, info, ctrl, call>>

\* A user turns the task's job off, or on again.
ToggleJob ==
    /\ active' = ~active
    /\ UNCHANGED <<row, lock, info, ctrl, pc, staged, data, listener, call, faults>>

-----------------------------------------------------------------------------
RunStep(r) ==
    \/ LoadInactive(r) \/ Load(r)
    \/ SetInfo(r) \/ SetInfoFails(r)
    \/ TimeOut(r) \/ Finish(r)
    \/ DelInfo(r) \/ Commit(r) \/ Rollback(r)

ListenerStep(r) ==
    ListenerCheck(r) \/ ListenerPop(r) \/ ListenerTimeOut(r) \/ ListenerLeave(r)

CallStep(c) ==
    \/ CancelTask(c) \/ CommitCancel(c) \/ RollbackCancel(c)
    \/ CancelInProgressTask(c) \/ PushCancel(c)

Next ==
    \/ \E r \in Run : RunStep(r) \/ ListenerStep(r)
    \/ \E c \in Client : CallStep(c)
    \/ \E w \in Worker : Crash(w)
    \/ ToggleJob

Spec == Init /\ [][Next]_vars

\* A run under way goes on to its end: its work ends by its timeout at the
\* latest. A listener's BLPOP returns. A call goes on once made. And a task
\* that can run is run: every worker scans for such tasks.
Fairness ==
    /\ \A r \in Run : /\ WF_vars(SetInfo(r)) /\ WF_vars(Finish(r))
                      /\ WF_vars(DelInfo(r)) /\ WF_vars(Commit(r))
                      /\ WF_vars(ListenerCheck(r)) /\ WF_vars(ListenerTimeOut(r))
                      /\ WF_vars(ListenerLeave(r))
    /\ \A c \in Client : /\ WF_vars(CommitCancel(c)) /\ WF_vars(CancelInProgressTask(c))
                         /\ WF_vars(PushCancel(c))
    /\ WF_vars(\E r \in Run : Load(r) \/ LoadInactive(r))

FairSpec == Spec /\ Fairness

-----------------------------------------------------------------------------
(* Properties. *)

\* Every variable has its type, and a run's data and row are there exactly as
\* long as the run, or its listener, may use them.
TypeOK ==
    /\ row \in Row
    /\ lock \in Run \cup Client \cup {None}
    /\ active \in BOOLEAN
    /\ info \in {"none", "open", "disabled"}
    /\ ctrl \in Nat
    /\ pc \in [Run -> {"idle", "set_info", "exec", "del_info", "commit"}]
    /\ staged \in [Run -> Row \cup {None}]
    /\ data \in [Run -> [canceled : BOOLEAN, done : BOOLEAN, over : BOOLEAN] \cup {None}]
    /\ listener \in [Run -> {"off", "check", "wait", "leave"}]
    /\ call \in [Client -> {"not_made", "locked", "in_progress", "pushing",
                            "canceled", "refused", "sent"}]
    /\ faults \in 0..MaxFaults

\* No two runs have the task in hand at once, on whichever workers, and none
\* while a cancel writes its row: what FOR UPDATE SKIP LOCKED is there for.
OneRunAtATime ==
    \A r \in Run : pc[r] # "idle" =>
        /\ lock = r
        /\ \A q \in Run \ {r} : pc[q] = "idle"
        /\ \A c \in Client : call[c] # "locked"

\* A task under way has its entry in redis, saying whether it can be
\* controlled: without it, CancelTask could neither lock nor reach it. The
\* entry survives the ends of earlier runs, of the others' too.
RunningIsReachable ==
    \A r \in Run : pc[r] = "exec" => info = IF row.ctl THEN "open" ELSE "disabled"

\* Each retry stands for a failure before it, over all workers and crashes:
\* a task fails at most once more than it may be retried.
FailuresAreCounted ==
    /\ row.fails - row.retry \in IF row.status = "failed" THEN {1}
                                 ELSE IF row.status = "canceled" THEN {0, 1} ELSE {0}
    /\ row.fails <= MaxRetry + 1

\* A client told that it canceled the task is told the truth for good: no run
\* that read the task before, or fires after, brings it back.
CanceledAnswerHolds ==
    \A c \in Client : call[c] = "canceled" => row.status = "canceled"

\* A task done or canceled stays as it is; one failed for good is at most
\* canceled, with its job turned off.
FinalStays ==
    [][/\ row.status \in {"done", "canceled"} => row' = row
       /\ Finished(row) => row' \in {row, [row EXCEPT !.status = "canceled"]}]_vars

\* Every run and every cancel leaves the task as TaskLifecycle says.
Lifecycle == INSTANCE TaskLifecycle
    WITH task <- [status |-> row.status, retry |-> row.retry, max |-> row.max, fails |-> row.fails],
         held <- (lock # None)

ImplementsLifecycle == Lifecycle!Spec

\* Whatever crashes and fails, and whoever cancels, the task ends for good.
EventuallyFinished == <>[]Finished(row)

\* No listener stays behind its run forever, waiting on the task's list.
ListenersEnd ==
    \A r \in Run : (pc[r] = "idle" /\ listener[r] # "off") ~> listener[r] = "off"

\* A cancel sent to a task is not lost while the task goes on: it is in the
\* task's list, or the work under way has been told. types.go says that a
\* cancel wins over Continue.
SentCancelArrives ==
    \A r \in Run : pc[r] = "exec" /\ (\E c \in Client : call[c] = "sent") =>
        ctrl > 0 \/ data[r].canceled
=============================================================================
