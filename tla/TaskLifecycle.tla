--------------------------- MODULE TaskLifecycle ---------------------------
(***************************************************************************)
(* What the task queue promises of one task, whoever runs it and however   *)
(* its runs end: at any time it is held by at most one run or cancel, its  *)
(* retries and its failures are counted, and a task done or canceled stays *)
(* so. Module TaskExecution implements it.                                 *)
(***************************************************************************)
EXTENDS Naturals

CONSTANT MaxRetry   \* Task.Config.MaxRetry, as the task was created

VARIABLES
    task,   \* the task, as everyone sees it
    held    \* whether a run or a cancel has it

vars == <<task, held>>

Status == {"not_started", "failed", "done", "canceled"}

CanRun(t) == t.status = "not_started" \/ (t.status = "failed" /\ t.retry < t.max)

\* The retry a run of the task is.
Try(t) == IF t.status = "failed" THEN t.retry + 1 ELSE t.retry

Init ==
    /\ task = [status |-> "not_started", retry |-> 0, max |-> MaxRetry, fails |-> 0]
    /\ held = FALSE

Take ==
    /\ ~held
    /\ held' = TRUE
    /\ UNCHANGED task

\* What took the task is gone, or gave up: the task is as it was.
LetGo ==
    /\ held
    /\ held' = FALSE
    /\ UNCHANGED task

\* A run ends: done, canceled, failed, or with more to do. A failed one may
\* have used up the retries it had left.
Settle ==
    /\ held /\ CanRun(task)
    /\ held' = FALSE
    /\ \E s \in Status :
         \E m \in IF s = "failed" THEN {task.max, Try(task)} ELSE {task.max} :
            task' = [status |-> s, retry |-> Try(task), max |-> m,
                     fails |-> task.fails + (IF s = "failed" THEN 1 ELSE 0)]

\* The task is canceled without a run.
Cancel ==
    /\ held /\ task.status \in {"not_started", "failed"}
    /\ held' = FALSE
    /\ task' = [task EXCEPT !.status = "canceled"]

Next == Take \/ LetGo \/ Settle \/ Cancel

Spec == Init /\ [][Next]_vars
=============================================================================
