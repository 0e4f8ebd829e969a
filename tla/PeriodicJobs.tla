---------------------------- MODULE PeriodicJobs ----------------------------
(***************************************************************************)
(* Periodic jobs (tasks/queue/queueimpl/queue_periodic.go): health checks  *)
(* and autoscaling, on intervals of seconds to days, run by whichever      *)
(* worker finds them due.                                                  *)
(*                                                                         *)
(* The schedule is a sorted set in redis, of when each job runs next, read *)
(* and written by every worker without a lock. Each worker has a cache of  *)
(* the active jobs, read from the database now and then, and when an event *)
(* says they have changed. A run goes in the background, under a lock of   *)
(* its job in redis that expires.                                          *)
(*                                                                         *)
(* All times are relative: how long until a job is due, a lock expires, a  *)
(* run must have ended. So time needs no bound.                            *)
(***************************************************************************)
EXTENDS Integers, FiniteSets

CONSTANTS
    Job,
    Others,         \* whether jobs beside these are active: every cache has them
    Worker,
    Slot,           \* periodicRunSlots: how many runs of a worker go at once
    None,           \* not active, not scheduled, no run, no cache
    Interval,       \* the intervals a job may have
    Hash,           \* stringHash of each job's id
    Timeout,        \* resolveTaskTimeout of each job
    LockTTL,        \* periodicLockTTL
    LockMargin,     \* periodicLockMargin
    Overrun,        \* how long past its timeout a run may keep its lock
    ReloadEvery,    \* cachePeriodicSettingsExp
    MaxWaiting,     \* bound: the runs of a job that wait in a worker
    MaxChanges,     \* bound: changes of jobs
    MaxFaults       \* bound: calls that fail, lost events, restarts

MaxOf(S) == CHOOSE x \in S : \A y \in S : y <= x

ASSUME PeriodicAssumption ==
    /\ IsFiniteSet(Job) /\ Others \in BOOLEAN /\ None \notin Int
    /\ Interval \subseteq Nat
    /\ \E i \in Interval : i > 0 /\ \A k \in Interval : k <= i
    /\ Hash \in [Job -> Nat] /\ Timeout \in [Job -> Nat \ {0}]
    /\ LockTTL \in Nat \ {0} /\ LockMargin \in Nat \ {0} /\ Overrun \in Nat
    /\ ReloadEvery \in Nat \ {0} /\ MaxWaiting \in Nat \ {0}
    /\ MaxChanges \in Nat /\ MaxFaults \in Nat

VARIABLES
    db,         \* each job's interval in the database, or None: not active
    edit,       \* the change about to be committed, its event published
    schedule,   \* the sorted set: how long until each job is due, or None
    lock,       \* how long until each job's lock expires; 0: not locked
    cache,      \* a worker's periodicCache, or None
    age,        \* how long ago it was loaded
    event,      \* whether an event waits in its periodicReloadChan
    at,         \* where its round is
    read,       \* the jobs it has read
    taken,      \* the due jobs it has read,
    plan,       \* and when each is to run next; None: it is to be removed
    waiting,    \* how many runs of each job wait for a slot
    run,        \* the run in each slot
    changes, faults

round == <<at, read, taken, plan>>
runs == <<waiting, run>>
bounds == <<changes, faults>>
vars == <<db, edit, schedule, lock, cache, age, event, round, runs, bounds>>

MaxInterval == MaxOf(Interval)

\* How long until something; what is past is past.
Until == (-MaxInterval)..MaxInterval

Jobs == [Job -> Interval \cup {None}]

Nothing == [j \in Job |-> None]

Later(t) == IF t = None \/ t = -MaxInterval THEN t ELSE t - 1

Fault == faults < MaxFaults /\ faults' = faults + 1

NoFault == UNCHANGED faults

-----------------------------------------------------------------------------
Init ==
    /\ db \in Jobs
    /\ edit = None
    /\ schedule = Nothing
    /\ lock = [j \in Job |-> 0]
    /\ cache = [w \in Worker |-> None]
    /\ age = [w \in Worker |-> 0]
    /\ event = [w \in Worker |-> FALSE]
    /\ at = [w \in Worker |-> "idle"]
    /\ read = [w \in Worker |-> None]
    /\ taken = [w \in Worker |-> {}]
    /\ plan = [w \in Worker |-> Nothing]
    /\ waiting = [w \in Worker |-> [j \in Job |-> 0]]
    /\ run = [w \in Worker |-> [s \in Slot |-> None]]
    /\ changes = 0 /\ faults = 0

\* Time goes on, but not past the time a run must have ended by.
Tick ==
    /\ \A w \in Worker, s \in Slot : run[w][s] # None => run[w][s].left > 0
    /\ schedule' = [j \in Job |-> Later(schedule[j])]
    /\ lock' = [j \in Job |-> IF lock[j] > 0 THEN lock[j] - 1 ELSE 0]
    /\ age' = [w \in Worker |-> IF age[w] < ReloadEvery THEN age[w] + 1 ELSE age[w]]
    /\ plan' = [w \in Worker |-> [j \in Job |-> Later(plan[w][j])]]
    /\ run' = [w \in Worker |-> [s \in Slot |->
                 IF run[w][s] = None THEN None ELSE [run[w][s] EXCEPT !.left = @ - 1]]]
    /\ UNCHANGED <<db, edit, cache, event, at, read, taken, waiting, bounds>>

-----------------------------------------------------------------------------
(* A change of a job: its event goes out from inside the transaction, to the   *)
(* workers that are there to receive it, and it is committed after that.       *)

PublishChange(j) ==
    /\ edit = None /\ changes < MaxChanges
    /\ changes' = changes + 1
    /\ \E i \in Interval \cup {None} : i # db[j] /\ edit' = [db EXCEPT ![j] = i]
    /\ \E reached \in SUBSET Worker :
         /\ event' = [w \in Worker |-> event[w] \/ w \in reached]
         /\ IF reached = Worker THEN NoFault ELSE Fault
    /\ UNCHANGED <<db, schedule, lock, cache, age, round, runs>>

CommitChange ==
    /\ edit # None
    /\ db' = edit /\ edit' = None
    /\ UNCHANGED <<schedule, lock, cache, age, event, round, runs, bounds>>

-----------------------------------------------------------------------------
(* A round (doPeriodicJob): the cache is loaded again if need be, the jobs due *)
(* are read, scheduled for their next runs, and started in the background.     *)

NeedReload(w) == cache[w] = None \/ age[w] = ReloadEvery \/ event[w]

\* loadPeriodicJobDataFromDB: the active jobs are read. The events are taken
\* first, and are gone if the reading fails.
ReadJobs(w) ==
    /\ at[w] = "idle" /\ NeedReload(w)
    /\ event' = [event EXCEPT ![w] = FALSE]
    /\ \/ /\ NoFault
          /\ read' = [read EXCEPT ![w] = db]
          /\ at' = [at EXCEPT ![w] = "put"]
       \/ Fault /\ UNCHANGED <<read, at>>
    /\ UNCHANGED <<db, edit, schedule, lock, cache, age, taken, plan, runs, changes>>

\* Faulty: the slot is not within the interval.
SlotAnywhere(j, interval) == Hash[j] + interval

\* A slot within the interval, the jobs spread over it.
SlotOf(j, interval) == Hash[j] % interval

IntervalOf(jobs, j) == IF jobs = None \/ jobs[j] = None THEN 0 ELSE jobs[j]

\* The jobs whose interval is not the one the cache has.
Changed(w) ==
    {j \in Job : /\ IntervalOf(read[w], j) > 0
                 /\ IntervalOf(cache[w], j) \notin {0, IntervalOf(read[w], j)}}

\* Faulty: a reload gives every job a new slot.
GivenSlotAlways(w) == {j \in Job : IntervalOf(read[w], j) > 0}

\* A job is given a slot when it is not in the schedule, or its interval changed.
GivenSlot(w) ==
    {j \in Job : IntervalOf(read[w], j) > 0 /\ schedule[j] = None} \cup Changed(w)

\* The slots are written, in two calls of which one may fail, and the cache is
\* the jobs read.
PutSlots(w) ==
    /\ at[w] = "put"
    /\ \E put \in {GivenSlot(w), GivenSlot(w) \ Changed(w), {}} :
         /\ schedule' = [j \in Job |-> IF j \in put THEN SlotOf(j, read[w][j]) ELSE schedule[j]]
         /\ \/ /\ NoFault
               /\ put = GivenSlot(w)
               /\ cache' = [cache EXCEPT ![w] = read[w]]
               /\ age' = [age EXCEPT ![w] = 0]
               /\ at' = [at EXCEPT ![w] = "get"]
            \/ /\ Fault
               /\ at' = [at EXCEPT ![w] = "idle"]
               /\ UNCHANGED <<cache, age>>
    /\ read' = [read EXCEPT ![w] = None]
    /\ UNCHANGED <<db, edit, lock, event, taken, plan, runs, changes>>

\* GetDueJobs. A batch holds a hundred: here, all of them.
DueJobs == {j \in Job : schedule[j] # None /\ schedule[j] <= 0}

\* An interval after it was due or, if that is past, an interval from now.
NextRunAfter(due, interval) == IF due + interval <= 0 THEN interval ELSE due + interval

\* What a round reads of them: nothing, if no job is active by its cache.
DueTo(w) == IF cache[w] = None \/ (cache[w] = Nothing /\ ~Others) THEN {} ELSE DueJobs

GetDueJobs(w) ==
    /\ \/ at[w] = "get"
       \/ at[w] = "idle" /\ ~NeedReload(w) /\ DueTo(w) # {}
    /\ taken' = [taken EXCEPT ![w] = DueTo(w)]
    /\ plan' = [plan EXCEPT ![w] = [j \in Job |->
         IF j \in DueTo(w) /\ IntervalOf(cache[w], j) > 0
         THEN NextRunAfter(schedule[j], cache[w][j]) ELSE None]]
    /\ at' = [at EXCEPT ![w] = IF DueTo(w) = {} THEN "idle" ELSE "move"]
    /\ UNCHANGED <<db, edit, schedule, lock, cache, age, event, read, runs, bounds>>

\* Faulty: a job that is not active stays in the schedule.
MovedAll(w) ==
    [j \in Job |-> IF j \in taken[w] /\ plan[w][j] # None THEN plan[w][j] ELSE schedule[j]]

\* What is to run next is written as it was planned; a job that is not in the
\* cache is removed.
Moved(w) == [j \in Job |-> IF j \in taken[w] THEN plan[w][j] ELSE schedule[j]]

\* The runs of the jobs moved are started.
StartMoved(w) ==
    waiting' = [waiting EXCEPT ![w] = [j \in Job |->
                   IF plan[w][j] # None /\ @[j] < MaxWaiting THEN @[j] + 1 ELSE @[j]]]

\* Those it would remove.
ToRemove(w) == {j \in taken[w] : plan[w][j] = None}

\* RemoveJob of those, a call each, whose failure is ignored: it is tried again when
\* the job is read again. ScheduleJobs of the others, in one call, and their runs
\* are started in the background. If that call fails, whether the jobs were
\* moved or not, none is.
MoveJobs(w) ==
    /\ at[w] = "move"
    /\ \/ /\ NoFault
          /\ schedule' = Moved(w)
          /\ StartMoved(w)
       \/ /\ Fault
          /\ \E kept \in SUBSET ToRemove(w) :
                schedule' = [j \in Job |-> IF j \in kept THEN schedule[j] ELSE Moved(w)[j]]
          /\ StartMoved(w)
       \/ /\ Fault
          /\ \/ schedule' = Moved(w)
             \/ schedule' = [j \in Job |-> IF j \in ToRemove(w) THEN None ELSE schedule[j]]
          /\ UNCHANGED waiting
    /\ at' = [at EXCEPT ![w] = "idle"]
    /\ taken' = [taken EXCEPT ![w] = {}] /\ plan' = [plan EXCEPT ![w] = Nothing]
    /\ UNCHANGED <<db, edit, lock, cache, age, event, read, run, changes>>

-----------------------------------------------------------------------------
(* A run (startPeriodicRun, doPeriodicTask). *)

\* Faulty: the lock does not know of the timeout.
LockExpShort(j) == LockTTL

\* The lock outlives the run's bound.
LockExp(j) == MaxOf({LockTTL, Timeout[j] + LockMargin})

\* A run takes a slot and the job's lock, or is over if another has it. The call
\* that locks may fail, the lock taken all the same.
StartRun(w, s, j) ==
    /\ waiting[w][j] > 0 /\ run[w][s] = None
    /\ waiting' = [waiting EXCEPT ![w][j] = @ - 1]
    /\ \/ /\ lock[j] = 0
          /\ NoFault
          /\ lock' = [lock EXCEPT ![j] = LockExp(j)]
          /\ run' = [run EXCEPT ![w][s] = [job |-> j, at |-> "run", left |-> Timeout[j]]]
       \/ /\ lock[j] > 0
          /\ NoFault
          /\ UNCHANGED <<lock, run>>
       \/ /\ Fault
          /\ lock' = [lock EXCEPT ![j] = IF @ = 0 THEN LockExp(j) ELSE @]
          /\ UNCHANGED run
    /\ UNCHANGED <<db, edit, schedule, cache, age, event, round, changes>>

\* The executor is done, at its timeout the latest. It has its task yet to save.
Ended(r) == [job |-> r.job, at |-> "release", left |-> r.left + Overrun]

EndRun(w, s) ==
    /\ run[w][s] # None /\ run[w][s].at = "run"
    /\ run' = [run EXCEPT ![w][s] = Ended(@)]
    /\ UNCHANGED <<db, edit, schedule, lock, cache, age, event, round, waiting, bounds>>

\* The lock is deleted by its key, whoever has it by now.
ReleaseLock(w, s) ==
    /\ run[w][s] # None /\ run[w][s].at = "release"
    /\ lock' = [lock EXCEPT ![run[w][s].job] = 0]
    /\ run' = [run EXCEPT ![w][s] = None]
    /\ UNCHANGED <<db, edit, schedule, cache, age, event, round, waiting, bounds>>

-----------------------------------------------------------------------------
\* A worker's process dies, and starts again. Its locks stay.
Restart(w) ==
    /\ Fault
    /\ cache' = [cache EXCEPT ![w] = None] /\ age' = [age EXCEPT ![w] = 0]
    /\ event' = [event EXCEPT ![w] = FALSE]
    /\ at' = [at EXCEPT ![w] = "idle"] /\ read' = [read EXCEPT ![w] = None]
    /\ taken' = [taken EXCEPT ![w] = {}] /\ plan' = [plan EXCEPT ![w] = Nothing]
    /\ waiting' = [waiting EXCEPT ![w] = [j \in Job |-> 0]]
    /\ run' = [run EXCEPT ![w] = [s \in Slot |-> None]]
    /\ UNCHANGED <<db, edit, schedule, lock, changes>>

Round(w) == ReadJobs(w) \/ PutSlots(w) \/ GetDueJobs(w) \/ MoveJobs(w)

RunStep(w, s) == EndRun(w, s) \/ ReleaseLock(w, s)

Start(w, j) == \E s \in Slot : StartRun(w, s, j)

Next ==
    \/ Tick
    \/ \E j \in Job : PublishChange(j)
    \/ CommitChange
    \/ \E w \in Worker : Round(w) \/ Restart(w)
    \/ \E w \in Worker, j \in Job : Start(w, j)
    \/ \E w \in Worker, s \in Slot : RunStep(w, s)

Spec == Init /\ [][Next]_vars

\* Time goes on, a transaction ends, every worker has its rounds, and a
\* goroutine goes on.
FairSpec ==
    /\ Spec
    /\ WF_vars(Tick) /\ WF_vars(CommitChange)
    /\ \A w \in Worker : WF_vars(Round(w))
    /\ \A w \in Worker, j \in Job : WF_vars(Start(w, j))
    /\ \A w \in Worker, s \in Slot : WF_vars(RunStep(w, s))

-----------------------------------------------------------------------------
\* Every variable has its type.
TypeOK ==
    /\ db \in Jobs /\ edit \in Jobs \cup {None}
    /\ schedule \in [Job -> Until \cup {None}]
    /\ \A j \in Job : lock[j] \in 0..MaxOf({LockTTL, Timeout[j] + LockMargin})
    /\ cache \in [Worker -> Jobs \cup {None}] /\ read \in [Worker -> Jobs \cup {None}]
    /\ age \in [Worker -> 0..ReloadEvery] /\ event \in [Worker -> BOOLEAN]
    /\ at \in [Worker -> {"idle", "put", "get", "move"}]
    /\ taken \in [Worker -> SUBSET Job]
    /\ plan \in [Worker -> [Job -> Until \cup {None}]]
    /\ waiting \in [Worker -> [Job -> 0..MaxWaiting]]
    /\ \A w \in Worker, s \in Slot :
         \/ run[w][s] = None
         \/ /\ run[w][s].job \in Job /\ run[w][s].at \in {"run", "release"}
            /\ run[w][s].left \in 0..(Timeout[run[w][s].job] + Overrun)
    /\ changes \in 0..MaxChanges /\ faults \in 0..MaxFaults

Runs(j, w, s) == run[w][s] # None /\ run[w][s].job = j /\ run[w][s].at = "run"

Running(j) == {p \in Worker \X Slot : Runs(j, p[1], p[2])}

\* A job does not run twice at once, whichever workers find it due: "the lock
\* outlives the run's bound, so that no other worker starts the job while this
\* run may still be going". With Overrun short of LockMargin it holds; with a
\* run that saves its task or deletes its lock later than that it does not.
NoOverlap == \A j \in Job : Cardinality(Running(j)) <= 1

\* What a comment says of the cache: it is read again "when a setting they
\* depend on changes". A worker that has no event waiting, none lost, has the
\* jobs as the database has them. It does not hold: the event goes out before
\* the change is committed.
CacheFollowsChanges ==
    (edit = None /\ faults = 0) =>
        \A w \in Worker : (at[w] = "idle" /\ ~event[w] /\ cache[w] # None) => cache[w] = db

\* A job that stays active, on an interval, runs again and again, through
\* reloads, changes, restarts and lost events. A reload must not
\* push it on, and a worker that does not know it yet must not remove it for
\* good.
RunsAgainAndAgain ==
    \A j \in Job : <>[](IntervalOf(db, j) > 0) => []<>(Running(j) # {})

\* A job that stays off is not run any more, and leaves the schedule, though
\* workers that have not heard of it yet may put it back. The last job there was
\* stays in the schedule: nobody reads that any more.
OffIsForgotten ==
    \A j \in Job : <>[](IntervalOf(db, j) = 0) =>
        <>[](Running(j) = {} /\ (Others => schedule[j] = None))
=============================================================================
