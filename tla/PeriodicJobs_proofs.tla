------------------------ MODULE PeriodicJobs_proofs ------------------------
(***************************************************************************)
(* Proofs about PeriodicJobs, for any jobs, workers, slots, timeouts,      *)
(* changes and faults: the lock in redis keeps the runs of a job apart as  *)
(* long as a run lets go of it within the margin.                          *)
(***************************************************************************)
EXTENDS PeriodicJobs, FiniteSetTheorems, TLAPS

\* What a slot holds.
RunType == [job : Job, at : {"run", "release"}, left : Nat]

LockType ==
    /\ lock \in [Job -> Nat]
    /\ run \in [Worker -> [Slot -> RunType \cup {None}]]

\* How long a run may still have its job's lock, at most.
MayHold(r) == IF r.at = "run" THEN r.left + Overrun ELSE r.left

\* The lock of a run outlives it.
LockOutlivesRun ==
    \A w \in Worker, s \in Slot :
       run[w][s] # None => lock[run[w][s].job] > MayHold(run[w][s])

\* A lock has one run.
OneHolder ==
    \A v, w \in Worker, r, s \in Slot :
       (run[v][r] # None /\ run[w][s] # None /\ run[v][r].job = run[w][s].job)
       => v = w /\ r = s

IInv == LockType /\ LockOutlivesRun /\ OneHolder

-----------------------------------------------------------------------------
\* MaxOf of two numbers is one of them, and no less than the other.
LEMMA MaxOfTwo ==
    ASSUME NEW a \in Nat, NEW b \in Nat
    PROVE  /\ MaxOf({a, b}) \in Nat
           /\ MaxOf({a, b}) >= a /\ MaxOf({a, b}) >= b
  <1>1. \E x \in {a, b} : \A y \in {a, b} : y <= x
    <2>1. CASE a <= b
      BY <2>1
    <2>2. CASE b <= a
      BY <2>2
    <2> QED
      BY <2>1, <2>2
  <1>2. MaxOf({a, b}) \in {a, b} /\ \A y \in {a, b} : y <= MaxOf({a, b})
    BY <1>1 DEF MaxOf
  <1> QED
    BY <1>2

\* A lock is taken for longer than its run may keep it (queue_periodic.go,
\* lockExp).
LEMMA LockExpOutlives ==
    ASSUME NEW j \in Job, Overrun < LockMargin
    PROVE  LockExp(j) \in Nat /\ LockExp(j) > Timeout[j] + Overrun
  <1>1. /\ Timeout[j] \in Nat /\ LockTTL \in Nat /\ LockMargin \in Nat /\ Overrun \in Nat
    BY PeriodicAssumption
  <1>2. Timeout[j] + LockMargin \in Nat
    BY <1>1
  <1> QED
    BY <1>1, <1>2, MaxOfTwo DEF LockExp

\* A run's time goes on.
LEMMA OlderRun ==
    ASSUME NEW r \in RunType, r.left > 0
    PROVE  LET older == [r EXCEPT !.left = @ - 1] IN
           /\ older \in RunType /\ older.job = r.job
           /\ MayHold(older) = MayHold(r) - 1
  <1>1. r.left - 1 \in Nat /\ Overrun \in Nat
    BY PeriodicAssumption DEF RunType
  <1>2. [r EXCEPT !.left = @ - 1] = [job |-> r.job, at |-> r.at, left |-> r.left - 1]
    BY DEF RunType
  <1> QED
    BY <1>1, <1>2 DEF RunType, MayHold

\* A run that has ended has its job's lock as long as was reckoned with.
LEMMA EndedRun ==
    ASSUME NEW r \in RunType, r.at = "run"
    PROVE  /\ Ended(r) \in RunType /\ Ended(r).job = r.job
           /\ MayHold(Ended(r)) = MayHold(r)
  <1>1. r.left + Overrun \in Nat /\ Overrun \in Nat
    BY PeriodicAssumption DEF RunType
  <1> QED
    BY <1>1 DEF Ended, RunType, MayHold

\* Steps that touch neither the locks nor the runs.
LEMMA SteadyKeeps ==
    ASSUME IInv, UNCHANGED <<lock, run>>
    PROVE  IInv'
  BY DEF IInv, LockType, LockOutlivesRun, OneHolder, MayHold

\* Time takes from a lock what it takes from its run.
LEMMA TickKeeps ==
    ASSUME IInv, Tick
    PROVE  IInv'
  <1> USE DEF IInv, LockType
  <1>0. Overrun \in Nat /\ None \notin Int
    BY PeriodicAssumption
  <1>1. ASSUME NEW j \in Job
        PROVE  /\ lock'[j] \in Nat
               /\ lock[j] > 0 => lock'[j] = lock[j] - 1
    BY DEF Tick
  <1>2. ASSUME NEW w \in Worker, NEW s \in Slot
        PROVE  /\ run[w][s] = None => run'[w][s] = None
               /\ run[w][s] # None =>
                     /\ run[w][s] \in RunType /\ run[w][s].left > 0
                     /\ run'[w][s] = [run[w][s] EXCEPT !.left = @ - 1]
    BY DEF Tick
  <1>3. ASSUME NEW w \in Worker, NEW s \in Slot, run[w][s] # None
        PROVE  /\ run'[w][s] \in RunType
               /\ run'[w][s].job = run[w][s].job
               /\ MayHold(run'[w][s]) = MayHold(run[w][s]) - 1
               /\ MayHold(run[w][s]) > 0 /\ MayHold(run[w][s]) \in Nat
    <2>1. run[w][s] \in RunType /\ run[w][s].left > 0
      BY <1>2, <1>3
    <2>2. MayHold(run[w][s]) > 0 /\ MayHold(run[w][s]) \in Nat
      BY <1>0, <2>1 DEF RunType, MayHold
    <2> QED
      BY <1>2, <1>3, <2>1, <2>2, OlderRun
  <1>4. LockType'
    <2>1. lock' \in [Job -> Nat]
      BY <1>1 DEF Tick
    <2>2. run' \in [Worker -> [Slot -> RunType \cup {None}]]
      BY <1>2, <1>3 DEF Tick
    <2> QED
      BY <2>1, <2>2
  <1>5. LockOutlivesRun'
    <2> SUFFICES ASSUME NEW w \in Worker, NEW s \in Slot, run'[w][s] # None
                 PROVE  lock'[run'[w][s].job] > MayHold(run'[w][s])
      BY DEF LockOutlivesRun, MayHold
    <2>1. run[w][s] # None /\ run[w][s].job \in Job
      BY <1>2 DEF RunType
    <2>2. lock[run[w][s].job] > MayHold(run[w][s]) /\ lock[run[w][s].job] \in Nat
      BY <2>1 DEF LockOutlivesRun
    <2> QED
      BY <2>1, <2>2, <1>1, <1>3
  <1>6. OneHolder'
    <2> SUFFICES ASSUME NEW v \in Worker, NEW w \in Worker, NEW r \in Slot, NEW s \in Slot,
                        run'[v][r] # None, run'[w][s] # None, run'[v][r].job = run'[w][s].job
                 PROVE  v = w /\ r = s
      BY DEF OneHolder
    <2>1. run[v][r] # None /\ run[w][s] # None
      BY <1>2
    <2> QED
      BY <2>1, <1>3 DEF OneHolder
  <1> QED
    BY <1>4, <1>5, <1>6

\* A run starts under the lock it has just taken; where the lock is another's,
\* or the call failed, nothing runs.
LEMMA StartKeeps ==
    ASSUME IInv, Overrun < LockMargin,
           NEW w \in Worker, NEW s \in Slot, NEW j \in Job, StartRun(w, s, j)
    PROVE  IInv'
  <1> USE DEF IInv, LockType
  <1>0. /\ Overrun \in Nat /\ Timeout[j] \in Nat
        /\ LockExp(j) \in Nat /\ LockExp(j) > Timeout[j] + Overrun
    BY PeriodicAssumption, LockExpOutlives
  <1>1. CASE UNCHANGED <<lock, run>>
    BY <1>1, SteadyKeeps
  <1>2. CASE /\ lock' = [lock EXCEPT ![j] = IF @ = 0 THEN LockExp(j) ELSE @]
             /\ UNCHANGED run
    <2>1. \A k \in Job : lock'[k] \in Nat /\ lock'[k] >= lock[k]
      BY <1>0, <1>2
    <2>2. LockType'
      BY <1>0, <1>2
    <2>3. LockOutlivesRun'
      <3> SUFFICES ASSUME NEW v \in Worker, NEW r \in Slot, run[v][r] # None
                   PROVE  lock'[run[v][r].job] > MayHold(run[v][r])
        BY <1>2 DEF LockOutlivesRun, MayHold
      <3>1. /\ run[v][r].job \in Job
            /\ MayHold(run[v][r]) \in Nat
            /\ lock[run[v][r].job] > MayHold(run[v][r])
        BY <1>0 DEF RunType, LockOutlivesRun, MayHold
      <3> QED
        BY <2>1, <3>1
    <2>4. OneHolder'
      BY <1>2 DEF OneHolder
    <2> QED
      BY <2>2, <2>3, <2>4
  <1>3. CASE /\ lock[j] = 0 /\ run[w][s] = None
             /\ lock' = [lock EXCEPT ![j] = LockExp(j)]
             /\ run' = [run EXCEPT ![w][s] = [job |-> j, at |-> "run", left |-> Timeout[j]]]
    <2> DEFINE started == [job |-> j, at |-> "run", left |-> Timeout[j]]
    <2>1. started \in RunType /\ MayHold(started) = Timeout[j] + Overrun /\ started.job = j
      BY <1>0 DEF RunType, MayHold
    <2>2. ASSUME NEW v \in Worker, NEW r \in Slot
          PROVE  run'[v][r] = IF v = w /\ r = s THEN started ELSE run[v][r]
      BY <1>3
    <2>3. ASSUME NEW v \in Worker, NEW r \in Slot, run[v][r] # None
          PROVE  /\ run[v][r].job \in Job /\ run[v][r].job # j
                 /\ lock[run[v][r].job] > MayHold(run[v][r])
      BY <1>0, <1>3, <2>3 DEF LockOutlivesRun, RunType, MayHold
    <2> HIDE DEF started
    <2>4. LockType'
      BY <1>0, <1>3, <2>1 DEF started
    <2>5. LockOutlivesRun'
      <3> SUFFICES ASSUME NEW v \in Worker, NEW r \in Slot, run'[v][r] # None
                   PROVE  lock'[run'[v][r].job] > MayHold(run'[v][r])
        BY DEF LockOutlivesRun, MayHold
      <3> QED
        BY <1>0, <1>3, <2>1, <2>2, <2>3
    <2>6. OneHolder'
      <3> SUFFICES ASSUME NEW v \in Worker, NEW u \in Worker, NEW r \in Slot, NEW t \in Slot,
                          run'[v][r] # None, run'[u][t] # None,
                          run'[v][r].job = run'[u][t].job
                   PROVE  v = u /\ r = t
        BY DEF OneHolder
      <3> QED
        BY <2>1, <2>2, <2>3 DEF OneHolder
    <2> QED
      BY <2>4, <2>5, <2>6
  <1> QED
    BY <1>1, <1>2, <1>3 DEF StartRun

\* A run that is done may keep its lock a while yet, as was reckoned with.
LEMMA EndKeeps ==
    ASSUME IInv, NEW w \in Worker, NEW s \in Slot, EndRun(w, s)
    PROVE  IInv'
  <1> USE DEF IInv, LockType
  <1> DEFINE ended == Ended(run[w][s])
  <1>1. run[w][s] \in RunType /\ run[w][s].at = "run" /\ run[w][s] # None
    BY DEF EndRun
  <1>2. ended \in RunType /\ ended.job = run[w][s].job /\ MayHold(ended) = MayHold(run[w][s])
    BY <1>1, EndedRun
  <1>3. ASSUME NEW v \in Worker, NEW r \in Slot
        PROVE  run'[v][r] = IF v = w /\ r = s THEN ended ELSE run[v][r]
    BY DEF EndRun
  <1> HIDE DEF ended
  <1>4. LockType'
    BY <1>2 DEF EndRun, ended
  <1>5. ASSUME NEW v \in Worker, NEW r \in Slot, run'[v][r] # None
        PROVE  /\ run[v][r] # None /\ run'[v][r].job = run[v][r].job
               /\ MayHold(run'[v][r]) = MayHold(run[v][r])
    BY <1>1, <1>2, <1>3, <1>5
  <1>6. LockOutlivesRun'
    <2> SUFFICES ASSUME NEW v \in Worker, NEW r \in Slot, run'[v][r] # None
                 PROVE  lock'[run'[v][r].job] > MayHold(run'[v][r])
      BY DEF LockOutlivesRun, MayHold
    <2>1. lock' = lock
      BY DEF EndRun
    <2> QED
      BY <1>5, <2>1 DEF LockOutlivesRun
  <1>7. OneHolder'
    BY <1>5 DEF OneHolder
  <1> QED
    BY <1>4, <1>6, <1>7

\* The lock a run deletes by its key is its own.
LEMMA ReleaseKeeps ==
    ASSUME IInv, NEW w \in Worker, NEW s \in Slot, ReleaseLock(w, s)
    PROVE  IInv'
  <1> USE DEF IInv, LockType
  <1>1. run[w][s] \in RunType /\ run[w][s] # None /\ run[w][s].job \in Job
    BY DEF ReleaseLock, RunType
  <1>2. ASSUME NEW v \in Worker, NEW r \in Slot
        PROVE  run'[v][r] = IF v = w /\ r = s THEN None ELSE run[v][r]
    BY <1>1 DEF ReleaseLock
  <1>3. ASSUME NEW v \in Worker, NEW r \in Slot, run'[v][r] # None
        PROVE  /\ run[v][r] # None /\ run'[v][r] = run[v][r]
               /\ run[v][r].job \in Job /\ run[v][r].job # run[w][s].job
    BY <1>1, <1>2, <1>3 DEF OneHolder, RunType
  <1>4. LockType'
    BY <1>1 DEF ReleaseLock
  <1>5. LockOutlivesRun'
    <2> SUFFICES ASSUME NEW v \in Worker, NEW r \in Slot, run'[v][r] # None
                 PROVE  lock'[run'[v][r].job] > MayHold(run'[v][r])
      BY DEF LockOutlivesRun, MayHold
    <2>1. lock'[run[v][r].job] = lock[run[v][r].job]
      BY <1>1, <1>3 DEF ReleaseLock
    <2> QED
      BY <1>3, <2>1 DEF LockOutlivesRun
  <1>6. OneHolder'
    BY <1>3 DEF OneHolder
  <1> QED
    BY <1>4, <1>5, <1>6

\* A restart ends runs, and leaves their locks to expire.
LEMMA RestartKeeps ==
    ASSUME IInv, NEW w \in Worker, Restart(w)
    PROVE  IInv'
  <1> USE DEF IInv, LockType
  <1>1. ASSUME NEW v \in Worker, NEW r \in Slot, run'[v][r] # None
        PROVE  run[v][r] # None /\ run'[v][r] = run[v][r]
    BY <1>1 DEF Restart
  <1>2. LockType' /\ lock' = lock
    BY DEF Restart
  <1>3. LockOutlivesRun'
    <2> SUFFICES ASSUME NEW v \in Worker, NEW r \in Slot, run'[v][r] # None
                 PROVE  lock'[run'[v][r].job] > MayHold(run'[v][r])
      BY DEF LockOutlivesRun, MayHold
    <2> QED
      BY <1>1, <1>2 DEF LockOutlivesRun
  <1>4. OneHolder'
    BY <1>1 DEF OneHolder
  <1> QED
    BY <1>2, <1>3, <1>4

-----------------------------------------------------------------------------
\* At first nothing is locked and nothing runs.
LEMMA InitIInv == Init => IInv
  BY DEF Init, IInv, LockType, LockOutlivesRun, OneHolder

\* Every step keeps the invariant, when a run that is over lets go in time.
LEMMA StepIInv ==
    ASSUME Overrun < LockMargin
    PROVE  IInv /\ [Next]_vars => IInv'
  <1> SUFFICES ASSUME IInv, [Next]_vars PROVE IInv'
    OBVIOUS
  <1>1. CASE Tick
    BY <1>1, TickKeeps
  <1>2. CASE CommitChange \/ \E j \in Job : PublishChange(j)
    BY <1>2, SteadyKeeps DEF CommitChange, PublishChange, runs
  <1>3. ASSUME NEW w \in Worker, Round(w)
        PROVE  IInv'
    BY <1>3, SteadyKeeps DEF Round, ReadJobs, PutSlots, GetDueJobs, MoveJobs, runs
  <1>4. ASSUME NEW w \in Worker, Restart(w)
        PROVE  IInv'
    BY <1>4, RestartKeeps
  <1>5. ASSUME NEW w \in Worker, NEW j \in Job, Start(w, j)
        PROVE  IInv'
    BY <1>5, StartKeeps DEF Start
  <1>6. ASSUME NEW w \in Worker, NEW s \in Slot, RunStep(w, s)
        PROVE  IInv'
    BY <1>6, EndKeeps, ReleaseKeeps DEF RunStep
  <1>7. CASE UNCHANGED vars
    BY <1>7, SteadyKeeps DEF vars, runs
  <1> QED
    BY <1>1, <1>2, <1>3, <1>4, <1>5, <1>6, <1>7 DEF Next

\* One run has the lock: no more than one is running.
LEMMA OneRunning == IInv => NoOverlap
  <1> SUFFICES ASSUME IInv, NEW j \in Job PROVE Cardinality(Running(j)) <= 1
    BY DEF NoOverlap
  <1>1. CASE Running(j) = {}
    BY <1>1, FS_EmptySet
  <1>2. ASSUME NEW p \in Running(j)
        PROVE  Cardinality(Running(j)) <= 1
    <2>1. Running(j) = {p}
      BY <1>2 DEF Running, Runs, IInv, OneHolder
    <2> QED
      BY <2>1, FS_Singleton
  <1> QED
    BY <1>1, <1>2

\* A job does not run twice at once, whichever workers find it due and however
\* their steps, their restarts and their failures interleave: the lock is taken
\* for the run's timeout and a margin, and is let go of within that margin.
THEOREM Exclusion ==
    ASSUME Overrun < LockMargin
    PROVE  Spec => []NoOverlap
  <1>1. Init => IInv
    BY InitIInv
  <1>2. IInv /\ [Next]_vars => IInv'
    BY StepIInv
  <1>3. IInv => NoOverlap
    BY OneRunning
  <1> QED
    BY <1>1, <1>2, <1>3, PTL DEF Spec

-----------------------------------------------------------------------------
(* Types. *)

\* What is not about locks and runs.
RestType ==
    /\ db \in Jobs /\ edit \in Jobs \cup {None}
    /\ schedule \in [Job -> Until \cup {None}]
    /\ cache \in [Worker -> Jobs \cup {None}] /\ read \in [Worker -> Jobs \cup {None}]
    /\ age \in [Worker -> 0..ReloadEvery] /\ event \in [Worker -> BOOLEAN]
    /\ at \in [Worker -> {"idle", "put", "get", "move"}]
    /\ taken \in [Worker -> SUBSET Job]
    /\ plan \in [Worker -> [Job -> Until \cup {None}]]
    /\ waiting \in [Worker -> [Job -> 0..MaxWaiting]]
    /\ changes \in 0..MaxChanges /\ faults \in 0..MaxFaults

\* How long a lock and a run may last.
LockBound == \A j \in Job : lock[j] \in 0..LockExp(j)

RunBound ==
    \A w \in Worker, s \in Slot :
       run[w][s] # None => MayHold(run[w][s]) <= Timeout[run[w][s].job] + Overrun

TypeInv == RestType /\ LockType /\ LockBound /\ RunBound

\* The longest interval is one of them.
LEMMA LongestInterval ==
    /\ MaxInterval \in Interval /\ MaxInterval \in Nat /\ MaxInterval > 0
    /\ \A i \in Interval : i <= MaxInterval
    /\ None \notin Until
  <1>1. PICK m \in Interval : m > 0 /\ \A i \in Interval : i <= m
    BY PeriodicAssumption
  <1>2. MaxInterval \in Interval /\ \A i \in Interval : i <= MaxInterval
    BY <1>1 DEF MaxInterval, MaxOf
  <1>3. MaxInterval \in Nat /\ m \in Nat
    BY <1>2, PeriodicAssumption
  <1> QED
    BY <1>1, <1>2, <1>3, PeriodicAssumption DEF Until

\* An interval that is above zero is one of those a job may have.
LEMMA IntervalThere ==
    ASSUME NEW jobs \in Jobs \cup {None}, NEW j \in Job, IntervalOf(jobs, j) > 0
    PROVE  /\ jobs # None /\ jobs[j] \in Interval
           /\ jobs[j] \in 1..MaxInterval /\ IntervalOf(jobs, j) = jobs[j]
  <1>1. jobs # None /\ jobs[j] # None /\ IntervalOf(jobs, j) = jobs[j]
    BY DEF IntervalOf
  <1>2. jobs[j] \in Interval
    BY <1>1 DEF Jobs
  <1>3. jobs[j] \in Nat /\ jobs[j] <= MaxInterval
    BY <1>2, LongestInterval, PeriodicAssumption
  <1> QED
    BY <1>1, <1>2, <1>3, LongestInterval

\* What is next after something due is within the longest interval.
LEMMA NextRunType ==
    ASSUME NEW due \in Until, due <= 0, NEW interval \in 1..MaxInterval
    PROVE  NextRunAfter(due, interval) \in Until
  BY LongestInterval DEF NextRunAfter, Until

\* A slot is within its interval.
LEMMA SlotType ==
    ASSUME NEW j \in Job, NEW interval \in 1..MaxInterval
    PROVE  SlotOf(j, interval) \in Until
  <1>1. Hash[j] \in Nat /\ interval \in Nat /\ interval > 0
    BY LongestInterval, PeriodicAssumption
  <1>2. Hash[j] % interval \in 0..(interval - 1)
    BY <1>1
  <1> QED
    BY <1>1, <1>2, LongestInterval DEF SlotOf, Until

\* What is later by one is not beyond what is looked at.
LEMMA LaterType ==
    ASSUME NEW t \in Until \cup {None}
    PROVE  Later(t) \in Until \cup {None}
  BY LongestInterval DEF Later, Until

\* A round's steps keep the types of the schedule and of what the round has read.
LEMMA RoundTypes ==
    ASSUME RestType, NEW w \in Worker, Round(w)
    PROVE  RestType'
  <1> USE DEF RestType
  <1>0. MaxFaults \in Nat /\ MaxWaiting \in Nat \ {0} /\ ReloadEvery \in Nat
    BY PeriodicAssumption
  <1>1. CASE ReadJobs(w)
    <2>1. event' \in [Worker -> BOOLEAN]
      BY <1>1 DEF ReadJobs
    <2>2. read' \in [Worker -> Jobs \cup {None}]
      BY <1>1 DEF ReadJobs
    <2>3. at' \in [Worker -> {"idle", "put", "get", "move"}]
      BY <1>1 DEF ReadJobs
    <2>4. faults' \in 0..MaxFaults
      BY <1>0, <1>1 DEF ReadJobs, Fault, NoFault
    <2> QED
      BY <1>1, <2>1, <2>2, <2>3, <2>4 DEF ReadJobs, runs
  <1>2. CASE PutSlots(w)
    <2>1. PICK put \in {GivenSlot(w), GivenSlot(w) \ Changed(w), {}} :
            /\ schedule' = [j \in Job |-> IF j \in put THEN SlotOf(j, read[w][j]) ELSE schedule[j]]
            /\ \/ /\ NoFault
                  /\ put = GivenSlot(w)
                  /\ cache' = [cache EXCEPT ![w] = read[w]]
                  /\ age' = [age EXCEPT ![w] = 0]
                  /\ at' = [at EXCEPT ![w] = "get"]
               \/ /\ Fault
                  /\ at' = [at EXCEPT ![w] = "idle"]
                  /\ UNCHANGED <<cache, age>>
      BY <1>2 DEF PutSlots
    <2>2. put \subseteq GivenSlot(w)
      OBVIOUS
    <2>3. ASSUME NEW j \in put
          PROVE  SlotOf(j, read[w][j]) \in Until
      <3>1. j \in Job /\ IntervalOf(read[w], j) > 0
        BY <2>2 DEF GivenSlot, Changed
      <3> QED
        BY <3>1, IntervalThere, SlotType
    <2>4. schedule' \in [Job -> Until \cup {None}]
      BY <2>1, <2>3
    <2>5. cache' \in [Worker -> Jobs \cup {None}]
      BY <2>1
    <2>6. age' \in [Worker -> 0..ReloadEvery]
      <3>1. age' = age \/ age' = [age EXCEPT ![w] = 0]
        BY <2>1
      <3>2. 0 \in 0..ReloadEvery
        BY <1>0
      <3> QED
        BY <3>1, <3>2
    <2>7. at' \in [Worker -> {"idle", "put", "get", "move"}]
      BY <2>1
    <2>8. faults' \in 0..MaxFaults
      BY <1>0, <2>1 DEF Fault, NoFault
    <2>9. read' \in [Worker -> Jobs \cup {None}]
      BY <1>2 DEF PutSlots
    <2> QED
      BY <1>2, <2>4, <2>5, <2>6, <2>7, <2>8, <2>9 DEF PutSlots, runs
  <1>3. CASE GetDueJobs(w)
    <2> DEFINE next(j) == IF j \in DueTo(w) /\ IntervalOf(cache[w], j) > 0
                          THEN NextRunAfter(schedule[j], cache[w][j]) ELSE None
    <2>1. ASSUME NEW j \in Job
          PROVE  next(j) \in Until \cup {None}
      <3>1. CASE j \in DueTo(w) /\ IntervalOf(cache[w], j) > 0
        <4>1. schedule[j] \in Until /\ schedule[j] <= 0
          BY <3>1 DEF DueTo, DueJobs
        <4> QED
          BY <3>1, <4>1, IntervalThere, NextRunType
      <3> QED
        BY <3>1
    <2>2. DueTo(w) \subseteq Job
      BY DEF DueTo, DueJobs
    <2>3. plan' = [plan EXCEPT ![w] = [j \in Job |-> next(j)]]
      BY <1>3 DEF GetDueJobs
    <2> HIDE DEF next
    <2>4. plan' \in [Worker -> [Job -> Until \cup {None}]]
      BY <2>1, <2>3
    <2>5. taken' \in [Worker -> SUBSET Job] /\ at' \in [Worker -> {"idle", "put", "get", "move"}]
      BY <1>3, <2>2 DEF GetDueJobs
    <2> QED
      BY <1>3, <2>4, <2>5 DEF GetDueJobs, runs, bounds
  <1>4. CASE MoveJobs(w)
    <2>1. schedule' \in [Job -> Until \cup {None}]
      <3>1. /\ schedule \in [Job -> Until \cup {None}]
            /\ plan[w] \in [Job -> Until \cup {None}]
        OBVIOUS
      <3>2. Moved(w) \in [Job -> Until \cup {None}]
        BY ONLY <3>1 DEF Moved
      <3>3. \/ schedule' = Moved(w)
            \/ schedule' = [j \in Job |-> IF j \in ToRemove(w) THEN None ELSE schedule[j]]
            \/ \E kept \in SUBSET ToRemove(w) :
                  schedule' = [j \in Job |-> IF j \in kept THEN schedule[j] ELSE Moved(w)[j]]
        BY ONLY <1>4 DEF MoveJobs
      <3> HIDE DEF Moved
      <3> QED
        BY ONLY <3>1, <3>2, <3>3
    <2> DEFINE more(j) == IF plan[w][j] # None /\ waiting[w][j] < MaxWaiting
                          THEN waiting[w][j] + 1 ELSE waiting[w][j]
    <2>2. waiting' \in [Worker -> [Job -> 0..MaxWaiting]]
      <3>1. \A j \in Job : more(j) \in 0..MaxWaiting
        BY <1>0
      <3>2. waiting' = waiting \/ waiting' = [waiting EXCEPT ![w] = [j \in Job |-> more(j)]]
        BY <1>4 DEF MoveJobs, StartMoved
      <3>3. waiting \in [Worker -> [Job -> 0..MaxWaiting]]
        OBVIOUS
      <3> HIDE DEF more
      <3> QED
        BY ONLY <3>1, <3>2, <3>3
    <2>3. plan' \in [Worker -> [Job -> Until \cup {None}]]
      BY <1>4 DEF MoveJobs, Nothing
    <2>4. faults' \in 0..MaxFaults
      BY <1>0, <1>4 DEF MoveJobs, Fault, NoFault
    <2> QED
      BY <1>4, <2>1, <2>2, <2>3, <2>4 DEF MoveJobs
  <1> QED
    BY <1>1, <1>2, <1>3, <1>4 DEF Round

\* So do the other steps.
LEMMA OtherTypes ==
    ASSUME RestType, [Next]_vars, \A w \in Worker : ~Round(w)
    PROVE  RestType'
  <1> USE DEF RestType
  <1>0. MaxFaults \in Nat /\ MaxChanges \in Nat /\ MaxWaiting \in Nat \ {0} /\ ReloadEvery \in Nat
    BY PeriodicAssumption
  <1>1. CASE Tick
    <2>1. schedule' \in [Job -> Until \cup {None}]
      BY <1>1, LaterType DEF Tick
    <2>2. plan' \in [Worker -> [Job -> Until \cup {None}]]
      BY <1>1, LaterType DEF Tick
    <2>3. age' \in [Worker -> 0..ReloadEvery]
      BY <1>0, <1>1 DEF Tick
    <2> QED
      BY <1>1, <2>1, <2>2, <2>3 DEF Tick, bounds
  <1>2. ASSUME NEW j \in Job, PublishChange(j)
        PROVE  RestType'
    <2>1. edit' \in Jobs \cup {None}
      BY <1>2 DEF PublishChange, Jobs
    <2>2. event' \in [Worker -> BOOLEAN] /\ faults' \in 0..MaxFaults
      BY <1>0, <1>2 DEF PublishChange, Fault, NoFault
    <2> QED
      BY <1>0, <1>2, <2>1, <2>2 DEF PublishChange, round, runs
  <1>3. CASE CommitChange
    BY <1>3 DEF CommitChange, round, runs, bounds
  <1>4. ASSUME NEW w \in Worker, Restart(w)
        PROVE  RestType'
    <2>1. plan' \in [Worker -> [Job -> Until \cup {None}]]
      BY <1>4 DEF Restart, Nothing
    <2>2. waiting' \in [Worker -> [Job -> 0..MaxWaiting]]
      BY <1>0, <1>4 DEF Restart
    <2> QED
      BY <1>0, <1>4, <2>1, <2>2 DEF Restart, Fault
  <1>5. ASSUME NEW w \in Worker, NEW s \in Slot, NEW j \in Job, StartRun(w, s, j)
        PROVE  RestType'
    <2>1. waiting[w][j] \in 1..MaxWaiting
      BY <1>0, <1>5 DEF StartRun
    <2>2. waiting' \in [Worker -> [Job -> 0..MaxWaiting]]
      BY <1>0, <1>5, <2>1 DEF StartRun
    <2>3. faults' \in 0..MaxFaults
      BY <1>0, <1>5 DEF StartRun, Fault, NoFault
    <2> QED
      BY <1>5, <2>2, <2>3 DEF StartRun, round
  <1>6. ASSUME NEW w \in Worker, NEW s \in Slot, RunStep(w, s)
        PROVE  RestType'
    BY <1>6 DEF RunStep, EndRun, ReleaseLock, round, bounds
  <1>7. CASE UNCHANGED vars
    BY <1>7 DEF vars, round, runs, bounds
  <1> QED
    BY <1>1, <1>2, <1>3, <1>4, <1>5, <1>6, <1>7 DEF Next, Start

\* Locks and runs keep to their types and times.
LEMMA LockTypes ==
    ASSUME LockType, LockBound, RunBound, [Next]_vars
    PROVE  LockType' /\ LockBound' /\ RunBound'
  <1> USE DEF LockType
  <1>0. /\ Overrun \in Nat /\ Timeout \in [Job -> Nat \ {0}]
        /\ \A j \in Job : LockExp(j) \in Nat
    <2>1. /\ Overrun \in Nat /\ Timeout \in [Job -> Nat \ {0}]
          /\ LockTTL \in Nat /\ LockMargin \in Nat
      BY PeriodicAssumption
    <2> QED
      BY <2>1, MaxOfTwo DEF LockExp
  <1>1. CASE Tick
    <2>1. ASSUME NEW j \in Job
          PROVE  lock'[j] \in 0..LockExp(j)
      BY <1>0, <1>1 DEF Tick, LockBound
    <2>2. ASSUME NEW w \in Worker, NEW s \in Slot, run'[w][s] # None
          PROVE  /\ run'[w][s] \in RunType
                 /\ MayHold(run'[w][s]) <= Timeout[run'[w][s].job] + Overrun
      <3>1. /\ run[w][s] # None /\ run[w][s] \in RunType /\ run[w][s].left > 0
            /\ run'[w][s] = [run[w][s] EXCEPT !.left = @ - 1]
        BY <1>1, <2>2 DEF Tick
      <3>2. MayHold(run[w][s]) <= Timeout[run[w][s].job] + Overrun
        BY <3>1 DEF RunBound
      <3>3. MayHold(run[w][s]) \in Nat /\ Timeout[run[w][s].job] \in Nat
        BY <1>0, <3>1 DEF MayHold, RunType
      <3> QED
        BY <1>0, <3>1, <3>2, <3>3, OlderRun
    <2>3. LockType'
      BY <1>0, <1>1, <2>1, <2>2 DEF Tick
    <2> QED
      BY <2>1, <2>2, <2>3 DEF LockBound, RunBound, MayHold
  <1>2. CASE UNCHANGED <<lock, run>>
    BY <1>2 DEF LockBound, RunBound, MayHold
  <1>3. ASSUME NEW w \in Worker, Restart(w)
        PROVE  LockType' /\ LockBound' /\ RunBound'
    <2>1. ASSUME NEW v \in Worker, NEW r \in Slot, run'[v][r] # None
          PROVE  run[v][r] # None /\ run'[v][r] = run[v][r]
      BY <1>3, <2>1 DEF Restart
    <2>2. LockType' /\ lock' = lock
      BY <1>3 DEF Restart
    <2>3. RunBound'
      <3> SUFFICES ASSUME NEW v \in Worker, NEW r \in Slot, run'[v][r] # None
                   PROVE  MayHold(run'[v][r]) <= Timeout[run'[v][r].job] + Overrun
        BY DEF RunBound, MayHold
      <3> QED
        BY <2>1 DEF RunBound
    <2> QED
      BY <2>2, <2>3 DEF LockBound
  <1>4. ASSUME NEW w \in Worker, NEW s \in Slot, NEW j \in Job, StartRun(w, s, j)
        PROVE  LockType' /\ LockBound' /\ RunBound'
    <2> DEFINE started == [job |-> j, at |-> "run", left |-> Timeout[j]]
    <2>1. LockExp(j) \in Nat
      BY <1>0
    <2>2. /\ lock' = lock \/ lock' = [lock EXCEPT ![j] = LockExp(j)]
          /\ run' = run \/ run' = [run EXCEPT ![w][s] = started]
      BY <1>4 DEF StartRun
    <2>3. started \in RunType /\ MayHold(started) = Timeout[started.job] + Overrun
      BY <1>0 DEF RunType, MayHold
    <2> HIDE DEF started
    <2>4. LockType'
      BY <2>1, <2>2, <2>3
    <2>5. LockBound'
      <3> SUFFICES ASSUME NEW k \in Job
                   PROVE  lock'[k] \in 0..LockExp(k)
        BY DEF LockBound
      <3> QED
        BY <2>1, <2>2 DEF LockBound
    <2>6. RunBound'
      <3> SUFFICES ASSUME NEW v \in Worker, NEW r \in Slot, run'[v][r] # None
                   PROVE  MayHold(run'[v][r]) <= Timeout[run'[v][r].job] + Overrun
        BY DEF RunBound, MayHold
      <3>1. run'[v][r] = started \/ run'[v][r] = run[v][r]
        BY <2>2
      <3>2. CASE run'[v][r] = started
        <4>1. MayHold(started) \in Nat
          BY <1>0, <2>3 DEF MayHold, RunType
        <4> QED
          BY <2>3, <3>2, <4>1
      <3> QED
        BY <3>1, <3>2 DEF RunBound
    <2> QED
      BY <2>4, <2>5, <2>6
  <1>5. ASSUME NEW w \in Worker, NEW s \in Slot, EndRun(w, s)
        PROVE  LockType' /\ LockBound' /\ RunBound'
    <2>1. run[w][s] \in RunType /\ run[w][s].at = "run" /\ run[w][s] # None
      BY <1>5 DEF EndRun
    <2>2. /\ Ended(run[w][s]) \in RunType /\ Ended(run[w][s]).job = run[w][s].job
          /\ MayHold(Ended(run[w][s])) = MayHold(run[w][s])
      BY <2>1, EndedRun
    <2>3. lock' = lock /\ run' = [run EXCEPT ![w][s] = Ended(run[w][s])]
      BY <1>5 DEF EndRun
    <2>4. LockType' /\ LockBound'
      BY <2>2, <2>3 DEF LockBound
    <2>5. RunBound'
      <3> SUFFICES ASSUME NEW v \in Worker, NEW r \in Slot, run'[v][r] # None
                   PROVE  MayHold(run'[v][r]) <= Timeout[run'[v][r].job] + Overrun
        BY DEF RunBound, MayHold
      <3>1. run'[v][r] = IF v = w /\ r = s THEN Ended(run[w][s]) ELSE run[v][r]
        BY <2>3
      <3> QED
        BY <2>1, <2>2, <3>1 DEF RunBound
    <2> QED
      BY <2>4, <2>5
  <1>6. ASSUME NEW w \in Worker, NEW s \in Slot, ReleaseLock(w, s)
        PROVE  LockType' /\ LockBound' /\ RunBound'
    <2>1. run[w][s] \in RunType /\ run[w][s].job \in Job
      BY <1>6 DEF ReleaseLock, RunType
    <2>2. /\ lock' = [lock EXCEPT ![run[w][s].job] = 0]
          /\ run' = [run EXCEPT ![w][s] = None]
      BY <1>6 DEF ReleaseLock
    <2>3. LockType'
      BY <2>1, <2>2
    <2>4. LockBound'
      <3> SUFFICES ASSUME NEW k \in Job
                   PROVE  lock'[k] \in 0..LockExp(k)
        BY DEF LockBound
      <3> QED
        BY <1>0, <2>1, <2>2 DEF LockBound
    <2>5. RunBound'
      <3> SUFFICES ASSUME NEW v \in Worker, NEW r \in Slot, run'[v][r] # None
                   PROVE  MayHold(run'[v][r]) <= Timeout[run'[v][r].job] + Overrun
        BY DEF RunBound, MayHold
      <3>1. run[v][r] # None /\ run'[v][r] = run[v][r]
        BY <2>2
      <3> QED
        BY <3>1 DEF RunBound
    <2> QED
      BY <2>3, <2>4, <2>5
  <1>7. ASSUME NEW w \in Worker, Round(w)
        PROVE  UNCHANGED <<lock, run>>
    BY <1>7 DEF Round, ReadJobs, PutSlots, GetDueJobs, MoveJobs, runs
  <1>8. ASSUME NEW j \in Job, PublishChange(j)
        PROVE  UNCHANGED <<lock, run>>
    BY <1>8 DEF PublishChange, runs
  <1>9. (CommitChange \/ UNCHANGED vars) => UNCHANGED <<lock, run>>
    BY DEF CommitChange, vars, runs
  <1> QED
    BY <1>1, <1>2, <1>3, <1>4, <1>5, <1>6, <1>7, <1>8, <1>9 DEF Next, Start, RunStep

\* The parts make up TypeOK.
LEMMA TypeInvOK == TypeInv => TypeOK
  <1> SUFFICES ASSUME TypeInv PROVE TypeOK
    OBVIOUS
  <1>1. \A j \in Job : lock[j] \in 0..MaxOf({LockTTL, Timeout[j] + LockMargin})
    BY DEF TypeInv, LockBound, LockExp
  <1>2. ASSUME NEW w \in Worker, NEW s \in Slot, run[w][s] # None
        PROVE  /\ run[w][s].job \in Job /\ run[w][s].at \in {"run", "release"}
               /\ run[w][s].left \in 0..(Timeout[run[w][s].job] + Overrun)
    <2>1. run[w][s] \in RunType
      BY <1>2 DEF TypeInv, LockType
    <2>2. MayHold(run[w][s]) <= Timeout[run[w][s].job] + Overrun
      BY <1>2 DEF TypeInv, RunBound
    <2>3. Overrun \in Nat /\ Timeout[run[w][s].job] \in Nat
      BY <2>1, PeriodicAssumption DEF RunType
    <2> QED
      BY <2>1, <2>2, <2>3 DEF RunType, MayHold
  <1> QED
    BY <1>1, <1>2 DEF TypeInv, RestType, TypeOK

\* Every variable keeps to its type: no time in the schedule is further off than
\* the longest interval, no lock lasts longer than it was taken for.
THEOREM TypeCorrect == Spec => []TypeOK
  <1>1. Init => TypeInv
    <2> SUFFICES ASSUME Init PROVE TypeInv
      OBVIOUS
    <2>0. /\ MaxFaults \in Nat /\ MaxChanges \in Nat /\ MaxWaiting \in Nat
          /\ ReloadEvery \in Nat /\ \A j \in Job : LockExp(j) \in Nat
      <3>1. /\ LockTTL \in Nat /\ LockMargin \in Nat /\ Timeout \in [Job -> Nat \ {0}]
            /\ MaxFaults \in Nat /\ MaxChanges \in Nat /\ MaxWaiting \in Nat
            /\ ReloadEvery \in Nat
        BY PeriodicAssumption
      <3> QED
        BY <3>1, MaxOfTwo DEF LockExp
    <2>1. RestType
      BY <2>0 DEF Init, RestType, Nothing
    <2>2. LockType /\ LockBound /\ RunBound
      BY <2>0 DEF Init, LockType, LockBound, RunBound
    <2> QED
      BY <2>1, <2>2 DEF TypeInv
  <1>2. TypeInv /\ [Next]_vars => TypeInv'
    BY RoundTypes, OtherTypes, LockTypes DEF TypeInv
  <1>3. TypeInv => TypeOK
    BY TypeInvOK
  <1> QED
    BY <1>1, <1>2, <1>3, PTL DEF Spec
=============================================================================
