------------------------ MODULE SchedJobTasks_proofs ------------------------
(***************************************************************************)
(* Proofs about SchedJobTasks, for any schedules, editors, workers, times  *)
(* and faults. IInv says what a transaction that changes the job has in    *)
(* hand, and what others may do to the rows while it has it.               *)
(***************************************************************************)
EXTENDS SchedJobTasks, TLAPS

\* A run still to come, which waits.
Waits(t) == t > now /\ t \notin skipped /\ task[t] # None /\ task[t].status = "not_started"

\* Nobody but the holder has anything in hand; one that takes no runs off leaves
\* the job as it is.
TxInv ==
    /\ holder = None => takeOff = FALSE /\ removed = {} /\ stopped = {}
    /\ step \in {"none", "take_off", "make"} => made = {}
    /\ step \in {"none", "take_off"} => removed = {} /\ stopped = {}
    /\ holder = None <=> step = "none"
    /\ (holder # None /\ ~takeOff) => draft = job

\* Locked rows are there, and those of the holder stay as it found them.
LockInv ==
    \A t \in Time :
       /\ rowLock[t] # None => task[t] # None
       /\ rowLock[t] \in Editor => rowLock[t] = holder
       /\ rowLock[t] = "run" => t <= now
       /\ t \in removed \cup stopped =>
             rowLock[t] = holder /\ holder \in Editor /\ task[t] # None
       /\ t \in removed => ~task[t].started
       /\ t \in stopped => task[t].started

\* Nothing is executed ahead of its time, nor canceled but by a user.
RowInv ==
    \A t \in Time : task[t] # None =>
       /\ task[t].started => t <= now
       /\ (task[t].status = "canceled" /\ t > now) => t \in userStopped

\* What has been taken off, and what has been made.
DraftInv ==
    /\ (takeOff /\ step \in {"make", "commit"}) =>
          \A t \in Time : Waits(t) => t \in removed \cup stopped
    /\ \A t \in made : /\ draft.on /\ t \in RunsOf[draft.sched]
                       /\ task[t] = None \/ t \in removed
    /\ (step = "commit" /\ draft.on) =>
          \A t \in RunsOf[draft.sched] :
             (now < t /\ t <= until) => t \in made \/ (task[t] # None /\ t \notin removed)

IInv ==
    /\ TypeOK
    /\ TxInv
    /\ LockInv
    /\ RowInv
    /\ DraftInv
    /\ WaitingFollowsSchedule
    /\ ComingRunsAreThere
    /\ BegunIsKept

-----------------------------------------------------------------------------
\* Jobs, as they are and as a transaction changes them.
Job == [on : BOOLEAN, sched : Schedule]

\* A run that is canceled is as it was, but for its status.
LEMMA CanceledRow ==
    ASSUME NEW r \in Row
    PROVE  LET c == [r EXCEPT !.status = "canceled"] IN
           c \in Row /\ c.status = "canceled" /\ c.started = r.started
  BY DEF Row

\* A new run waits, and never started.
LEMMA NewRowType ==
    NewRow \in Row /\ NewRow # None /\ NewRow.status = "not_started" /\ ~NewRow.started
  <1>1. NewRow \in Row /\ NewRow.status = "not_started" /\ ~NewRow.started
    BY DEF NewRow, Row
  <1> QED
    BY <1>1, JobAssumption

\* Steps that change nothing the invariants are about.
LEMMA SteadyKeeps ==
    ASSUME IInv, UNCHANGED vars
    PROVE  IInv'
  <1> USE DEF vars, txVars, history
  <1>1. TypeOK' /\ TxInv' /\ LockInv' /\ RowInv'
    BY DEF IInv, TypeOK, TxInv, LockInv, RowInv
  <1>2. DraftInv' /\ WaitingFollowsSchedule' /\ ComingRunsAreThere' /\ BegunIsKept'
    BY DEF IInv, DraftInv, Waits, WaitingFollowsSchedule, ComingRunsAreThere, BegunIsKept
  <1> QED
    BY <1>1, <1>2 DEF IInv

\* As time goes on, less is still to come.
LEMMA TickKeeps ==
    ASSUME IInv, Tick
    PROVE  IInv'
  <1> USE DEF IInv, Tick, txVars, history
  <1>0. /\ now \in Nat /\ now' = now + 1 /\ now' \in Time
        /\ \A t \in Time : t \in Nat
        /\ \A t \in Time : t > now' => t > now
        /\ \A t \in Time : t <= now => t <= now'
    BY JobAssumption DEF TypeOK, Time
  <1>1. TypeOK' /\ TxInv'
    BY <1>0 DEF TypeOK, TxInv
  <1>2. LockInv' /\ RowInv'
    BY <1>0 DEF LockInv, RowInv
  <1>3. DraftInv'
    <2>1. until' = until /\ until \in Int
      BY JobAssumption DEF TypeOK
    <2>2. \A t \in Time : Waits(t)' => Waits(t)
      BY <1>0 DEF Waits
    <2>3. \A t \in Time : now' < t => now < t
      BY <1>0
    <2>4. (takeOff' /\ step' \in {"make", "commit"}) =>
             \A t \in Time : Waits(t)' => t \in removed' \cup stopped'
      BY <2>2 DEF DraftInv
    <2>5. \A s \in Schedule : RunsOf[s] \subseteq Time
      BY JobAssumption
    <2>6. draft.sched \in Schedule
      BY DEF TypeOK
    <2> QED
      BY <2>3, <2>4, <2>5, <2>6 DEF DraftInv
  <1>4. WaitingFollowsSchedule'
    BY <1>0 DEF WaitingFollowsSchedule
  <1>5. ComingRunsAreThere' /\ BegunIsKept'
    <2>1. \A s \in Schedule : RunsOf[s] \subseteq Time
      BY JobAssumption
    <2>2. job.sched \in Schedule
      BY DEF TypeOK
    <2> QED
      BY <1>0, <2>1, <2>2 DEF ComingRunsAreThere, BegunIsKept
  <1> QED
    BY <1>1, <1>2, <1>3, <1>4, <1>5

-----------------------------------------------------------------------------
(* The transaction of one who has the job's row. *)

\* One who changes the job has it, and has done nothing yet.
LEMMA LockJobKeeps ==
    ASSUME IInv, NEW e \in Editor, LockJob(e)
    PROVE  IInv'
  <1> USE DEF IInv, LockJob, history
  <1>0. /\ e # None /\ holder = None /\ holder' = e /\ step' = "take_off"
        /\ None \notin Editor /\ job \in Job
    BY JobAssumption DEF TypeOK, Job
  <1>1. draft' \in Job /\ takeOff' \in BOOLEAN /\ (~takeOff' => draft' = job)
    <2>1. CASE \E on \in BOOLEAN : draft' = [job EXCEPT !.on = on] /\ takeOff' = TRUE
      BY <1>0, <2>1 DEF Job
    <2>2. ASSUME NEW s \in Schedule, draft' = [job EXCEPT !.sched = s], takeOff' = (s # job.sched)
          PROVE  draft' \in Job /\ takeOff' \in BOOLEAN /\ (~takeOff' => draft' = job)
      <3>1. [job EXCEPT !.sched = job.sched] = job
        BY <1>0 DEF Job
      <3>2. draft' \in Job
        BY <1>0, <2>2 DEF Job
      <3> QED
        BY <2>2, <3>1, <3>2
    <2> QED
      BY <2>1, <2>2
  <1>2. TypeOK'
    BY <1>0, <1>1 DEF TypeOK, Job
  <1>3. TxInv'
    BY <1>0, <1>1 DEF TxInv
  <1>4. LockInv' /\ RowInv' /\ DraftInv'
    BY <1>0 DEF LockInv, RowInv, DraftInv, TxInv
  <1>5. WaitingFollowsSchedule' /\ ComingRunsAreThere' /\ BegunIsKept'
    BY DEF WaitingFollowsSchedule, ComingRunsAreThere, BegunIsKept
  <1> QED
    BY <1>2, <1>3, <1>4, <1>5

\* Every run still to come that waits is taken off, or was another's to change.
LEMMA TakeOffKeeps ==
    ASSUME IInv, NEW e \in Editor, TakeOff(e)
    PROVE  IInv'
  <1> USE DEF IInv, TakeOff
  <1>0. /\ holder = e /\ e # None /\ step' = "make" /\ holder' = holder
        /\ e \notin {"run", "cancel"}
    BY JobAssumption
  <1>1. /\ removed' = {t \in TakenOff : CanCancel(t) /\ ~task[t].started}
        /\ stopped' = {t \in TakenOff : CanCancel(t) /\ task[t].started}
    BY DEF Unscheduled
  <1>2. /\ TakenOff \subseteq Time
        /\ \A t \in TakenOff : task[t] # None /\ rowLock[t] = None
    BY DEF TakenOff, Unlocked
  <1>3. \A t \in Time : rowLock'[t] = IF t \in TakenOff THEN e ELSE rowLock[t]
    OBVIOUS
  <1>4. TypeOK'
    <2>1. rowLock' \in [Time -> Editor \cup {"run", "cancel", None}]
      BY DEF TypeOK
    <2>2. removed' \subseteq Time /\ stopped' \subseteq Time /\ skipped' \subseteq Time
      BY <1>1, <1>2 DEF TypeOK
    <2> QED
      BY <1>0, <2>1, <2>2 DEF TypeOK
  <1>5. TxInv'
    BY <1>0 DEF TxInv
  <1>6. LockInv'
    BY <1>0, <1>1, <1>2, <1>3 DEF LockInv
  <1>7. RowInv'
    BY DEF RowInv
  <1>8. DraftInv'
    <2>1. ASSUME takeOff, NEW t \in Time, Waits(t)'
          PROVE  t \in removed' \cup stopped'
      <3>1. t \notin skipped' /\ task[t] # None /\ task[t].status = "not_started"
        BY <2>1 DEF Waits
      <3>2. rowLock[t] = None
        BY <2>1, <3>1
      <3>3. t \in TakenOff
        BY <2>1, <3>1, <3>2 DEF TakenOff, Unlocked
      <3> QED
        BY <1>1, <3>1, <3>3 DEF CanCancel
    <2>2. made' = {}
      BY DEF TxInv
    <2> QED
      BY <1>0, <2>1, <2>2 DEF DraftInv
  <1>9. WaitingFollowsSchedule' /\ ComingRunsAreThere' /\ BegunIsKept'
    BY DEF WaitingFollowsSchedule, ComingRunsAreThere, BegunIsKept
  <1> QED
    BY <1>4, <1>5, <1>6, <1>7, <1>8, <1>9

\* The coming runs are made, but for those that are there and stay.
LEMMA MakeKeeps ==
    ASSUME IInv, NEW p \in Editor \cup Worker, Make(p)
    PROVE  IInv'
  <1> USE DEF IInv, Make, history
  <1>0. /\ holder = p /\ p # None /\ step = "make" /\ step' = "commit" /\ holder' = holder
        /\ draft.sched \in Schedule /\ now \in Nat /\ Ahead \in Nat /\ now <= MaxTime
        /\ MaxTime \in Nat
        /\ \A s \in Schedule : RunsOf[s] \subseteq Time
    BY JobAssumption DEF TypeOK, Time
  <1>1. /\ made' \subseteq Time
        /\ \A t \in made' : /\ draft.on /\ t \in RunsOf[draft.sched]
                            /\ task[t] = None \/ t \in removed
    BY <1>0 DEF RunsToMake
  <1>2. until' \in -1..(MaxTime + Ahead)
    BY <1>0
  <1>3. TypeOK'
    BY <1>0, <1>1, <1>2 DEF TypeOK
  <1>4. TxInv' /\ LockInv' /\ RowInv'
    BY <1>0 DEF TxInv, LockInv, RowInv
  <1>5. DraftInv'
    <2>1. takeOff' => \A t \in Time : Waits(t)' => t \in removed' \cup stopped'
      BY <1>0 DEF DraftInv, Waits
    <2>2. ASSUME draft.on, NEW t \in RunsOf[draft.sched], now < t, t <= until'
          PROVE  t \in made' \/ (task[t] # None /\ t \notin removed)
      <3>1. t \in Nat /\ t \in now..(now + Ahead)
        BY <1>0, <2>2 DEF Time
      <3> QED
        BY <2>2, <3>1 DEF RunsToMake
    <2> QED
      BY <1>0, <1>1, <2>1, <2>2 DEF DraftInv
  <1>6. WaitingFollowsSchedule' /\ ComingRunsAreThere' /\ BegunIsKept'
    BY DEF WaitingFollowsSchedule, ComingRunsAreThere, BegunIsKept
  <1> QED
    BY <1>3, <1>4, <1>5, <1>6

\* A worker has the job as it is, and takes nothing off.
LEMMA LockToMakeKeeps ==
    ASSUME IInv, NEW w \in Worker, LockToMake(w)
    PROVE  IInv'
  <1> USE DEF IInv, LockToMake, history
  <1>0. /\ w # None /\ holder = None /\ holder' = w /\ step' = "make" /\ draft' = job
        /\ None \notin Editor
    BY JobAssumption
  <1>1. TypeOK'
    BY <1>0 DEF TypeOK
  <1>2. TxInv' /\ RowInv'
    BY <1>0 DEF TxInv, RowInv
  <1>3. LockInv' /\ DraftInv'
    BY <1>0 DEF TxInv, LockInv, DraftInv
  <1>4. WaitingFollowsSchedule' /\ ComingRunsAreThere' /\ BegunIsKept'
    BY DEF WaitingFollowsSchedule, ComingRunsAreThere, BegunIsKept
  <1> QED
    BY <1>1, <1>2, <1>3, <1>4

\* Nothing is in hand any more, and no row is locked by who had it.
LEMMA EndTxKeeps ==
    ASSUME TypeOK, LockInv, EndTx
    PROVE  /\ rowLock' \in [Time -> Editor \cup {"run", "cancel", None}]
           /\ \A t \in Time : rowLock'[t] \in {"run", "cancel", None}
           /\ \A t \in Time : rowLock'[t] # None =>
                 rowLock'[t] = rowLock[t] /\ rowLock[t] \notin Editor
           /\ TxInv' /\ holder' \in Editor \cup Worker \cup {None} /\ step' = "none"
  <1>1. \A t \in Time : rowLock[t] \in Editor \cup {"run", "cancel", None}
    BY DEF TypeOK
  <1>2. \A t \in Time : rowLock'[t] = IF rowLock[t] = holder THEN None ELSE rowLock[t]
    BY DEF EndTx
  <1>3. TxInv'
    BY DEF EndTx, TxInv
  <1> QED
    BY <1>1, <1>2, <1>3, JobAssumption DEF EndTx, LockInv

\* What is committed is what was taken off and made; all else stands.
LEMMA CommitKeeps ==
    ASSUME IInv, Commit
    PROVE  IInv'
  <1> USE DEF IInv
  <1>0. /\ step = "commit" /\ job' = draft /\ draft' = draft /\ now' = now
        /\ madeUntil' = until /\ begun' = begun /\ called' = called /\ faults' = faults
        /\ skipped' = skipped \ made /\ userStopped' = userStopped \ made
        /\ EndTx
    BY DEF Commit
  <1>1. ASSUME NEW t \in Time
        PROVE  task'[t] = IF t \in made THEN NewRow
                          ELSE IF t \in removed THEN None
                          ELSE IF t \in stopped THEN [task[t] EXCEPT !.status = "canceled"]
                          ELSE task[t]
    BY DEF Commit
  <1>2. /\ rowLock' \in [Time -> Editor \cup {"run", "cancel", None}]
        /\ \A t \in Time : rowLock'[t] \in {"run", "cancel", None}
        /\ \A t \in Time : rowLock'[t] # None =>
              rowLock'[t] = rowLock[t] /\ rowLock[t] \notin Editor
        /\ TxInv' /\ holder' \in Editor \cup Worker \cup {None} /\ step' = "none"
    BY <1>0, EndTxKeeps
  \* What a row is, by what was done to it.
  <1>3. ASSUME NEW t \in Time
        PROVE  /\ task'[t] \in Row \cup {None}
               /\ t \in made => task'[t] = NewRow
               /\ (t \notin made /\ t \in removed) => task'[t] = None
               /\ (t \notin made /\ t \notin removed /\ task[t] # None) =>
                     /\ task'[t] \in Row /\ task'[t] # None
                     /\ task'[t].started = task[t].started
                     /\ t \in stopped => task'[t].status = "canceled" /\ task[t].started
                     /\ t \notin stopped => task'[t] = task[t]
               /\ (t \notin made /\ task[t] = None) => task'[t] = None
    <2>1. task[t] \in Row \cup {None}
      BY DEF TypeOK
    <2>2. t \in stopped => task[t] \in Row /\ task[t].started
      BY <2>1 DEF LockInv
    <2>3. t \in removed => task[t] # None
      BY DEF LockInv
    <2>4. NewRow \in Row /\ None \notin Row
      BY NewRowType, JobAssumption
    <2>5. CASE t \in made \/ t \in removed \/ t \notin stopped
      BY <1>1, <2>1, <2>3, <2>4, <2>5
    <2>6. CASE t \notin made /\ t \notin removed /\ t \in stopped
      <3> DEFINE c == [task[t] EXCEPT !.status = "canceled"]
      <3>1. task'[t] = c
        BY <1>1, <2>6
      <3>2. c \in Row /\ c.status = "canceled" /\ c.started = task[t].started
        BY <2>2, <2>6, CanceledRow
      <3> HIDE DEF c
      <3>3. task[t] # None
        BY <2>2, <2>4, <2>6
      <3> QED
        BY <2>2, <2>4, <2>6, <3>1, <3>2, <3>3
    <2> QED
      BY <2>5, <2>6
  <1>4. task' \in [Time -> Row \cup {None}]
    BY <1>3 DEF Commit
  <1>5. TypeOK'
    <2>0. MaxTime \in Nat /\ Ahead \in Nat
      BY JobAssumption
    <2>1. /\ takeOff' \in BOOLEAN /\ removed' \subseteq Time /\ stopped' \subseteq Time
          /\ made' \subseteq Time /\ until' \in -1..(MaxTime + Ahead)
      <3>1. takeOff' = FALSE /\ removed' = {} /\ stopped' = {} /\ made' = {} /\ until' = -1
        BY <1>0 DEF EndTx
      <3>2. -1 \in -1..(MaxTime + Ahead)
        BY <2>0
      <3> QED
        BY <3>1, <3>2
    <2> QED
      BY <1>0, <1>2, <1>4, <2>1 DEF TypeOK
  <1>6. LockInv'
    <2> SUFFICES ASSUME NEW t \in Time
                 PROVE  /\ rowLock'[t] # None => task'[t] # None
                        /\ rowLock'[t] \in Editor => rowLock'[t] = holder'
                        /\ rowLock'[t] = "run" => t <= now'
                        /\ t \notin removed' \cup stopped'
      BY DEF LockInv
    <2>1. rowLock'[t] # None => task'[t] # None
      <3>1. rowLock'[t] # None => task[t] # None /\ t \notin removed
        BY <1>2 DEF LockInv
      <3>2. NewRow # None
        BY NewRowType
      <3> QED
        BY <1>3, <3>1, <3>2
    <2>2. rowLock'[t] = "run" => t <= now'
      BY <1>0, <1>2, JobAssumption DEF LockInv
    <2> QED
      BY <1>0, <1>2, <2>1, <2>2, JobAssumption DEF EndTx
  <1>7. RowInv'
    <2> SUFFICES ASSUME NEW t \in Time, task'[t] # None
                 PROVE  /\ task'[t].started => t <= now
                        /\ (task'[t].status = "canceled" /\ t > now) => t \in userStopped'
      BY <1>0 DEF RowInv
    <2>1. CASE t \in made
      BY <1>3, <2>1, NewRowType
    <2>2. CASE t \notin made
      <3>1. task[t] # None /\ t \notin removed
        BY <1>3, <2>2
      <3>2. task[t].started => t <= now
        BY <3>1 DEF RowInv
      <3>3. t \in stopped => ~(t > now)
        BY <1>3, <2>2, <3>1, <3>2, JobAssumption DEF TypeOK, Time
      <3> QED
        BY <1>0, <1>3, <2>2, <3>1, <3>2, <3>3 DEF RowInv
    <2> QED
      BY <2>1, <2>2
  <1>8. DraftInv'
    BY <1>0 DEF EndTx, DraftInv
  <1>9. WaitingFollowsSchedule'
    <2> SUFFICES ASSUME NEW t \in Time, t > now, t \notin skipped', task'[t] # None,
                        task'[t].status = "not_started"
                 PROVE  draft.on /\ t \in RunsOf[draft.sched]
      BY <1>0 DEF WaitingFollowsSchedule
    <2>1. CASE t \in made
      BY <2>1 DEF DraftInv
    <2>2. CASE t \notin made
      <3>1. /\ task[t] # None /\ t \notin removed /\ t \notin stopped /\ task'[t] = task[t]
            /\ t \notin skipped
        BY <1>0, <1>3, <2>2
      <3>2. Waits(t)
        BY <3>1 DEF Waits
      <3>3. ~takeOff
        BY <1>0, <3>1, <3>2 DEF DraftInv
      <3>4. draft = job
        BY <1>0, <3>3 DEF TxInv
      <3> QED
        BY <3>1, <3>4 DEF WaitingFollowsSchedule
    <2> QED
      BY <2>1, <2>2
  <1>10. ComingRunsAreThere'
    <2> SUFFICES ASSUME draft.on, NEW t \in RunsOf[draft.sched], now < t, t <= until
                 PROVE  /\ task'[t] # None
                        /\ task'[t].status = "canceled" => t \in userStopped'
      BY <1>0 DEF ComingRunsAreThere
    <2>1. t \in Time
      BY JobAssumption DEF TypeOK
    <2>2. t > now
      BY <2>1, JobAssumption DEF TypeOK, Time
    <2>3. task'[t] # None
      BY <1>0, <1>3, <2>1, NewRowType DEF DraftInv
    <2> QED
      BY <1>0, <1>7, <2>1, <2>2, <2>3 DEF RowInv
  <1>11. BegunIsKept'
    <2> SUFFICES ASSUME NEW t \in begun
                 PROVE  task'[t] # None /\ task'[t].started
      BY <1>0 DEF BegunIsKept
    <2>1. t \in Time /\ task[t] # None /\ task[t].started
      BY DEF TypeOK, BegunIsKept
    <2>2. t \notin removed
      BY <2>1 DEF LockInv
    <2>3. t \notin made
      BY <2>1, <2>2 DEF DraftInv
    <2> QED
      BY <1>3, <2>1, <2>2, <2>3
  <1> QED
    BY <1>2, <1>5, <1>6, <1>7, <1>8, <1>9, <1>10, <1>11

\* Nothing of what was in hand stays.
LEMMA RollbackKeeps ==
    ASSUME IInv, Rollback
    PROVE  IInv'
  <1> USE DEF IInv
  <1>0. /\ draft' = job /\ job' = job /\ now' = now /\ task' = task /\ called' = called
        /\ faults' \in 0..MaxFaults /\ UNCHANGED history
        /\ EndTx
    BY JobAssumption DEF Rollback, Fault, TypeOK
  <1>2. /\ rowLock' \in [Time -> Editor \cup {"run", "cancel", None}]
        /\ \A t \in Time : rowLock'[t] \in {"run", "cancel", None}
        /\ \A t \in Time : rowLock'[t] # None =>
              rowLock'[t] = rowLock[t] /\ rowLock[t] \notin Editor
        /\ TxInv' /\ holder' \in Editor \cup Worker \cup {None} /\ step' = "none"
    BY <1>0, EndTxKeeps
  <1>3. TypeOK'
    <2>0. MaxTime \in Nat /\ Ahead \in Nat
      BY JobAssumption
    <2>1. /\ takeOff' \in BOOLEAN /\ removed' \subseteq Time /\ stopped' \subseteq Time
          /\ made' \subseteq Time /\ until' \in -1..(MaxTime + Ahead)
      <3>1. takeOff' = FALSE /\ removed' = {} /\ stopped' = {} /\ made' = {} /\ until' = -1
        BY <1>0 DEF EndTx
      <3>2. -1 \in -1..(MaxTime + Ahead)
        BY <2>0
      <3> QED
        BY <3>1, <3>2
    <2> QED
      BY <1>0, <1>2, <2>1 DEF TypeOK, history
  <1>4. LockInv'
    BY <1>0, <1>2, JobAssumption DEF EndTx, LockInv
  <1>5. RowInv' /\ DraftInv'
    BY <1>0 DEF EndTx, RowInv, DraftInv, history
  <1>6. WaitingFollowsSchedule' /\ ComingRunsAreThere' /\ BegunIsKept'
    BY <1>0 DEF WaitingFollowsSchedule, ComingRunsAreThere, BegunIsKept, history
  <1> QED
    BY <1>2, <1>3, <1>4, <1>5, <1>6

-----------------------------------------------------------------------------
(* Executions and cancels. *)

\* One row changes, or its lock, and it is not the holder's.
RowChanges(t, r, l) ==
    /\ task' = [task EXCEPT ![t] = r] /\ rowLock' = [rowLock EXCEPT ![t] = l]
    /\ task[t] # None /\ rowLock[t] \notin Editor
    /\ r \in Row /\ l \in {"run", "cancel", None}
    /\ UNCHANGED <<now, job, txVars, called, madeUntil, skipped>>
    /\ faults' \in 0..MaxFaults
    /\ userStopped \subseteq userStopped' /\ userStopped' \subseteq Time
    /\ begun \subseteq begun' /\ begun' \subseteq begun \cup {t}

\* Such a change is harmless if it starts nothing ahead of its time, forgets no
\* start, and lets no run wait that did not.
LEMMA RowChangeKeeps ==
    ASSUME IInv, NEW t \in Time, NEW r, NEW l, RowChanges(t, r, l),
           l = "run" => t <= now,
           r.started => t <= now,
           (task[t].started \/ t \in begun') => r.started,
           r.status = "canceled" => task[t].status = "canceled" \/ t <= now \/ t \in userStopped',
           r.status = "not_started" => task[t].status = "not_started" \/ t <= now
    PROVE  IInv'
  <1> USE DEF IInv
  <1>0. /\ now \in Nat /\ t \in Nat /\ ~(t <= now /\ t > now)
        /\ r # None /\ l \notin Editor /\ l \in {"run", "cancel", None}
    BY JobAssumption DEF TypeOK, Time, RowChanges
  <1>1. /\ \A u \in Time : task'[u] = IF u = t THEN r ELSE task[u]
        /\ \A u \in Time : rowLock'[u] = IF u = t THEN l ELSE rowLock[u]
    BY DEF RowChanges, TypeOK
  <1>2. UNCHANGED <<now, job, holder, step, draft, takeOff, removed, stopped, made, until,
                    called, madeUntil, skipped>>
    BY DEF RowChanges, txVars
  <1>3. task[t] # None /\ rowLock[t] \notin Editor
    BY DEF RowChanges
  <1>4. /\ userStopped \subseteq userStopped' /\ begun \subseteq begun'
        /\ begun' \subseteq begun \cup {t}
    BY DEF RowChanges
  <1>5. t \notin removed \cup stopped
    BY <1>3 DEF LockInv
  <1>6. TypeOK'
    <2>1. task' \in [Time -> Row \cup {None}]
      BY DEF RowChanges, TypeOK
    <2>2. rowLock' \in [Time -> Editor \cup {"run", "cancel", None}]
      BY DEF RowChanges, TypeOK
    <2>3. /\ faults' \in 0..MaxFaults /\ userStopped' \subseteq Time /\ begun' \subseteq Time
      BY DEF RowChanges, TypeOK
    <2> QED
      BY <1>2, <2>1, <2>2, <2>3 DEF TypeOK
  <1>7. TxInv'
    BY <1>2 DEF TxInv
  <1>8. LockInv'
    BY <1>0, <1>1, <1>2, <1>3, <1>5 DEF LockInv
  <1>9. RowInv'
    BY <1>0, <1>1, <1>2, <1>3, <1>4 DEF RowInv
  <1>10. DraftInv'
    <2>1. ASSUME NEW u \in Time, Waits(u)'
          PROVE  Waits(u)
      BY <1>0, <1>1, <1>2, <1>3, <2>1 DEF Waits
    <2>2. \A u \in made : task[u] = None => task'[u] = None
      BY <1>1, <1>3 DEF TypeOK
    <2>3. \A u \in Time : task[u] # None => task'[u] # None
      BY <1>0, <1>1
    <2>4. draft.sched \in Schedule /\ RunsOf[draft.sched] \subseteq Time
      BY JobAssumption DEF TypeOK
    <2> QED
      BY <1>2, <2>1, <2>2, <2>3, <2>4 DEF DraftInv
  <1>11. WaitingFollowsSchedule'
    BY <1>0, <1>1, <1>2, <1>3 DEF WaitingFollowsSchedule
  <1>12. ComingRunsAreThere'
    <2>1. job.sched \in Schedule /\ RunsOf[job.sched] \subseteq Time
      BY JobAssumption DEF TypeOK
    <2> SUFFICES ASSUME job.on, NEW u \in RunsOf[job.sched], now < u, u <= madeUntil
                 PROVE  /\ task'[u] # None
                        /\ task'[u].status = "canceled" => u \in userStopped'
      BY <1>2 DEF ComingRunsAreThere
    <2>2. u \in Time /\ u > now
      BY <1>0, <2>1 DEF Time
    <2>3. task[u] # None /\ (task[u].status = "canceled" => u \in userStopped)
      BY DEF ComingRunsAreThere
    <2> QED
      BY <1>0, <1>1, <1>4, <2>2, <2>3
  <1>13. BegunIsKept'
    BY <1>0, <1>1, <1>4 DEF BegunIsKept, TypeOK
  <1> QED
    BY <1>6, <1>7, <1>8, <1>9, <1>10, <1>11, <1>12, <1>13

\* An execution, a cancel and what becomes of them change one row each.
LEMMA RowStepKeeps ==
    ASSUME IInv, NEW t \in Time,
           \/ Execute(t) \/ Settle(t) \/ GiveUp(t)
           \/ Cancel(t) \/ CommitCancel(t) \/ RollbackCancel(t)
    PROVE  IInv'
  <1> USE DEF IInv
  <1>0. /\ task \in [Time -> Row \cup {None}]
        /\ rowLock \in [Time -> Editor \cup {"run", "cancel", None}]
        /\ faults \in 0..MaxFaults /\ userStopped \subseteq Time /\ begun \subseteq Time
        /\ t \in Nat /\ now \in Nat
        /\ None \notin Editor /\ None \notin Row /\ None \notin {"run", "cancel"}
        /\ "run" \notin Editor /\ "cancel" \notin Editor
        /\ rowLock[t] # None => task[t] # None
        /\ rowLock[t] = "run" => t <= now
        /\ task[t] # None => (task[t].started => t <= now)
        /\ t \in begun => task[t].started
        /\ task = [task EXCEPT ![t] = task[t]]
    BY JobAssumption DEF TypeOK, Time, LockInv, RowInv, BegunIsKept
  <1> DEFINE c == [task[t] EXCEPT !.status = "canceled"]
  <1>1. task[t] # None =>
          task[t] \in Row /\ c \in Row /\ c.status = "canceled" /\ c.started = task[t].started
    BY <1>0, CanceledRow
  <1> HIDE DEF c
  <1>2. CASE Execute(t)
    <2>1. /\ t <= now /\ task[t] # None /\ rowLock[t] = None
          /\ UNCHANGED <<now, job, txVars, called, madeUntil, skipped, userStopped, begun, faults>>
      BY <1>0, <1>2 DEF Execute, Unlocked, history
    <2>2. CASE rowLock' = [rowLock EXCEPT ![t] = "run"] /\ UNCHANGED task
      <3>1. RowChanges(t, task[t], "run")
        BY <1>0, <1>1, <2>1, <2>2 DEF RowChanges
      <3> QED
        BY <1>0, <2>1, <3>1, RowChangeKeeps
    <2>3. CASE task' = [task EXCEPT ![t].status = "canceled"] /\ UNCHANGED rowLock
      <3>1. task' = [task EXCEPT ![t] = c]
        BY <2>3 DEF c
      <3>2. rowLock' = [rowLock EXCEPT ![t] = None]
        BY <1>0, <2>1, <2>3
      <3>3. RowChanges(t, c, None)
        BY <1>0, <1>1, <2>1, <3>1, <3>2 DEF RowChanges
      <3> QED
        BY <1>0, <1>1, <2>1, <3>3, RowChangeKeeps
    <2> QED
      BY <1>2, <2>2, <2>3 DEF Execute
  <1>3. CASE Settle(t)
    <2>1. PICK s \in {"not_started", "failed", "done", "canceled"} :
             task' = [task EXCEPT ![t] = [status |-> s, started |-> TRUE]]
      BY <1>3 DEF Settle
    <2> DEFINE r == [status |-> s, started |-> TRUE]
    <2>2. r \in Row /\ r.started /\ r.status = s
      BY DEF Row
    <2>3. t <= now
      BY <1>0, <1>3 DEF Settle
    <2>4. RowChanges(t, r, None)
      BY <1>0, <1>3, <2>1, <2>2 DEF Settle, RowChanges
    <2> HIDE DEF r
    <2> QED
      BY <1>0, <2>2, <2>3, <2>4, RowChangeKeeps
  <1>4. CASE GiveUp(t) \/ RollbackCancel(t)
    <2>1. faults' \in 0..MaxFaults
      BY <1>0, <1>4, JobAssumption DEF GiveUp, RollbackCancel, Fault
    <2>2. RowChanges(t, task[t], None)
      BY <1>0, <1>1, <1>4, <2>1 DEF GiveUp, RollbackCancel, RowChanges, history
    <2>3. begun' = begun /\ task[t] # None
      BY <1>0, <1>4 DEF GiveUp, RollbackCancel, history
    <2> QED
      BY <1>0, <2>2, <2>3, RowChangeKeeps
  <1>5. CASE Cancel(t)
    <2>1. RowChanges(t, task[t], "cancel")
      BY <1>0, <1>1, <1>5 DEF Cancel, Unlocked, RowChanges, history
    <2>2. begun' = begun /\ task[t] # None
      BY <1>5 DEF Cancel, Unlocked, history
    <2> QED
      BY <1>0, <2>1, <2>2, RowChangeKeeps
  <1>6. CASE CommitCancel(t)
    <2>1. task' = [task EXCEPT ![t] = c]
      BY <1>6 DEF CommitCancel, c
    <2>2. RowChanges(t, c, None)
      BY <1>0, <1>1, <1>6, <2>1 DEF CommitCancel, RowChanges
    <2>3. begun' = begun /\ t \in userStopped' /\ task[t] # None
      BY <1>0, <1>6 DEF CommitCancel
    <2> QED
      BY <1>0, <1>1, <2>2, <2>3, RowChangeKeeps
  <1> QED
    BY <1>2, <1>3, <1>4, <1>5, <1>6

-----------------------------------------------------------------------------
\* At first the job's runs are there as far as Ahead, and nobody has anything.
LEMMA InitIInv == Init => IInv
  <1> SUFFICES ASSUME Init PROVE IInv
    OBVIOUS
  <1>0. /\ MaxTime \in Nat /\ Ahead \in Nat /\ MaxFaults \in Nat
        /\ None \notin Editor /\ None \notin {"run", "cancel"}
        /\ 0 \in Time /\ \A t \in Time : t \in Nat
    BY JobAssumption DEF Time
  <1>1. \A t \in Time : /\ task[t] = IF job.on /\ t \in RunsOf[job.sched] /\ t <= Ahead
                                      THEN NewRow ELSE None
                        /\ rowLock[t] = None
    BY DEF Init
  <1>2. TypeOK
    <2>1. task \in [Time -> Row \cup {None}]
      BY NewRowType DEF Init
    <2>2. madeUntil \in -1..(MaxTime + Ahead) /\ until \in -1..(MaxTime + Ahead)
      BY <1>0 DEF Init
    <2>3. rowLock \in [Time -> Editor \cup {"run", "cancel", None}]
      BY DEF Init
    <2>4. now \in Time /\ faults \in 0..MaxFaults
      BY <1>0 DEF Init
    <2> QED
      BY <2>1, <2>2, <2>3, <2>4 DEF Init, TypeOK
  <1>3. TxInv /\ LockInv /\ DraftInv
    BY <1>0, <1>1 DEF Init, TxInv, LockInv, DraftInv
  <1>4. RowInv /\ WaitingFollowsSchedule /\ BegunIsKept
    BY <1>1, NewRowType DEF Init, RowInv, WaitingFollowsSchedule, BegunIsKept
  <1>5. ComingRunsAreThere
    <2> SUFFICES ASSUME job.on, NEW t \in RunsOf[job.sched], now < t, t <= madeUntil
                 PROVE  task[t] # None /\ task[t].status # "canceled"
      BY DEF ComingRunsAreThere
    <2>1. t \in Time /\ t <= Ahead
      BY JobAssumption DEF Init
    <2> QED
      BY <1>1, <2>1, NewRowType
  <1> QED
    BY <1>2, <1>3, <1>4, <1>5 DEF IInv

\* Every step keeps the invariant.
LEMMA StepIInv == IInv /\ [Next]_vars => IInv'
  <1> SUFFICES ASSUME IInv, [Next]_vars PROVE IInv'
    OBVIOUS
  <1> QED
    BY SteadyKeeps, TickKeeps, LockJobKeeps, TakeOffKeeps, MakeKeeps, LockToMakeKeeps,
       CommitKeeps, RollbackKeeps, RowStepKeeps DEF Next

\* The invariant holds throughout, however transactions, executions, cancels and
\* failures interleave.
THEOREM Invariance == Spec => []IInv
  BY InitIInv, StepIInv, PTL DEF Spec

\* Every variable keeps to its type.
THEOREM TypeCorrect == Spec => []TypeOK
  <1>1. IInv => TypeOK
    BY DEF IInv
  <1> QED
    BY <1>1, Invariance, PTL

\* A run still to come is one of the job as it is now: taking off misses only
\* the rows that others have locked.
THEOREM WaitingFollows == Spec => []WaitingFollowsSchedule
  <1>1. IInv => WaitingFollowsSchedule
    BY DEF IInv
  <1> QED
    BY <1>1, Invariance, PTL

\* The coming runs of a job that is on are there, as far as they were made: a
\* run taken off makes room for the same one made anew.
THEOREM ComingRuns == Spec => []ComingRunsAreThere
  <1>1. IInv => ComingRunsAreThere
    BY DEF IInv
  <1> QED
    BY <1>1, Invariance, PTL

\* What was under way once is neither removed nor made anew.
THEOREM BegunKept == Spec => []BegunIsKept
  <1>1. IInv => BegunIsKept
    BY DEF IInv
  <1> QED
    BY <1>1, Invariance, PTL
=============================================================================
