------------------------ MODULE TaskExecution_proofs ------------------------
(***************************************************************************)
(* Proofs about TaskExecution, for any workers, clients, retries, steps    *)
(* and faults. The invariants follow from IInv, which ties the row's lock  *)
(* to whoever has the row in hand, and what each has in hand to the row.   *)
(***************************************************************************)
EXTENDS TaskExecution, TLAPS

Data == [canceled : BOOLEAN, done : BOOLEAN, over : BOOLEAN]

\* The lock is held by exactly the run, or the call, that has the row in hand.
LockInv ==
    /\ \A r \in Run : pc[r] # "idle" <=> lock = r
    /\ \A c \in Client : call[c] = "locked" <=> lock = c

\* Rows and data are there while they are used.
InHandInv ==
    \A r \in Run :
        /\ pc[r] # "idle" => staged[r] \in Row
        /\ pc[r] \in {"set_info", "exec", "del_info"} => data[r] \in Data
        /\ listener[r] # "off" => data[r] \in Data

\* What is held can run, and is held as it is.
HeldInv ==
    /\ \A r \in Run : lock = r => row.status \in {"not_started", "failed"}
    /\ \A c \in Client : lock = c => row.status = "not_started"

Settled(t) == {SettleTask(t, b, o) : b \in BOOLEAN, o \in Outcome}

StagedInv ==
    \A r \in Run :
        /\ pc[r] \in {"set_info", "exec", "del_info"} => (row.status = "failed" => CanRetry(row))
        /\ pc[r] \in {"set_info", "exec"} => staged[r] = Taken(row)
        /\ pc[r] \in {"del_info", "commit"} =>
              \/ staged[r] = [row EXCEPT !.status = "canceled"]
              \/ (row.status = "failed" => CanRetry(row)) /\ staged[r] \in Settled(Taken(row))

CountInv ==
    row.fails - row.retry \in IF row.status = "failed" THEN {1}
                              ELSE IF row.status = "canceled" THEN {0, 1} ELSE {0}

IInv ==
    /\ TypeOK
    /\ LockInv
    /\ InHandInv
    /\ HeldInv
    /\ StagedInv
    /\ CountInv
    /\ RunningIsReachable
    /\ CanceledAnswerHolds

-----------------------------------------------------------------------------
(* What is done to a row. *)

\* A row stays a row when one field changes within its type.
LEMMA RowUpdate ==
    ASSUME NEW t \in Row, NEW s \in Status
    PROVE  [t EXCEPT !.status = s] \in Row
  BY DEF Row

\* A task that can run is a row still once its run is counted.
LEMMA TakenRow ==
    ASSUME NEW t \in Row, t.status = "failed" => CanRetry(t)
    PROVE  /\ Taken(t) \in Row
           /\ Taken(t).ctl = t.ctl
           /\ Taken(t).fails = t.fails
           /\ Taken(t).max = t.max
           /\ Taken(t).retry = t.retry + (IF t.status = "failed" THEN 1 ELSE 0)
  BY ConstantsAssumption DEF Row, Taken, CanRetry

\* Settling gives a row: there is a step left whenever the work continues.
LEMMA SettledRow ==
    ASSUME NEW t \in Row, NEW b \in BOOLEAN, NEW o \in Outcome,
           o = "continue" => t.steps > 0
    PROVE  SettleTask(t, b, o) \in Row
  <1> USE DEF Row, Status
  <1>0. /\ t.retry \in 0..MaxRetry /\ t.max \in 0..MaxRetry /\ t.steps \in 0..MaxSteps
        /\ t.fails \in Nat /\ t.ctl \in BOOLEAN
    OBVIOUS
  <1>1. CASE b
    <2>1. SettleTask(t, b, o) = [status |-> "canceled", retry |-> t.retry, max |-> t.max,
                                  steps |-> t.steps, fails |-> t.fails, ctl |-> t.ctl]
      BY <1>1 DEF SettleTask
    <2> QED
      BY <1>0, <2>1
  <1>2. CASE ~b /\ o = "error"
    <2>1. SettleTask(t, b, o) = [status |-> "failed", retry |-> t.retry, max |-> t.max,
                                  steps |-> t.steps, fails |-> t.fails + 1, ctl |-> t.ctl]
      BY <1>2 DEF SettleTask, Failed
    <2> QED
      BY <1>0, <2>1
  <1>3. CASE ~b /\ o = "final_error"
    <2>1. SettleTask(t, b, o) = [status |-> "failed", retry |-> t.retry, max |-> t.retry,
                                  steps |-> t.steps, fails |-> t.fails + 1, ctl |-> t.ctl]
      BY <1>3 DEF SettleTask, Failed
    <2> QED
      BY <1>0, <2>1
  <1>4. CASE ~b /\ o = "continue"
    <2>1. SettleTask(t, b, o) = [status |-> "not_started", retry |-> t.retry, max |-> t.max,
                                  steps |-> t.steps - 1, fails |-> t.fails, ctl |-> t.ctl]
      BY <1>4 DEF SettleTask
    <2>2. t.steps - 1 \in 0..MaxSteps
      BY <1>0, <1>4, ConstantsAssumption
    <2> QED
      BY <1>0, <2>1, <2>2
  <1>5. CASE ~b /\ o = "ok"
    <2>1. SettleTask(t, b, o) = [status |-> "done", retry |-> t.retry, max |-> t.max,
                                  steps |-> t.steps, fails |-> t.fails, ctl |-> t.ctl]
      BY <1>5 DEF SettleTask
    <2> QED
      BY <1>0, <2>1
  <1> QED
    BY <1>1, <1>2, <1>3, <1>4, <1>5 DEF Outcome

\* Settling counts a failure exactly when it says failed, and only then gives
\* up the retries left.
LEMMA SettledCounts ==
    ASSUME NEW t \in Row, NEW s \in Settled(t)
    PROVE  /\ s.retry = t.retry
           /\ s.max \in IF s.status = "failed" THEN {t.max, t.retry} ELSE {t.max}
           /\ s.fails = t.fails + (IF s.status = "failed" THEN 1 ELSE 0)
  <1>1. PICK b \in BOOLEAN, o \in Outcome : s = SettleTask(t, b, o)
    BY DEF Settled
  <1> USE DEF Row, Status
  <1>2. CASE b
    BY <1>1, <1>2 DEF SettleTask
  <1>3. CASE ~b /\ o \in {"error", "final_error"}
    BY <1>1, <1>3 DEF SettleTask, Failed
  <1>4. CASE ~b /\ o = "continue"
    <2>1. s = [t EXCEPT !.status = "not_started", !.steps = t.steps - 1]
      BY <1>1, <1>4 DEF SettleTask
    <2>2. s = [status |-> "not_started", retry |-> t.retry, max |-> t.max,
               steps |-> t.steps - 1, fails |-> t.fails, ctl |-> t.ctl]
      BY <2>1
    <2> QED
      BY <2>2
  <1>5. CASE ~b /\ o = "ok"
    BY <1>1, <1>5 DEF SettleTask
  <1> QED
    BY <1>2, <1>3, <1>4, <1>5 DEF Outcome

-----------------------------------------------------------------------------
(* Every step keeps IInv. *)

\* A fault leaves the count of faults within its bound.
LEMMA FaultType ==
    ASSUME TypeOK, Fault
    PROVE  faults' \in 0..MaxFaults
  BY ConstantsAssumption DEF TypeOK, Fault

\* The end of a transaction leaves the data to the listener, if there is one.
LEMMA EndTxType ==
    ASSUME TypeOK, InHandInv, NEW r \in Run, EndTx(r)
    PROVE  /\ pc' \in [Run -> {"idle", "set_info", "exec", "del_info", "commit"}]
           /\ staged' \in [Run -> Row \cup {None}]
           /\ data' \in [Run -> Data \cup {None}]
           /\ listener[r] # "off" => data'[r] \in Data
  <1>1. listener[r] # "off" => [data[r] EXCEPT !.over = TRUE] \in Data
    BY DEF InHandInv, Data
  <1> QED
    BY <1>1 DEF TypeOK, EndTx, Data

\* No run is None or a client, and no client is None.
LEMMA Distinct ==
    /\ None \notin Run /\ None \notin Client
    /\ \A r \in Run, c \in Client : r # c
  BY ConstantsAssumption DEF Run

\* Taking a task whose job is off: only the taker holds the lock, nothing is committed.
LEMMA LoadInactiveKeeps ==
    ASSUME IInv, NEW r \in Run, LoadInactive(r)
    PROVE  IInv'
  <1> USE Distinct DEF IInv, LoadInactive, LockTask
  <1>0. [row EXCEPT !.status = "canceled"] \in Row
    BY RowUpdate DEF TypeOK, Status
  <1>1. TypeOK'
    BY <1>0 DEF TypeOK, InHandInv, Data
  <1>2. LockInv'
    BY DEF TypeOK, LockInv
  <1>3. InHandInv'
    BY <1>0 DEF TypeOK, InHandInv, Data
  <1>4. HeldInv'
    BY DEF TypeOK, LockInv, HeldInv
  <1>5. StagedInv'
    BY DEF TypeOK, LockInv, StagedInv
  <1>6. CountInv'
    BY DEF CountInv
  <1>7. RunningIsReachable'
    BY DEF TypeOK, LockInv, RunningIsReachable
  <1>8. CanceledAnswerHolds'
    BY DEF TypeOK, LockInv, HeldInv, CanceledAnswerHolds
  <1> QED
    BY <1>1, <1>2, <1>3, <1>4, <1>5, <1>6, <1>7, <1>8

\* Taking a task: it was free, so nobody else had it, and its retry counts the failure before.
LEMMA LoadKeeps ==
    ASSUME IInv, NEW r \in Run, Load(r)
    PROVE  IInv'
  <1> USE Distinct DEF IInv, Load, LockTask
  <1>0. Taken(row) \in Row
    BY TakenRow DEF TypeOK
  <1>1. TypeOK'
    BY <1>0 DEF TypeOK, InHandInv, Data
  <1>2. LockInv'
    BY DEF TypeOK, LockInv
  <1>3. InHandInv'
    BY <1>0 DEF TypeOK, InHandInv, Data
  <1>4. HeldInv'
    BY DEF TypeOK, LockInv, HeldInv
  <1>5. StagedInv'
    BY DEF TypeOK, LockInv, StagedInv
  <1>6. CountInv'
    BY DEF CountInv
  <1>7. RunningIsReachable'
    BY DEF TypeOK, LockInv, RunningIsReachable
  <1>8. CanceledAnswerHolds'
    BY DEF TypeOK, LockInv, HeldInv, CanceledAnswerHolds
  <1> QED
    BY <1>1, <1>2, <1>3, <1>4, <1>5, <1>6, <1>7, <1>8

\* The entry in redis is written by the one run that holds the row.
LEMMA SetInfoKeeps ==
    ASSUME IInv, NEW r \in Run, SetInfo(r)
    PROVE  IInv'
  <1> USE Distinct DEF IInv, SetInfo
  <1>0. staged[r].ctl = row.ctl
    BY TakenRow DEF TypeOK, StagedInv
  <1>1. TypeOK'
    BY DEF TypeOK, InHandInv, Data
  <1>2. LockInv'
    BY DEF TypeOK, LockInv
  <1>3. InHandInv'
    BY DEF TypeOK, InHandInv, Data
  <1>4. HeldInv'
    BY DEF TypeOK, LockInv, HeldInv
  <1>5. StagedInv'
    BY DEF TypeOK, LockInv, StagedInv
  <1>6. CountInv'
    BY DEF CountInv
  <1>7. RunningIsReachable'
    BY <1>0 DEF TypeOK, LockInv, RunningIsReachable
  <1>8. CanceledAnswerHolds'
    BY DEF TypeOK, LockInv, HeldInv, CanceledAnswerHolds
  <1> QED
    BY <1>1, <1>2, <1>3, <1>4, <1>5, <1>6, <1>7, <1>8

\* A run given up before its work started leaves the row as it was.
LEMMA SetInfoFailsKeeps ==
    ASSUME IInv, NEW r \in Run, SetInfoFails(r)
    PROVE  IInv'
  <1> USE Distinct DEF IInv, SetInfoFails, EndTx, Fault
  <1>1. TypeOK'
    BY FaultType, EndTxType DEF TypeOK, InHandInv, Data
  <1>2. LockInv'
    BY DEF TypeOK, LockInv
  <1>3. InHandInv'
    BY DEF TypeOK, InHandInv, Data
  <1>4. HeldInv'
    BY DEF TypeOK, LockInv, HeldInv
  <1>5. StagedInv'
    BY DEF TypeOK, LockInv, StagedInv
  <1>6. CountInv'
    BY DEF CountInv
  <1>7. RunningIsReachable'
    BY DEF TypeOK, LockInv, RunningIsReachable
  <1>8. CanceledAnswerHolds'
    BY DEF TypeOK, LockInv, HeldInv, CanceledAnswerHolds
  <1> QED
    BY <1>1, <1>2, <1>3, <1>4, <1>5, <1>6, <1>7, <1>8

\* A run's time being up changes nothing but what its listener will see.
LEMMA TimeOutKeeps ==
    ASSUME IInv, NEW r \in Run, TimeOut(r)
    PROVE  IInv'
  <1> USE Distinct DEF IInv, TimeOut
  <1>1. TypeOK'
    BY DEF TypeOK, InHandInv, Data
  <1>2. LockInv'
    BY DEF TypeOK, LockInv
  <1>3. InHandInv'
    BY DEF TypeOK, InHandInv, Data
  <1>4. HeldInv'
    BY DEF TypeOK, LockInv, HeldInv
  <1>5. StagedInv'
    BY DEF TypeOK, LockInv, StagedInv
  <1>6. CountInv'
    BY DEF CountInv
  <1>7. RunningIsReachable'
    BY DEF TypeOK, LockInv, RunningIsReachable
  <1>8. CanceledAnswerHolds'
    BY DEF TypeOK, LockInv, HeldInv, CanceledAnswerHolds
  <1> QED
    BY <1>1, <1>2, <1>3, <1>4, <1>5, <1>6, <1>7, <1>8

\* Settling is in hand only; the row is committed later.
LEMMA FinishKeeps ==
    ASSUME IInv, NEW r \in Run, Finish(r)
    PROVE  IInv'
  <1> USE Distinct DEF IInv, Finish
  <1>0. /\ staged'[r] \in Row
        /\ staged'[r] \in Settled(Taken(row))
        /\ row.status = "failed" => CanRetry(row)
    <2>1. /\ staged[r] = Taken(row)
          /\ row.status = "failed" => CanRetry(row)
      BY DEF StagedInv
    <2>2. Taken(row) \in Row
      BY <2>1, TakenRow DEF TypeOK
    <2>3. PICK o \in Outcome :
             /\ o = "continue" => staged[r].steps > 0
             /\ staged' = [staged EXCEPT ![r] = SettleTask(staged[r], data[r].canceled, o)]
      OBVIOUS
    <2>4. data[r].canceled \in BOOLEAN
      BY DEF InHandInv, Data
    <2>5. staged'[r] = SettleTask(Taken(row), data[r].canceled, o)
      BY <2>1, <2>3 DEF TypeOK
    <2>6. staged'[r] \in Row
      BY <2>1, <2>2, <2>3, <2>4, <2>5, SettledRow
    <2>7. staged'[r] \in Settled(Taken(row))
      BY <2>4, <2>5 DEF Settled
    <2> QED
      BY <2>1, <2>6, <2>7
  <1>1. TypeOK'
    <2>1. staged' \in [Run -> Row \cup {None}]
      BY <1>0 DEF TypeOK
    <2>2. data' \in [Run -> Data \cup {None}]
      BY DEF TypeOK, InHandInv, Data
    <2>3. pc' \in [Run -> {"idle", "set_info", "exec", "del_info", "commit"}]
      BY DEF TypeOK
    <2> QED
      BY <2>1, <2>2, <2>3 DEF TypeOK, Data
  <1>2. LockInv'
    BY DEF TypeOK, LockInv
  <1>3. InHandInv'
    BY <1>0 DEF TypeOK, InHandInv, Data
  <1>4. HeldInv'
    BY DEF TypeOK, LockInv, HeldInv
  <1>5. StagedInv'
    BY <1>0 DEF TypeOK, LockInv, StagedInv
  <1>6. CountInv'
    BY DEF CountInv
  <1>7. RunningIsReachable'
    BY DEF TypeOK, LockInv, RunningIsReachable
  <1>8. CanceledAnswerHolds'
    BY DEF TypeOK, LockInv, HeldInv, CanceledAnswerHolds
  <1> QED
    BY <1>1, <1>2, <1>3, <1>4, <1>5, <1>6, <1>7, <1>8

\* The entry is deleted by the run that wrote it, after its work.
LEMMA DelInfoKeeps ==
    ASSUME IInv, NEW r \in Run, DelInfo(r)
    PROVE  IInv'
  <1> USE Distinct DEF IInv, DelInfo, Fault
  <1>1. TypeOK'
    BY FaultType DEF TypeOK, InHandInv, Data
  <1>2. LockInv'
    BY DEF TypeOK, LockInv
  <1>3. InHandInv'
    BY DEF TypeOK, InHandInv, Data
  <1>4. HeldInv'
    BY DEF TypeOK, LockInv, HeldInv
  <1>5. StagedInv'
    BY DEF TypeOK, LockInv, StagedInv
  <1>6. CountInv'
    BY DEF CountInv
  <1>7. RunningIsReachable'
    BY DEF TypeOK, LockInv, RunningIsReachable
  <1>8. CanceledAnswerHolds'
    BY DEF TypeOK, LockInv, HeldInv, CanceledAnswerHolds
  <1> QED
    BY <1>1, <1>2, <1>3, <1>4, <1>5, <1>6, <1>7, <1>8

\* What a run commits is the row it locked, settled: counts and types carry over.
LEMMA CommitKeeps ==
    ASSUME IInv, NEW r \in Run, Commit(r)
    PROVE  IInv'
  <1> USE Distinct DEF IInv, Commit, EndTx
  <1>1. TypeOK'
    BY EndTxType DEF TypeOK, InHandInv, Data
  <1>2. LockInv'
    BY DEF TypeOK, LockInv
  <1>3. InHandInv'
    BY DEF TypeOK, InHandInv, Data
  <1>4. HeldInv'
    BY DEF TypeOK, LockInv, HeldInv
  <1>5. StagedInv'
    BY DEF TypeOK, LockInv, StagedInv
  <1>6. CountInv'
    <2>1. /\ row \in Row
          /\ row' = staged[r]
          /\ row.status \in {"not_started", "failed"}
      BY DEF TypeOK, LockInv, HeldInv
    <2>2. CASE staged[r] = [row EXCEPT !.status = "canceled"]
      BY <2>1, <2>2 DEF CountInv, Row
    <2>3. CASE (row.status = "failed" => CanRetry(row)) /\ staged[r] \in Settled(Taken(row))
      <3>1. /\ Taken(row) \in Row
            /\ Taken(row).fails = row.fails
            /\ Taken(row).retry = row.retry + (IF row.status = "failed" THEN 1 ELSE 0)
        BY <2>1, <2>3, TakenRow
      <3>2. /\ staged[r].retry = Taken(row).retry
            /\ staged[r].fails = Taken(row).fails + (IF staged[r].status = "failed" THEN 1 ELSE 0)
        BY <2>3, <3>1, SettledCounts
      <3>3. Taken(row).fails = Taken(row).retry
        BY <2>1, <3>1 DEF CountInv, Row
      <3> QED
        BY <2>1, <3>1, <3>2, <3>3 DEF CountInv, Row
    <2> QED
      BY <2>2, <2>3 DEF StagedInv
  <1>7. RunningIsReachable'
    BY DEF TypeOK, LockInv, RunningIsReachable
  <1>8. CanceledAnswerHolds'
    BY DEF TypeOK, LockInv, HeldInv, CanceledAnswerHolds
  <1> QED
    BY <1>1, <1>2, <1>3, <1>4, <1>5, <1>6, <1>7, <1>8

\* A failed commit leaves the row as it was and frees it.
LEMMA RollbackKeeps ==
    ASSUME IInv, NEW r \in Run, Rollback(r)
    PROVE  IInv'
  <1> USE Distinct DEF IInv, Rollback, EndTx, Fault
  <1>1. TypeOK'
    BY FaultType, EndTxType DEF TypeOK, InHandInv, Data
  <1>2. LockInv'
    BY DEF TypeOK, LockInv
  <1>3. InHandInv'
    BY DEF TypeOK, InHandInv, Data
  <1>4. HeldInv'
    BY DEF TypeOK, LockInv, HeldInv
  <1>5. StagedInv'
    BY DEF TypeOK, LockInv, StagedInv
  <1>6. CountInv'
    BY DEF CountInv
  <1>7. RunningIsReachable'
    BY DEF TypeOK, LockInv, RunningIsReachable
  <1>8. CanceledAnswerHolds'
    BY DEF TypeOK, LockInv, HeldInv, CanceledAnswerHolds
  <1> QED
    BY <1>1, <1>2, <1>3, <1>4, <1>5, <1>6, <1>7, <1>8

\* A listener's loop only moves the listener.
LEMMA ListenerCheckKeeps ==
    ASSUME IInv, NEW r \in Run, ListenerCheck(r)
    PROVE  IInv'
  <1> USE Distinct DEF IInv, ListenerCheck
  <1>1. TypeOK'
    BY DEF TypeOK, InHandInv, Data
  <1>2. LockInv'
    BY DEF TypeOK, LockInv
  <1>3. InHandInv'
    BY DEF TypeOK, InHandInv, Data
  <1>4. HeldInv'
    BY DEF TypeOK, LockInv, HeldInv
  <1>5. StagedInv'
    BY DEF TypeOK, LockInv, StagedInv
  <1>6. CountInv'
    BY DEF CountInv
  <1>7. RunningIsReachable'
    BY DEF TypeOK, LockInv, RunningIsReachable
  <1>8. CanceledAnswerHolds'
    BY DEF TypeOK, LockInv, HeldInv, CanceledAnswerHolds
  <1> QED
    BY <1>1, <1>2, <1>3, <1>4, <1>5, <1>6, <1>7, <1>8

\* A command read marks the data of the run the listener belongs to.
LEMMA ListenerPopKeeps ==
    ASSUME IInv, NEW r \in Run, ListenerPop(r)
    PROVE  IInv'
  <1> USE Distinct DEF IInv, ListenerPop
  <1>0. [data[r] EXCEPT !.canceled = TRUE, !.over = TRUE] \in Data
    BY DEF InHandInv, Data
  <1>1. TypeOK'
    BY <1>0 DEF TypeOK, InHandInv, Data
  <1>2. LockInv'
    BY DEF TypeOK, LockInv
  <1>3. InHandInv'
    BY DEF TypeOK, InHandInv, Data
  <1>4. HeldInv'
    BY DEF TypeOK, LockInv, HeldInv
  <1>5. StagedInv'
    BY DEF TypeOK, LockInv, StagedInv
  <1>6. CountInv'
    BY DEF CountInv
  <1>7. RunningIsReachable'
    BY DEF TypeOK, LockInv, RunningIsReachable
  <1>8. CanceledAnswerHolds'
    BY DEF TypeOK, LockInv, HeldInv, CanceledAnswerHolds
  <1> QED
    BY <1>1, <1>2, <1>3, <1>4, <1>5, <1>6, <1>7, <1>8

\* An empty BLPOP only moves the listener.
LEMMA ListenerTimeOutKeeps ==
    ASSUME IInv, NEW r \in Run, ListenerTimeOut(r)
    PROVE  IInv'
  <1> USE Distinct DEF IInv, ListenerTimeOut
  <1>1. TypeOK'
    BY DEF TypeOK, InHandInv, Data
  <1>2. LockInv'
    BY DEF TypeOK, LockInv
  <1>3. InHandInv'
    BY DEF TypeOK, InHandInv, Data
  <1>4. HeldInv'
    BY DEF TypeOK, LockInv, HeldInv
  <1>5. StagedInv'
    BY DEF TypeOK, LockInv, StagedInv
  <1>6. CountInv'
    BY DEF CountInv
  <1>7. RunningIsReachable'
    BY DEF TypeOK, LockInv, RunningIsReachable
  <1>8. CanceledAnswerHolds'
    BY DEF TypeOK, LockInv, HeldInv, CanceledAnswerHolds
  <1> QED
    BY <1>1, <1>2, <1>3, <1>4, <1>5, <1>6, <1>7, <1>8

\* A listener on its way out deletes the list, never the entry or the row.
LEMMA ListenerLeaveKeeps ==
    ASSUME IInv, NEW r \in Run, ListenerLeave(r)
    PROVE  IInv'
  <1> USE Distinct DEF IInv, ListenerLeave
  <1>1. TypeOK'
    BY DEF TypeOK, InHandInv, Data
  <1>2. LockInv'
    BY DEF TypeOK, LockInv
  <1>3. InHandInv'
    BY DEF TypeOK, InHandInv, Data
  <1>4. HeldInv'
    BY DEF TypeOK, LockInv, HeldInv
  <1>5. StagedInv'
    BY DEF TypeOK, LockInv, StagedInv
  <1>6. CountInv'
    BY DEF CountInv
  <1>7. RunningIsReachable'
    BY DEF TypeOK, LockInv, RunningIsReachable
  <1>8. CanceledAnswerHolds'
    BY DEF TypeOK, LockInv, HeldInv, CanceledAnswerHolds
  <1> QED
    BY <1>1, <1>2, <1>3, <1>4, <1>5, <1>6, <1>7, <1>8

\* A cancel locks a row that nobody holds, or asks redis.
LEMMA CancelTaskKeeps ==
    ASSUME IInv, NEW c \in Client, CancelTask(c)
    PROVE  IInv'
  <1> USE Distinct DEF IInv, CancelTask, Answer
  <1>1. TypeOK'
    BY DEF TypeOK, InHandInv, Data
  <1>2. LockInv'
    BY DEF TypeOK, LockInv
  <1>3. InHandInv'
    BY DEF TypeOK, InHandInv, Data
  <1>4. HeldInv'
    BY DEF TypeOK, LockInv, HeldInv, CanCancel
  <1>5. StagedInv'
    BY DEF TypeOK, LockInv, StagedInv
  <1>6. CountInv'
    BY DEF CountInv
  <1>7. RunningIsReachable'
    BY DEF TypeOK, LockInv, RunningIsReachable
  <1>8. CanceledAnswerHolds'
    BY DEF TypeOK, LockInv, HeldInv, CanceledAnswerHolds
  <1> QED
    BY <1>1, <1>2, <1>3, <1>4, <1>5, <1>6, <1>7, <1>8

\* A cancel committed was of a row that its client held.
LEMMA CommitCancelKeeps ==
    ASSUME IInv, NEW c \in Client, CommitCancel(c)
    PROVE  IInv'
  <1> USE Distinct DEF IInv, CommitCancel, Answer
  <1>0. /\ row.status = "not_started"
        /\ row' \in Row
        /\ row'.status = "canceled"
        /\ row'.fails = row.fails /\ row'.retry = row.retry
    BY RowUpdate DEF TypeOK, LockInv, HeldInv, Row, Status
  <1>1. TypeOK'
    BY <1>0 DEF TypeOK, InHandInv, Data
  <1>2. LockInv'
    BY DEF TypeOK, LockInv
  <1>3. InHandInv'
    BY DEF TypeOK, InHandInv, Data
  <1>4. HeldInv'
    BY DEF TypeOK, LockInv, HeldInv
  <1>5. StagedInv'
    BY DEF TypeOK, LockInv, StagedInv
  <1>6. CountInv'
    BY <1>0 DEF CountInv
  <1>7. RunningIsReachable'
    BY DEF TypeOK, LockInv, RunningIsReachable
  <1>8. CanceledAnswerHolds'
    BY DEF TypeOK, LockInv, HeldInv, CanceledAnswerHolds
  <1> QED
    BY <1>1, <1>2, <1>3, <1>4, <1>5, <1>6, <1>7, <1>8

\* A cancel given up leaves the row as it was and frees it.
LEMMA RollbackCancelKeeps ==
    ASSUME IInv, NEW c \in Client, RollbackCancel(c)
    PROVE  IInv'
  <1> USE Distinct DEF IInv, RollbackCancel, Fault, Answer
  <1>1. TypeOK'
    BY FaultType DEF TypeOK, InHandInv, Data
  <1>2. LockInv'
    BY DEF TypeOK, LockInv
  <1>3. InHandInv'
    BY DEF TypeOK, InHandInv, Data
  <1>4. HeldInv'
    BY DEF TypeOK, LockInv, HeldInv
  <1>5. StagedInv'
    BY DEF TypeOK, LockInv, StagedInv
  <1>6. CountInv'
    BY DEF CountInv
  <1>7. RunningIsReachable'
    BY DEF TypeOK, LockInv, RunningIsReachable
  <1>8. CanceledAnswerHolds'
    BY DEF TypeOK, LockInv, HeldInv, CanceledAnswerHolds
  <1> QED
    BY <1>1, <1>2, <1>3, <1>4, <1>5, <1>6, <1>7, <1>8

\* The look at redis changes only the call.
LEMMA CancelInProgressTaskKeeps ==
    ASSUME IInv, NEW c \in Client, CancelInProgressTask(c)
    PROVE  IInv'
  <1> USE Distinct DEF IInv, CancelInProgressTask, Answer
  <1>1. TypeOK'
    BY DEF TypeOK, InHandInv, Data
  <1>2. LockInv'
    BY DEF TypeOK, LockInv
  <1>3. InHandInv'
    BY DEF TypeOK, InHandInv, Data
  <1>4. HeldInv'
    BY DEF TypeOK, LockInv, HeldInv
  <1>5. StagedInv'
    BY DEF TypeOK, LockInv, StagedInv
  <1>6. CountInv'
    BY DEF CountInv
  <1>7. RunningIsReachable'
    BY DEF TypeOK, LockInv, RunningIsReachable
  <1>8. CanceledAnswerHolds'
    BY DEF TypeOK, LockInv, HeldInv, CanceledAnswerHolds
  <1> QED
    BY <1>1, <1>2, <1>3, <1>4, <1>5, <1>6, <1>7, <1>8

\* A command pushed changes only the list and the call.
LEMMA PushCancelKeeps ==
    ASSUME IInv, NEW c \in Client, PushCancel(c)
    PROVE  IInv'
  <1> USE Distinct DEF IInv, PushCancel, Answer
  <1>1. TypeOK'
    <2>1. faults' \in 0..MaxFaults
      BY ConstantsAssumption DEF ConstantsAssumption, TypeOK, Fault
    <2>2. ctrl' \in Nat
      BY DEF TypeOK
    <2> QED
      BY <2>1, <2>2 DEF TypeOK, InHandInv, Data
  <1>2. LockInv'
    BY DEF TypeOK, LockInv
  <1>3. InHandInv'
    BY DEF TypeOK, InHandInv, Data
  <1>4. HeldInv'
    BY DEF TypeOK, LockInv, HeldInv
  <1>5. StagedInv'
    BY DEF TypeOK, LockInv, StagedInv
  <1>6. CountInv'
    BY DEF CountInv
  <1>7. RunningIsReachable'
    BY DEF TypeOK, LockInv, RunningIsReachable
  <1>8. CanceledAnswerHolds'
    BY DEF TypeOK, LockInv, HeldInv, CanceledAnswerHolds
  <1> QED
    BY <1>1, <1>2, <1>3, <1>4, <1>5, <1>6, <1>7, <1>8

\* A crash frees the row if a run of the process held it, and leaves the other runs alone.
LEMMA CrashKeeps ==
    ASSUME IInv, NEW w \in Worker, Crash(w)
    PROVE  IInv'
  <1> DEFINE mine == {r \in Run : WorkerOf(r) = w}
  <1>0. /\ \A r \in mine : pc'[r] = "idle" /\ staged'[r] = None /\ data'[r] = None /\ listener'[r] = "off"
        /\ \A r \in Run \ mine : /\ pc'[r] = pc[r] /\ staged'[r] = staged[r]
                                 /\ data'[r] = data[r] /\ listener'[r] = listener[r]
        /\ lock' = IF lock \in mine THEN None ELSE lock
        /\ UNCHANGED <<row, active, info, ctrl, call>>
    BY DEF Crash
  <1> HIDE DEF mine
  <1>a. mine \subseteq Run
    BY DEF mine
  <1> USE Distinct DEF IInv
  <1>1. TypeOK'
    <2>1. faults' \in 0..MaxFaults
      BY FaultType DEF Crash
    <2>2. /\ pc' \in [Run -> {"idle", "set_info", "exec", "del_info", "commit"}]
          /\ staged' \in [Run -> Row \cup {None}]
          /\ data' \in [Run -> Data \cup {None}]
          /\ listener' \in [Run -> {"off", "check", "wait", "leave"}]
      BY DEF TypeOK, Crash, Data
    <2>3. lock' \in Run \cup Client \cup {None}
      BY <1>0 DEF TypeOK
    <2> QED
      BY <1>0, <2>1, <2>2, <2>3 DEF TypeOK, Data
  <1>2. LockInv'
    BY <1>0, <1>a DEF TypeOK, LockInv
  <1>3. InHandInv'
    BY <1>0, <1>a DEF InHandInv
  <1>4. HeldInv'
    BY <1>0, <1>a DEF HeldInv
  <1>5. StagedInv'
    BY <1>0, <1>a DEF StagedInv
  <1>6. CountInv'
    BY <1>0 DEF CountInv
  <1>7. RunningIsReachable'
    BY <1>0, <1>a DEF RunningIsReachable
  <1>8. CanceledAnswerHolds'
    BY <1>0 DEF CanceledAnswerHolds
  <1> QED
    BY <1>1, <1>2, <1>3, <1>4, <1>5, <1>6, <1>7, <1>8

\* What a user does to the job, and a step that changes nothing.
LEMMA OtherKeeps ==
    ASSUME IInv, ToggleJob \/ UNCHANGED vars
    PROVE  IInv'
  <1> USE DEF IInv, ToggleJob, vars
  <1>1. TypeOK'
    BY DEF TypeOK
  <1>2. LockInv' /\ InHandInv' /\ HeldInv' /\ CountInv'
    BY DEF LockInv, InHandInv, HeldInv, CountInv
  <1>3. StagedInv'
    BY DEF StagedInv
  <1>4. RunningIsReachable' /\ CanceledAnswerHolds'
    BY DEF RunningIsReachable, CanceledAnswerHolds
  <1> QED
    BY <1>1, <1>2, <1>3, <1>4

\* IInv holds at first: no run has anything in hand.
LEMMA InitIInv == Init => IInv
  <1> SUFFICES ASSUME Init PROVE IInv
    OBVIOUS
  <1> USE Distinct, ConstantsAssumption DEF Init
  <1>1. row \in Row /\ row.status = "not_started" /\ row.fails = 0 /\ row.retry = 0
    BY DEF Row, Status
  <1>2. TypeOK
    BY <1>1 DEF TypeOK
  <1>3. LockInv /\ InHandInv /\ HeldInv /\ StagedInv
    BY <1>1 DEF LockInv, InHandInv, HeldInv, StagedInv
  <1>4. CountInv /\ RunningIsReachable /\ CanceledAnswerHolds
    BY <1>1 DEF CountInv, RunningIsReachable, CanceledAnswerHolds
  <1> QED
    BY <1>2, <1>3, <1>4 DEF IInv

\* IInv is inductive: one lemma for each action.
LEMMA StepIInv == IInv /\ [Next]_vars => IInv'
  <1> SUFFICES ASSUME IInv, [Next]_vars PROVE IInv'
    OBVIOUS
  <1>1. ASSUME NEW r \in Run, RunStep(r) PROVE IInv'
    BY <1>1, LoadInactiveKeeps, LoadKeeps, SetInfoKeeps, SetInfoFailsKeeps, TimeOutKeeps,
       FinishKeeps, DelInfoKeeps, CommitKeeps, RollbackKeeps DEF RunStep
  <1>2. ASSUME NEW r \in Run, ListenerStep(r) PROVE IInv'
    BY <1>2, ListenerCheckKeeps, ListenerPopKeeps, ListenerTimeOutKeeps, ListenerLeaveKeeps
       DEF ListenerStep
  <1>3. ASSUME NEW c \in Client, CallStep(c) PROVE IInv'
    BY <1>3, CancelTaskKeeps, CommitCancelKeeps, RollbackCancelKeeps,
       CancelInProgressTaskKeeps, PushCancelKeeps DEF CallStep
  <1> QED
    BY <1>1, <1>2, <1>3, CrashKeeps, OtherKeeps DEF Next

\* IInv holds of every state the system reaches.
THEOREM Invariance == Spec => []IInv
  BY InitIInv, StepIInv, PTL DEF Spec

-----------------------------------------------------------------------------
(* What follows from IInv. *)

\* Every variable has its type: see TypeOK.
THEOREM TypeCorrect == Spec => []TypeOK
  <1>1. IInv => TypeOK
    BY DEF IInv
  <1> QED
    BY <1>1, Invariance, PTL

\* The lock of the row keeps the runs and the cancels of a task apart.
THEOREM MutualExclusion == Spec => []OneRunAtATime
  <1>1. IInv => OneRunAtATime
    BY Distinct DEF IInv, LockInv, OneRunAtATime
  <1> QED
    BY <1>1, Invariance, PTL

\* A task under way can be reached through redis.
THEOREM Reachable == Spec => []RunningIsReachable
  <1>1. IInv => RunningIsReachable
    BY DEF IInv
  <1> QED
    BY <1>1, Invariance, PTL

\* A task fails at most once more than it may be retried, over all its runs.
THEOREM RetryBudget == Spec => []FailuresAreCounted
  <1>1. IInv => FailuresAreCounted
    BY ConstantsAssumption DEF IInv, TypeOK, Row, CountInv, FailuresAreCounted, Status
  <1> QED
    BY <1>1, Invariance, PTL

\* A task reported canceled stays canceled.
THEOREM CanceledForGood == Spec => []CanceledAnswerHolds
  <1>1. IInv => CanceledAnswerHolds
    BY DEF IInv
  <1> QED
    BY <1>1, Invariance, PTL

\* A finished task changes no more, but for one failed for good, canceled.
THEOREM Final == Spec => FinalStays
  <1>1. IInv /\ [Next]_vars =>
          [/\ row.status \in {"done", "canceled"} => row' = row
           /\ Finished(row) => row' \in {row, [row EXCEPT !.status = "canceled"]}]_vars
    <2> SUFFICES ASSUME IInv, Next, row' # row
                 PROVE  /\ row.status \in {"not_started", "failed"}
                        /\ Finished(row) => row' = [row EXCEPT !.status = "canceled"]
      BY DEF vars
    <2>1. ASSUME NEW r \in Run, Commit(r)
          PROVE  /\ row.status \in {"not_started", "failed"}
                 /\ Finished(row) => row' = [row EXCEPT !.status = "canceled"]
      BY <2>1 DEF IInv, Commit, LockInv, HeldInv, StagedInv, Finished
    <2>2. ASSUME NEW c \in Client, CommitCancel(c)
          PROVE  /\ row.status \in {"not_started", "failed"}
                 /\ Finished(row) => row' = [row EXCEPT !.status = "canceled"]
      BY <2>2 DEF IInv, CommitCancel, LockInv, HeldInv
    <2>3. \/ \E r \in Run : Commit(r)
          \/ \E c \in Client : CommitCancel(c)
      BY DEF Next, RunStep, LoadInactive, Load, SetInfo, SetInfoFails, TimeOut, Finish, DelInfo,
             Rollback, ListenerStep, ListenerCheck, ListenerPop, ListenerTimeOut, ListenerLeave,
             CallStep, CancelTask, RollbackCancel, CancelInProgressTask, PushCancel, Crash, ToggleJob
    <2> QED
      BY <2>1, <2>2, <2>3
  <1> QED
    BY <1>1, Invariance, PTL DEF Spec, FinalStays

-----------------------------------------------------------------------------
(* TaskExecution implements TaskLifecycle. *)

\* The task as TaskLifecycle sees it.
Seen(t) == [status |-> t.status, retry |-> t.retry, max |-> t.max, fails |-> t.fails]

\* A run's commit is Settle, or Cancel for a job turned off.
LEMMA CommitRefines ==
    ASSUME IInv, NEW r \in Run, Commit(r)
    PROVE  Lifecycle!Settle \/ Lifecycle!Cancel
  <1>1. /\ lock = r /\ lock # None /\ lock' = None
        /\ row' = staged[r] /\ row \in Row /\ staged[r] \in Row
        /\ row.status \in {"not_started", "failed"}
    BY Distinct DEF IInv, TypeOK, LockInv, InHandInv, HeldInv, Commit, EndTx
  <1>2. CASE staged[r] = [row EXCEPT !.status = "canceled"]
    <2>1. Seen(row)' = [Seen(row) EXCEPT !.status = "canceled"]
      BY <1>1, <1>2 DEF Seen, Row
    <2> QED
      BY <1>1, <2>1 DEF Lifecycle!Cancel, Seen
  <1>3. CASE (row.status = "failed" => CanRetry(row)) /\ staged[r] \in Settled(Taken(row))
    <2> DEFINE s == staged[r]
    <2>1. /\ Taken(row) \in Row
          /\ Taken(row).fails = row.fails /\ Taken(row).max = row.max
          /\ Taken(row).retry = row.retry + (IF row.status = "failed" THEN 1 ELSE 0)
      BY <1>1, <1>3, TakenRow
    <2>2. /\ s.retry = Taken(row).retry
          /\ s.max \in IF s.status = "failed" THEN {Taken(row).max, Taken(row).retry} ELSE {Taken(row).max}
          /\ s.fails = Taken(row).fails + (IF s.status = "failed" THEN 1 ELSE 0)
      BY <1>3, <2>1, SettledCounts
    <2>3. s.status \in Status
      BY <1>1 DEF Row
    <2>4. s.retry = Lifecycle!Try(Seen(row))
      BY <1>1, <2>1, <2>2 DEF Lifecycle!Try, Seen, Row
    <2>5. Lifecycle!CanRun(Seen(row))
      BY <1>1, <1>3 DEF Lifecycle!CanRun, CanRetry, Seen
    <2>6. /\ Seen(row)' = [status |-> s.status, retry |-> Lifecycle!Try(Seen(row)), max |-> s.max,
                           fails |-> row.fails + (IF s.status = "failed" THEN 1 ELSE 0)]
          /\ s.max \in IF s.status = "failed" THEN {row.max, Lifecycle!Try(Seen(row))} ELSE {row.max}
      BY <1>1, <2>1, <2>2, <2>4 DEF Seen
    <2> QED
      BY <1>1, <2>3, <2>5, <2>6 DEF Lifecycle!Settle, Lifecycle!Status, Status, Seen
  <1> QED
    BY <1>2, <1>3 DEF IInv, StagedInv, Commit

\* A client's commit is Cancel.
LEMMA CommitCancelRefines ==
    ASSUME IInv, NEW c \in Client, CommitCancel(c)
    PROVE  Lifecycle!Cancel
  <1>1. /\ lock # None /\ lock' = None
        /\ row' = [row EXCEPT !.status = "canceled"] /\ row \in Row
        /\ row.status = "not_started"
    BY Distinct DEF IInv, TypeOK, LockInv, HeldInv, CommitCancel
  <1>2. Seen(row)' = [Seen(row) EXCEPT !.status = "canceled"]
    BY <1>1 DEF Seen, Row
  <1> QED
    BY <1>1, <1>2 DEF Lifecycle!Cancel, Seen

\* Every other step takes the task, lets it go, or does nothing to it.
LEMMA OtherRefines ==
    ASSUME IInv, [Next]_vars, row' = row
    PROVE  Lifecycle!Take \/ Lifecycle!LetGo \/ UNCHANGED Lifecycle!vars
  <1>1. Seen(row)' = Seen(row)
    BY DEF Seen
  <1> QED
    BY <1>1 DEF Lifecycle!Take, Lifecycle!LetGo, Lifecycle!vars, Seen

\* Whatever the workers, the clients and the faults do to a task is what
\* TaskLifecycle lets happen to it.
THEOREM Implementation == Spec => ImplementsLifecycle
  <1>1. Init => Lifecycle!Init
    <2> SUFFICES ASSUME Init PROVE Lifecycle!Init
      OBVIOUS
    <2> QED
      BY DEF Init, Lifecycle!Init
  <1>2. IInv /\ [Next]_vars => [Lifecycle!Next]_Lifecycle!vars
    <2> SUFFICES ASSUME IInv, [Next]_vars PROVE [Lifecycle!Next]_Lifecycle!vars
      OBVIOUS
    <2>1. CASE \E r \in Run : Commit(r)
      BY <2>1, CommitRefines DEF Lifecycle!Next
    <2>2. CASE \E c \in Client : CommitCancel(c)
      BY <2>2, CommitCancelRefines DEF Lifecycle!Next
    <2>3. CASE row' = row
      BY <2>3, OtherRefines DEF Lifecycle!Next
    <2>4. \/ \E r \in Run : Commit(r)
          \/ \E c \in Client : CommitCancel(c)
          \/ row' = row
      BY DEF Next, vars, RunStep, LoadInactive, Load, SetInfo, SetInfoFails, TimeOut, Finish, DelInfo,
             Rollback, ListenerStep, ListenerCheck, ListenerPop, ListenerTimeOut, ListenerLeave,
             CallStep, CancelTask, RollbackCancel, CancelInProgressTask, PushCancel, Crash, ToggleJob
    <2> QED
      BY <2>1, <2>2, <2>3, <2>4
  <1> QED
    BY <1>1, <1>2, Invariance, PTL DEF Spec, ImplementsLifecycle, Lifecycle!Spec
=============================================================================
