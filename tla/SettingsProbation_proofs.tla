---------------------- MODULE SettingsProbation_proofs ----------------------
(***************************************************************************)
(* Proofs about SettingsProbation, for any clients, changes, retries and   *)
(* faults. IInv says what a transaction in its middle can rely on: what it *)
(* holds nobody else does, and what it read under a lock it still holds is *)
(* as it read it.  Falls says on top of it what can be fallen back to:     *)
(* which trial is pending, what it would restore, and what the cluster     *)
(* runs while nobody is applying anything.                                 *)
(***************************************************************************)
EXTENDS SettingsProbation, SequenceTheorems, TLAPS

Alive(task) == task.status = "not_started" \/ (task.status = "failed" /\ task.retry < MaxRetry)

\* No lock is held twice.
Exclusive == \A a, b \in Actor : a # b => tx[a].holds \cap tx[b].holds = {}

\* No trial is of a later version than the setting, one undone is of an earlier.
Versions(ts, ver) ==
    \A t \in DOMAIN ts :
       /\ ts[t].ver <= ver
       /\ ts[t].status \in {"done", "failed"} => ts[t].ver < ver

UpdateGood(x, ts, l) ==
    /\ x.at \in {"read", "locked", "applied", "committed"}
    /\ x.at # "committed" =>
          /\ UpdateLock \in x.holds
          /\ Len(ts) < l
          /\ x.task # 0 => ts[x.task].status \in {"not_started", "canceled"}
    /\ x.at = "read" => x.task = 0 /\ kind = "traefik"
    /\ x.at \in {"locked", "applied"} => RevertLock \in x.holds
    /\ x.at = "applied" => Written(x.task) \subseteq x.holds
    /\ x.at = "committed" => x.task # 0

ConfirmGood(x, ts, ver) ==
    /\ x.task # 0
    /\ x.at \in {"read", "locked"}
    /\ x.at = "locked" => SettingRow \in x.holds /\ ts[x.task].ver = ver

RevertGood(x, ts, ver) ==
    /\ x.task # 0
    /\ x.at \in {"read", "locked", "applied", "skip"}
    /\ x.at \in {"applied", "skip"} => RevertLock \in x.holds
    /\ x.at = "applied" => SettingRow \in x.holds
    /\ x.at = "skip" => ts[x.task].ver < ver

UndoGood(x, ts) == TaskRow(x.task) \in x.holds /\ Alive(ts[x.task])

\* The transaction x of a goes with the trials ts, the version of the setting and
\* the number of changes begun.
Good(a, x, ts, ver, l) ==
    /\ x.op = "none" => x.at = "idle"
    /\ x.op \in {"update", "confirm", "revertNow"} => a \in Client
    /\ x.op = "undo" => a \notin Client
    /\ x.task = 0 \/ x.task \in DOMAIN ts
    /\ x.op = "update" => UpdateGood(x, ts, l)
    /\ x.op = "confirm" => ConfirmGood(x, ts, ver)
    /\ x.op \in {"undo", "revertNow"} => RevertGood(x, ts, ver)
    /\ x.op = "undo" => UndoGood(x, ts)

AllGood == \A a \in Actor : Good(a, tx[a], tasks, setting.ver, last)

Core ==
    /\ kind \in Kinds
    /\ setting \in Row
    /\ tasks \in Seq(Task) /\ Len(tasks) <= last
    /\ tx \in [Actor -> Tx]
    /\ last \in 0..MaxChanges
    /\ Exclusive
    /\ Versions(tasks, setting.ver)
    /\ AllGood

Rest ==
    /\ running \in Config /\ before \in Config /\ vouched \in Config
    /\ up \in BOOLEAN
    /\ timers \subseteq Trials
    /\ answers \in 0..MaxAnswers /\ faults \in 0..MaxFaults
    /\ stood \subseteq Config /\ astray \subseteq Config

IInv == Core /\ Rest

-----------------------------------------------------------------------------
(* What Core says of trials, rows and locks. *)

\* The trials are numbered from 1, and there is a lock for each.
LEMMA TrialsTyped ==
    ASSUME Core
    PROVE  /\ Len(tasks) \in Nat /\ Trials = 1..Len(tasks)
           /\ Len(tasks) <= last /\ last \in Nat /\ last <= MaxChanges
           /\ Trials \subseteq 1..MaxChanges
           /\ 0 \notin Trials
           /\ \A t \in Trials : tasks[t] \in Task
  <1>1. Len(tasks) \in Nat /\ Trials = 1..Len(tasks)
    BY LenProperties DEF Core, Trials
  <1>2. Len(tasks) <= last /\ last \in Nat /\ last <= MaxChanges /\ MaxChanges \in Nat
    BY ProbationAssumption DEF Core, ProbationAssumption
  <1>3. Trials \subseteq 1..MaxChanges /\ 0 \notin Trials
    BY <1>1, <1>2
  <1>4. \A t \in Trials : tasks[t] \in Task
    BY <1>1, ElementOfSeq DEF Core
  <1> QED
    BY <1>1, <1>2, <1>3, <1>4

\* The trial found pending is one not started, if any is found.
LEMMA PendingTyped ==
    FindPending = 0 \/ (FindPending \in Trials /\ tasks[FindPending].status = "not_started")
  <1>1. CASE \E t \in Trials : Latest(t)
    <2>1. FindPending = CHOOSE t \in Trials : Latest(t)
      BY <1>1 DEF FindPending
    <2>2. FindPending \in Trials /\ Latest(FindPending)
      BY <1>1, <2>1
    <2> QED
      BY <2>2 DEF Latest, NotStarted
  <1>2. CASE ~\E t \in Trials : Latest(t)
    BY <1>2 DEF FindPending
  <1> QED
    BY <1>1, <1>2

LEMMA LocksTyped ==
    ASSUME Core
    PROVE  /\ UpdateLock \in Lock /\ (kind # "traefik" => RevertLock = UpdateLock)
           /\ RevertLock \in Lock /\ SettingRow \in Lock
           /\ \A t \in Trials : TaskRow(t) \in Lock
  <1>1. kind \in {"routing", "service", "traefik"}
    BY ProbationAssumption DEF ProbationAssumption, Core
  <1>2. UpdateLock \in Lock /\ (kind # "traefik" => RevertLock = UpdateLock)
    BY <1>1 DEF UpdateLock, RevertLock, Lock
  <1>3. RevertLock \in Lock /\ SettingRow \in Lock
    BY DEF RevertLock, Lock
  <1>4. \A t \in Trials : TaskRow(t) \in Lock
    BY TrialsTyped DEF Lock
  <1> QED
    BY <1>2, <1>3, <1>4

\* What an actor holds is free for it.
LEMMA HeldIsFree ==
    ASSUME Exclusive, NEW a \in Actor, NEW L, L \subseteq tx[a].holds
    PROVE  Free(L, a)
  BY DEF Exclusive, Free

LEMMA KindSame ==
    ASSUME kind' = kind
    PROVE  UpdateLock' = UpdateLock /\ RevertLock' = RevertLock
  BY DEF UpdateLock, RevertLock

LEMMA AllGoodNext ==
    ASSUME kind' = kind,
           \A b \in Actor : Good(b, tx'[b], tasks', setting'.ver, last')
    PROVE  AllGood'
  <1> SUFFICES ASSUME NEW b \in Actor
               PROVE  Good(b, tx[b], tasks, setting.ver, last)'
    BY DEF AllGood, Actor
  <1>1. Good(b, tx'[b], tasks', setting'.ver, last')
    OBVIOUS
  <1> QED
    BY <1>1, KindSame
    DEF Good, UpdateGood, ConfirmGood, RevertGood, UndoGood, Alive, TaskRow, SettingRow, Written

-----------------------------------------------------------------------------
(* One step of one transaction. *)

\* A transaction that takes the rows of L, which are free, or gives rows up,
\* leaves no row held twice.
LEMMA LocksKept ==
    ASSUME tx \in [Actor -> Tx], Exclusive,
           NEW a \in Actor, NEW x \in Tx, NEW L, Free(L, a),
           x.holds \subseteq tx[a].holds \cup L,
           tx' = [tx EXCEPT ![a] = x]
    PROVE  tx' \in [Actor -> Tx] /\ Exclusive'
  <1>1. tx' \in [Actor -> Tx]
    OBVIOUS
  <1>2. /\ tx'[a] = x
        /\ \A b \in Actor : b # a => tx'[b] = tx[b]
    OBVIOUS
  <1>3. ASSUME NEW b \in Actor, b # a
        PROVE  x.holds \cap tx[b].holds = {}
    <2>1. L \cap tx[b].holds = {} /\ tx[a].holds \cap tx[b].holds = {}
      BY <1>3 DEF Free, Exclusive
    <2> QED
      BY <2>1
  <1>4. ASSUME NEW b \in Actor, NEW c \in Actor, b # c
        PROVE  tx'[b].holds \cap tx'[c].holds = {}
    <2>1. CASE b = a
      BY <1>2, <1>3, <1>4, <2>1
    <2>2. CASE c = a
      <3>1. x.holds \cap tx[b].holds = {}
        BY <1>3, <1>4, <2>2
      <3> QED
        BY <1>2, <1>4, <2>2, <3>1
    <2>3. CASE b # a /\ c # a
      <3>1. tx[b].holds \cap tx[c].holds = {}
        BY <1>4 DEF Exclusive
      <3> QED
        BY <1>2, <2>3, <3>1
    <2> QED
      BY <2>1, <2>2, <2>3
  <1> QED
    BY <1>1, <1>4 DEF Exclusive, Actor

\* More changes begun change nothing for a transaction.
LEMMA MoreBegun ==
    ASSUME Core, NEW a, NEW x, NEW l \in Nat, last <= l,
           Good(a, x, tasks, setting.ver, last)
    PROVE  Good(a, x, tasks, setting.ver, l)
  <1>1. last \in Nat /\ Len(tasks) \in Nat
    BY TrialsTyped
  <1>2. x.op = "update" => UpdateGood(x, tasks, l)
    BY <1>1 DEF Good, UpdateGood
  <1> QED
    BY <1>2 DEF Good

\* A step of one transaction that writes no row.
LEMMA OneTx ==
    ASSUME Core,
           kind' = kind, setting' = setting, tasks' = tasks,
           last' \in 0..MaxChanges, last <= last',
           NEW a \in Actor, NEW x \in Tx, NEW L, Free(L, a),
           x.holds \subseteq tx[a].holds \cup L,
           Good(a, x, tasks, setting.ver, last'),
           tx' = [tx EXCEPT ![a] = x]
    PROVE  Core'
  <1>0. /\ tx \in [Actor -> Tx] /\ Exclusive /\ AllGood
        /\ MaxChanges \in Nat /\ last' \in Nat /\ last \in Nat /\ Len(tasks) \in Nat
    BY TrialsTyped, ProbationAssumption DEF Core, ProbationAssumption
  <1>1. tx' \in [Actor -> Tx] /\ Exclusive'
    BY <1>0, LocksKept
  <1>2. ASSUME NEW b \in Actor
        PROVE  Good(b, tx'[b], tasks', setting'.ver, last')
    <2>1. CASE b = a
      <3>1. tx'[b] = x
        BY <1>0, <2>1
      <3> QED
        BY <2>1, <3>1
    <2>2. CASE b # a
      <3>1. tx'[b] = tx[b] /\ Good(b, tx[b], tasks, setting.ver, last)
        BY <1>0, <2>2 DEF AllGood
      <3> QED
        BY <1>0, <3>1, MoreBegun
    <2> QED
      BY <2>1, <2>2
  <1>3. AllGood'
    BY <1>2, AllGoodNext
  <1>4. Versions(tasks, setting.ver)' /\ Len(tasks') <= last'
    <2>1. Len(tasks) <= last'
      BY <1>0 DEF Core
    <2> QED
      BY <2>1 DEF Core, Versions
  <1>5. (kind \in Kinds /\ setting \in Row /\ tasks \in Seq(Task))'
    BY DEF Core, Row, Task, Config
  <1> QED
    BY <1>1, <1>3, <1>4, <1>5 DEF Core

LEMMA IdleTyped == Idle \in Tx /\ Idle.op = "none" /\ Idle.at = "idle" /\ Idle.task = 0 /\ Idle.holds = {}
  <1>1. 1 \in Config /\ 0 \in 0..MaxChanges
    BY ProbationAssumption DEF ProbationAssumption, Config
  <1> QED
    BY <1>1 DEF Idle, Tx

LEMMA IdleGood ==
    ASSUME NEW a, NEW ts, NEW ver, NEW l
    PROVE  Good(a, Idle, ts, ver, l)
  BY IdleTyped DEF Good

\* So does one that ends having written none.
LEMMA EndKeeps ==
    ASSUME Core, NEW a \in Actor, End(a),
           kind' = kind, setting' = setting, tasks' = tasks, last' = last
    PROVE  Core'
  <1>1. /\ Free({}, a) /\ Idle.holds \subseteq tx[a].holds \cup {}
        /\ Idle \in Tx /\ Good(a, Idle, tasks, setting.ver, last')
    BY IdleTyped, IdleGood DEF Free
  <1>2. last' \in 0..MaxChanges /\ last <= last'
    BY TrialsTyped DEF Core
  <1> QED
    BY <1>1, <1>2, OneTx DEF End

-----------------------------------------------------------------------------
(* A step that writes rows. *)

\* A transaction that holds what was written goes with no more than it did; so
\* does any other for which the trial t or the setting have changed.
LEMMA OthersGood ==
    ASSUME Core, NEW b \in Actor, NEW t \in Trials, NEW task \in Task, NEW ver \in Nat,
           task.ver = tasks[t].ver,
           ver = setting.ver \/ (ver = setting.ver + 1 /\ SettingRow \notin tx[b].holds),
           \/ task.status = tasks[t].status /\ task.retry = tasks[t].retry
           \/ /\ TaskRow(t) \notin tx[b].holds
              /\ task.status = "canceled" \/ RevertLock \notin tx[b].holds
    PROVE  Good(b, tx[b], [tasks EXCEPT ![t] = task], ver, last)
  <1> DEFINE ts == [tasks EXCEPT ![t] = task]
             x == tx[b]
  <1>0. /\ Good(b, x, tasks, setting.ver, last) /\ x \in Tx
        /\ setting.ver \in Nat /\ Trials = 1..Len(tasks) /\ 0 \notin Trials
    BY TrialsTyped DEF Core, AllGood, Row
  <1>1. /\ DOMAIN ts = DOMAIN tasks /\ Len(ts) = Len(tasks)
        /\ ts[t] = task
        /\ \A u \in Trials : u # t => ts[u] = tasks[u]
        /\ \A u \in Trials : ts[u].ver = tasks[u].ver
    <2>1. /\ DOMAIN ts = DOMAIN tasks /\ ts[t] = task
          /\ \A u \in Trials : u # t => ts[u] = tasks[u]
      BY DEF Trials
    <2>2. Len(ts) = Len(tasks)
      BY <1>0, ExceptSeq DEF Core
    <2>3. \A u \in Trials : ts[u].ver = tasks[u].ver
      BY <2>1
    <2> QED
      BY <2>1, <2>2, <2>3
  <1> HIDE DEF ts
  <1>2. x.task = 0 \/ x.task \in Trials
    BY <1>0 DEF Good, Trials
  <1>3. ASSUME x.op = "update"
        PROVE  UpdateGood(x, ts, last)
    <2>1. UpdateGood(x, tasks, last)
      BY <1>0, <1>3 DEF Good
    <2>2. ASSUME x.at # "committed", x.task # 0
          PROVE  ts[x.task].status \in {"not_started", "canceled"}
      <3>1. RevertLock \in x.holds /\ tasks[x.task].status \in {"not_started", "canceled"}
        BY <2>1, <2>2, LocksTyped DEF UpdateGood
      <3> QED
        BY <1>1, <1>2, <2>2, <3>1
    <2> QED
      BY <1>1, <2>1, <2>2 DEF UpdateGood
  <1>4. ASSUME x.op = "confirm"
        PROVE  ConfirmGood(x, ts, ver)
    <2>1. ConfirmGood(x, tasks, setting.ver)
      BY <1>0, <1>4 DEF Good
    <2> QED
      BY <1>1, <1>2, <2>1 DEF ConfirmGood
  <1>5. ASSUME x.op \in {"undo", "revertNow"}
        PROVE  RevertGood(x, ts, ver)
    <2>1. RevertGood(x, tasks, setting.ver)
      BY <1>0, <1>5 DEF Good
    <2>2. ASSUME x.at = "skip"
          PROVE  ts[x.task].ver < ver
      <3>1. x.task \in Trials /\ tasks[x.task].ver < setting.ver
        BY <1>2, <2>1, <2>2 DEF RevertGood
      <3>2. tasks[x.task].ver \in Nat /\ ts[x.task].ver = tasks[x.task].ver
        BY <1>1, <3>1, TrialsTyped DEF Task
      <3> QED
        BY <1>0, <3>1, <3>2
    <2> QED
      BY <2>1, <2>2 DEF RevertGood
  <1>6. ASSUME x.op = "undo"
        PROVE  UndoGood(x, ts)
    <2>1. UndoGood(x, tasks) /\ x.task \in Trials
      BY <1>0, <1>2, <1>6 DEF Good, RevertGood
    <2>2. CASE x.task = t
      <3>1. task.status = tasks[t].status /\ task.retry = tasks[t].retry
        BY <2>1, <2>2 DEF UndoGood
      <3> QED
        BY <1>1, <2>1, <2>2, <3>1 DEF UndoGood, Alive
    <2>3. CASE x.task # t
      BY <1>1, <2>1, <2>3 DEF UndoGood
    <2> QED
      BY <2>2, <2>3
  <1>7. x.task = 0 \/ x.task \in DOMAIN ts
    BY <1>1, <1>2 DEF Trials
  <1> QED
    BY <1>0, <1>3, <1>4, <1>5, <1>6, <1>7 DEF Good, ts

\* The step of a that ends its transaction with the trial t written.
LEMMA OneTask ==
    ASSUME Core,
           NEW a \in Actor, NEW t \in Trials, NEW task \in Task,
           task.ver = tasks[t].ver,
           Free({TaskRow(t)}, a),
           task.status = "canceled" \/ Free({RevertLock}, a),
           setting' \in Row,
           setting'.ver = setting.ver \/ (setting'.ver = setting.ver + 1 /\ Free({SettingRow}, a)),
           task.status \in {"done", "failed"} => task.ver < setting'.ver,
           tasks' = [tasks EXCEPT ![t] = task],
           kind' = kind, last' = last, End(a)
    PROVE  Core'
  <1>0. /\ setting.ver \in Nat /\ setting'.ver \in Nat /\ setting.ver <= setting'.ver
        /\ Trials = 1..Len(tasks) /\ \A u \in Trials : tasks[u] \in Task
    BY TrialsTyped DEF Core, Row
  <1>1. /\ tasks' \in Seq(Task) /\ Len(tasks') = Len(tasks)
        /\ DOMAIN tasks' = Trials /\ tasks'[t] = task
        /\ \A u \in Trials : u # t => tasks'[u] = tasks[u]
    <2>1. /\ tasks' \in Seq(Task) /\ Len(tasks') = Len(tasks)
      BY <1>0, ExceptSeq DEF Core
    <2> QED
      BY <2>1 DEF Trials
  <1>2. tx' \in [Actor -> Tx] /\ Exclusive'
    <2>1. Free({}, a) /\ Idle.holds \subseteq tx[a].holds \cup {} /\ Idle \in Tx
      BY IdleTyped DEF Free
    <2> QED
      BY <2>1, LocksKept DEF Core, End
  <1>3. ASSUME NEW b \in Actor
        PROVE  Good(b, tx'[b], tasks', setting'.ver, last')
    <2>1. CASE b = a
      <3>1. tx'[b] = Idle
        BY <2>1 DEF Core, End
      <3> QED
        BY <3>1, IdleGood
    <2>2. CASE b # a
      <3>1. tx'[b] = tx[b]
        BY <2>2 DEF Core, End
      <3>2. TaskRow(t) \notin tx[b].holds
        BY <2>2 DEF Free
      <3>3. task.status = "canceled" \/ RevertLock \notin tx[b].holds
        BY <2>2 DEF Free
      <3>4. setting'.ver = setting.ver \/ (setting'.ver = setting.ver + 1 /\ SettingRow \notin tx[b].holds)
        BY <2>2 DEF Free
      <3>5. Good(b, tx[b], [tasks EXCEPT ![t] = task], setting'.ver, last)
        BY <1>0, <3>2, <3>3, <3>4, OthersGood
      <3> QED
        BY <3>1, <3>5
    <2> QED
      BY <2>1, <2>2
  <1>4. AllGood'
    BY <1>3, AllGoodNext
  <1>5. Versions(tasks', setting'.ver)
    <2> SUFFICES ASSUME NEW u \in Trials
                 PROVE  /\ tasks'[u].ver <= setting'.ver
                        /\ tasks'[u].status \in {"done", "failed"} => tasks'[u].ver < setting'.ver
      BY <1>1 DEF Versions
    <2>1. /\ tasks[u].ver <= setting.ver /\ tasks[u].ver \in Nat
          /\ tasks[u].status \in {"done", "failed"} => tasks[u].ver < setting.ver
      BY <1>0 DEF Core, Versions, Trials, Task
    <2>2. CASE u = t
      BY <1>0, <1>1, <2>1, <2>2
    <2>3. CASE u # t
      BY <1>0, <1>1, <2>1, <2>3
    <2> QED
      BY <2>2, <2>3
  <1>6. Versions(tasks, setting.ver)'
    BY <1>5 DEF Versions
  <1>7. (kind \in Kinds /\ setting \in Row /\ tasks \in Seq(Task) /\ Len(tasks) <= last /\ last \in 0..MaxChanges)'
    <2>1. tasks' \in Seq(Task)'
      BY <1>1 DEF Task, Config
    <2> QED
      BY <1>1, <2>1 DEF Core, Row, Config
  <1> QED
    BY <1>2, <1>4, <1>6, <1>7 DEF Core

\* A trial added, where nobody else is in the middle of an update.
LEMMA OneTrialMore ==
    ASSUME NEW ts \in Seq(Task), NEW task \in Task, NEW a, NEW x, NEW ver, NEW l,
           Good(a, x, ts, ver, l),
           x.op = "update" => x.at = "committed"
    PROVE  Good(a, x, Append(ts, task), ver, l)
  <1> DEFINE more == Append(ts, task)
  <1>1. /\ Len(ts) \in Nat /\ DOMAIN ts = 1..Len(ts) /\ DOMAIN more = 1..(Len(ts) + 1)
        /\ \A t \in DOMAIN ts : t \in DOMAIN more /\ more[t] = ts[t]
    <2>1. Len(ts) \in Nat /\ DOMAIN ts = 1..Len(ts)
      BY LenProperties
    <2>2. more \in Seq(Task) /\ Len(more) = Len(ts) + 1 /\ \A t \in 1..Len(ts) : more[t] = ts[t]
      BY AppendProperties
    <2>3. DOMAIN more = 1..(Len(ts) + 1)
      BY <2>2, LenProperties
    <2> QED
      BY <2>1, <2>2, <2>3
  <1> HIDE DEF more
  <1>2. x.task = 0 \/ (x.task \in DOMAIN ts /\ more[x.task] = ts[x.task])
    BY <1>1 DEF Good
  <1>3. x.op = "update" => UpdateGood(x, more, l)
    BY DEF Good, UpdateGood
  <1>4. x.op = "confirm" => ConfirmGood(x, more, ver)
    BY <1>2 DEF Good, ConfirmGood
  <1>5. x.op \in {"undo", "revertNow"} => RevertGood(x, more, ver)
    BY <1>2 DEF Good, RevertGood
  <1>6. x.op = "undo" => UndoGood(x, more)
    BY <1>2 DEF Good, UndoGood, RevertGood
  <1>7. x.task = 0 \/ x.task \in DOMAIN more
    BY <1>1, <1>2
  <1> QED
    BY <1>3, <1>4, <1>5, <1>6, <1>7 DEF Good, more

-----------------------------------------------------------------------------
(* Core is kept: the updates. *)

\* The transaction of an actor is typed and goes with what is committed.
LEMMA TxTyped ==
    ASSUME Core, NEW a \in Actor
    PROVE  /\ tx[a] \in Tx
           /\ Good(a, tx[a], tasks, setting.ver, last)
           /\ tx[a].task = 0 \/ tx[a].task \in Trials
           /\ tx[a].op \in {"none", "update", "confirm", "revertNow", "undo"}
  <1>1. tx[a] \in Tx /\ Good(a, tx[a], tasks, setting.ver, last)
    BY DEF Core, AllGood
  <1> QED
    BY <1>1 DEF Good, Tx, Trials

LEMMA SnapshotTyped ==
    ASSUME Core, NEW p \in Trials \cup {0}, NEW conf \in Config
    PROVE  Snapshot(p, conf) \in Config
  BY TrialsTyped DEF Snapshot, Task

LEMMA BeginUpdateKeeps ==
    ASSUME IInv, NEW c \in Client, BeginUpdate(c)
    PROVE  Core'
  <1> DEFINE x == IF kind = "traefik"
                  THEN [op |-> "update", at |-> "read", task |-> 0, conf |-> last + 2,
                        snap |-> running, holds |-> {UpdateLock}]
                  ELSE [op |-> "update", at |-> "locked", task |-> FindPending, conf |-> last + 2,
                        snap |-> Snapshot(FindPending, setting.conf), holds |-> {UpdateLock}]
  <1>0. /\ Core /\ c \in Actor
        /\ last \in Nat /\ MaxChanges \in Nat /\ last < MaxChanges /\ last' = last + 1
        /\ Len(tasks) \in Nat /\ Len(tasks) <= last
        /\ Trials \subseteq 1..MaxChanges
    BY TrialsTyped, ProbationAssumption DEF IInv, ProbationAssumption, BeginUpdate, Actor
  <1>1. FindPending \in Trials \cup {0}
    BY PendingTyped
  <1>2. x \in Tx
    <2>1. FindPending \in 0..MaxChanges
      BY <1>0, <1>1
    <2>2. last + 2 \in Config /\ running \in Config /\ 0 \in 0..MaxChanges
      BY <1>0 DEF Config, IInv, Rest
    <2>3. Snapshot(FindPending, setting.conf) \in Config
      BY <1>0, <1>1, SnapshotTyped DEF Core, Row
    <2>4. {UpdateLock} \in SUBSET Lock
      BY <1>0, LocksTyped
    <2> QED
      BY <2>1, <2>2, <2>3, <2>4 DEF Tx
  <1>3. Good(c, x, tasks, setting.ver, last')
    <2>1. UpdateGood(x, tasks, last')
      BY <1>0, PendingTyped, LocksTyped DEF UpdateGood
    <2> QED
      BY <1>1, <2>1 DEF Good, Trials
  <1>4. /\ Free({UpdateLock}, c) /\ x.holds \subseteq tx[c].holds \cup {UpdateLock}
        /\ tx' = [tx EXCEPT ![c] = x]
        /\ kind' = kind /\ setting' = setting /\ tasks' = tasks
    BY DEF BeginUpdate
  <1>5. last' \in 0..MaxChanges /\ last <= last'
    BY <1>0
  <1> QED
    BY <1>0, <1>2, <1>3, <1>4, <1>5, OneTx

LEMMA LockForUpdateKeeps ==
    ASSUME Core, NEW c \in Client, LockForUpdate(c)
    PROVE  Core'
  <1> DEFINE p == FindPending
             x == [tx[c] EXCEPT !.at = "locked", !.task = p, !.snap = Snapshot(p, tx[c].snap),
                                !.holds = tx[c].holds \cup {SettingRow}]
  <1>0. /\ c \in Actor /\ tx[c] \in Tx /\ tx[c].op = "update" /\ tx[c].at = "read"
        /\ UpdateGood(tx[c], tasks, last) /\ Good(c, tx[c], tasks, setting.ver, last)
    BY TxTyped DEF Actor, LockForUpdate, Good
  <1>1. /\ p = 0 \/ (p \in Trials /\ tasks[p].status = "not_started")
        /\ p \in 0..MaxChanges /\ Snapshot(p, tx[c].snap) \in Config
    <2>1. p = 0 \/ (p \in Trials /\ tasks[p].status = "not_started")
      BY PendingTyped
    <2>2. p \in 0..MaxChanges
      BY <2>1, TrialsTyped, ProbationAssumption DEF ProbationAssumption
    <2>3. tx[c].snap \in Config
      BY <1>0 DEF Tx
    <2> QED
      BY <2>1, <2>2, <2>3, SnapshotTyped
  <1>2. /\ x \in Tx /\ x.op = "update" /\ x.at = "locked" /\ x.task = p
        /\ x.holds = tx[c].holds \cup {SettingRow}
    BY <1>0, <1>1, LocksTyped DEF Tx
  <1>3. tx' = [tx EXCEPT ![c] = x] /\ Free({SettingRow}, c)
    BY DEF LockForUpdate
  <1> HIDE DEF x, p
  <1>4. Good(c, x, tasks, setting.ver, last)
    <2>1. RevertLock \in x.holds
      BY <1>0, <1>2 DEF UpdateGood, UpdateLock, RevertLock
    <2>2. UpdateGood(x, tasks, last)
      BY <1>0, <1>1, <1>2, <2>1 DEF UpdateGood
    <2> QED
      BY <1>0, <1>1, <1>2, <2>2 DEF Good, Trials
  <1>5. kind' = kind /\ setting' = setting /\ tasks' = tasks /\ last' = last
    BY DEF LockForUpdate, asked
  <1>6. last' \in 0..MaxChanges /\ last <= last'
    BY <1>5, TrialsTyped DEF Core
  <1>7. x.holds \subseteq tx[c].holds \cup {SettingRow}
    BY <1>2
  <1> QED
    BY <1>0, <1>2, <1>3, <1>4, <1>5, <1>6, <1>7, OneTx

LEMMA WriteUpdateKeeps ==
    ASSUME Core, NEW c \in Client, WriteUpdate(c)
    PROVE  Core'
  <1> DEFINE L == Written(tx[c].task)
             x == [tx[c] EXCEPT !.at = "applied", !.holds = tx[c].holds \cup L]
  <1>0. /\ c \in Actor /\ tx[c] \in Tx /\ tx[c].op = "update" /\ tx[c].at = "locked"
        /\ UpdateGood(tx[c], tasks, last)
        /\ tx[c].task = 0 \/ tx[c].task \in Trials
    BY TxTyped DEF Actor, WriteUpdate, Good
  <1>1. L \subseteq Lock
    BY <1>0, LocksTyped DEF Written
  <1>2. /\ x \in Tx /\ x.op = "update" /\ x.at = "applied" /\ x.task = tx[c].task
        /\ x.holds = tx[c].holds \cup L
    BY <1>0, <1>1 DEF Tx
  <1>3. tx' = [tx EXCEPT ![c] = x] /\ Free(L, c)
    BY DEF WriteUpdate
  <1> HIDE DEF x
  <1>4. Good(c, x, tasks, setting.ver, last)
    <2>1. UpdateGood(x, tasks, last)
      BY <1>0, <1>2 DEF UpdateGood
    <2> QED
      BY <1>0, <1>2, <2>1 DEF Good, Trials
  <1>5. kind' = kind /\ setting' = setting /\ tasks' = tasks /\ last' = last
    BY DEF WriteUpdate, asked
  <1>6. last' \in 0..MaxChanges /\ last <= last'
    BY <1>5, TrialsTyped DEF Core
  <1> QED
    BY <1>0, <1>2, <1>3, <1>4, <1>5, <1>6, OneTx

LEMMA CommitUpdateKeeps ==
    ASSUME Core, NEW c \in Client, CommitUpdate(c)
    PROVE  Core'
  <1> DEFINE p == tx[c].task
             new == [status |-> "not_started", retry |-> 0, ver |-> setting.ver + 1,
                     conf |-> tx[c].conf, snap |-> tx[c].snap, time |-> "settling"]
             ts == IF p = 0 THEN tasks ELSE Canceled(p)
             x == [tx[c] EXCEPT !.at = "committed", !.task = Len(tasks) + 1, !.holds = {}]
  <1>0. /\ c \in Actor /\ tx[c] \in Tx /\ tx[c].op = "update" /\ tx[c].at = "applied"
        /\ UpdateGood(tx[c], tasks, last)
        /\ p = 0 \/ p \in Trials
    BY TxTyped DEF Actor, CommitUpdate, Good
  <1>1. /\ UpdateLock \in tx[c].holds /\ RevertLock \in tx[c].holds /\ Written(p) \subseteq tx[c].holds
        /\ SettingRow \in tx[c].holds
        /\ p # 0 => TaskRow(p) \in tx[c].holds
        /\ Len(tasks) < last
    BY <1>0 DEF UpdateGood, Written
  <1>2. /\ setting' = [ver |-> setting.ver + 1, conf |-> tx[c].conf]
        /\ tasks' = Append(ts, new)
        /\ tx' = [tx EXCEPT ![c] = x]
        /\ kind' = kind /\ last' = last
    BY DEF CommitUpdate, asked
  <1>3. /\ setting.ver \in Nat /\ MaxRetry \in Nat /\ MaxChanges \in Nat
        /\ Len(tasks) \in Nat /\ Trials = 1..Len(tasks) /\ last \in Nat /\ last <= MaxChanges
        /\ \A t \in Trials : tasks[t] \in Task
    BY TrialsTyped, ProbationAssumption DEF ProbationAssumption, Core, Row
  <1>4. new \in Task /\ setting' \in Row /\ setting'.ver = setting.ver + 1
    BY <1>0, <1>2, <1>3 DEF Task, Row, Tx
  <1>5. ts \in Seq(Task) /\ Len(ts) = Len(tasks) /\ DOMAIN ts = Trials
    <2>1. CASE p = 0
      BY <2>1 DEF Core, Trials
    <2>2. CASE p # 0
      <3>1. [tasks[p] EXCEPT !.status = "canceled"] \in Task
        BY <1>0, <1>3, <2>2 DEF Task
      <3>2. ts = [tasks EXCEPT ![p] = [tasks[p] EXCEPT !.status = "canceled"]] /\ p \in 1..Len(tasks)
        BY <1>0, <1>3, <2>2 DEF Canceled
      <3>3. tasks \in Seq(Task)
        BY DEF Core
      <3>4. ts \in Seq(Task) /\ Len(ts) = Len(tasks)
        <4> HIDE DEF ts
        <4> QED
          BY <3>1, <3>2, <3>3, ExceptSeq
      <3>5. DOMAIN ts = Trials
        BY <3>2 DEF Trials
      <3> QED
        BY <3>4, <3>5
    <2> QED
      BY <2>1, <2>2
  <1>6. \A t \in Trials : ts[t].ver = tasks[t].ver /\ ts[t].status \in {tasks[t].status, "canceled"}
    <2>1. CASE p = 0
      BY <2>1
    <2>2. CASE p # 0
      <3>1. \A t \in Trials : ts[t] = IF t = p THEN [tasks[p] EXCEPT !.status = "canceled"] ELSE tasks[t]
        BY <1>0, <2>2 DEF Canceled, Trials
      <3>2. \A t \in Trials : tasks[t] \in Task
        BY <1>3
      <3> HIDE DEF ts
      <3>3. ASSUME NEW t \in Trials
            PROVE  ts[t].ver = tasks[t].ver /\ ts[t].status \in {tasks[t].status, "canceled"}
        <4>1. CASE t = p
          BY <3>1, <3>2, <4>1 DEF Task
        <4>2. CASE t # p
          BY <3>1, <4>2
        <4> QED
          BY <4>1, <4>2
      <3> QED
        BY <3>3
    <2> QED
      BY <2>1, <2>2
  <1>7. /\ tasks' \in Seq(Task) /\ Len(tasks') = Len(tasks) + 1
        /\ DOMAIN tasks' = 1..(Len(tasks) + 1)
        /\ \A t \in Trials : tasks'[t] = ts[t]
        /\ tasks'[Len(tasks) + 1] = new
    <2>1. /\ tasks' \in Seq(Task) /\ Len(tasks') = Len(tasks) + 1
          /\ \A t \in Trials : tasks'[t] = ts[t]
          /\ tasks'[Len(tasks) + 1] = new
      BY <1>2, <1>3, <1>4, <1>5, AppendProperties
    <2> QED
      BY <2>1, LenProperties
  <1>8. x \in Tx /\ x.op = "update" /\ x.at = "committed" /\ x.task = Len(tasks) + 1 /\ x.holds = {}
    <2>1. Len(tasks) + 1 \in 0..MaxChanges
      BY <1>1, <1>3
    <2> QED
      BY <1>0, <2>1 DEF Tx
  <1>9. tx' \in [Actor -> Tx] /\ Exclusive'
    <2>1. Free({}, c) /\ x.holds \subseteq tx[c].holds \cup {}
      BY <1>8 DEF Free
    <2> QED
      BY <1>0, <1>2, <1>8, <2>1, LocksKept DEF Core
  <1>10. ASSUME NEW b \in Actor
         PROVE  Good(b, tx'[b], tasks', setting'.ver, last')
    <2>1. CASE b = c
      <3>1. tx'[b] = x
        BY <1>0, <1>2, <2>1 DEF Core
      <3>2. UpdateGood(x, tasks', last')
        BY <1>3, <1>8 DEF UpdateGood
      <3>3. x.task \in DOMAIN tasks'
        BY <1>3, <1>7, <1>8
      <3>4. c \in Client
        OBVIOUS
      <3> QED
        BY <1>8, <2>1, <3>1, <3>2, <3>3, <3>4 DEF Good
    <2>2. CASE b # c
      <3>1. tx'[b] = tx[b] /\ Good(b, tx[b], tasks, setting.ver, last)
        BY <1>2, <2>2, TxTyped DEF Core
      <3>2. tx[b].op = "update" => tx[b].at = "committed"
        <4>1. UpdateLock \notin tx[b].holds
          BY <1>0, <1>1, <2>2 DEF Core, Exclusive
        <4> QED
          BY <3>1, <4>1 DEF Good, UpdateGood
      <3>0. tx[c].holds \cap tx[b].holds = {}
        BY <1>0, <2>2 DEF Core, Exclusive
      <3>3. SettingRow \notin tx[b].holds
        BY <1>1, <3>0
      <3>4. Good(b, tx[b], ts, setting.ver + 1, last)
        <4>1. CASE p # 0
          <5> DEFINE task == [tasks[p] EXCEPT !.status = "canceled"]
          <5>1. task \in Task /\ task.ver = tasks[p].ver /\ task.status = "canceled" /\ p \in Trials
            BY <1>0, <1>3, <4>1 DEF Task
          <5>2. TaskRow(p) \notin tx[b].holds
            BY <1>1, <3>0, <4>1
          <5>3. ts = [tasks EXCEPT ![p] = task]
            BY <4>1 DEF Canceled
          <5>4. setting.ver + 1 \in Nat
            BY <1>3
          <5> HIDE DEF task, ts
          <5> QED
            BY <3>3, <5>1, <5>2, <5>3, <5>4, OthersGood
        <4>2. CASE p = 0
          <5>1. \A t \in Trials : tasks[t].ver \in Nat
            BY <1>3 DEF Task
          <5>2. tx[b].op = "confirm" => ConfirmGood(tx[b], tasks, setting.ver + 1)
            BY <3>1, <3>3 DEF Good, ConfirmGood
          <5>3. tx[b].op \in {"undo", "revertNow"} => RevertGood(tx[b], tasks, setting.ver + 1)
            BY <1>3, <3>1, <5>1 DEF Good, RevertGood, Trials
          <5>4. Good(b, tx[b], tasks, setting.ver + 1, last)
            BY <3>1, <5>2, <5>3 DEF Good
          <5> QED
            BY <4>2, <5>4
        <4> QED
          BY <4>1, <4>2
      <3> HIDE DEF ts, new
      <3>5. Good(b, tx[b], Append(ts, new), setting.ver + 1, last)
        BY <1>4, <1>5, <3>2, <3>4, OneTrialMore
      <3> QED
        BY <1>2, <1>4, <3>1, <3>5
    <2> QED
      BY <2>1, <2>2
  <1>11. AllGood'
    BY <1>2, <1>10, AllGoodNext
  <1>12. Versions(tasks', setting'.ver)
    <2> SUFFICES ASSUME NEW u \in DOMAIN tasks'
                 PROVE  /\ tasks'[u].ver <= setting'.ver
                        /\ tasks'[u].status \in {"done", "failed"} => tasks'[u].ver < setting'.ver
      BY DEF Versions
    <2>1. CASE u \in Trials
      <3>1. /\ tasks'[u].ver = tasks[u].ver /\ tasks[u].ver \in Nat
            /\ tasks'[u].status \in {tasks[u].status, "canceled"}
        BY <1>3, <1>6, <1>7, <2>1 DEF Task
      <3>2. /\ tasks[u].ver <= setting.ver
            /\ tasks[u].status \in {"done", "failed"} => tasks[u].ver < setting.ver
        BY <2>1 DEF Core, Versions, Trials
      <3>3. tasks[u].ver <= setting.ver + 1 /\ tasks[u].ver < setting.ver + 1
        BY <1>3, <3>1, <3>2
      <3> QED
        BY <1>4, <3>1, <3>3
    <2>2. CASE u \notin Trials
      <3>1. u = Len(tasks) + 1
        BY <1>3, <1>7, <2>2
      <3> QED
        BY <1>3, <1>4, <1>7, <3>1
    <2> QED
      BY <2>1, <2>2
  <1>13. Versions(tasks, setting.ver)'
    BY <1>12 DEF Versions
  <1>14. (kind \in Kinds /\ setting \in Row /\ tasks \in Seq(Task) /\ Len(tasks) <= last /\ last \in 0..MaxChanges)'
    <2>1. tasks' \in Seq(Task)'
      BY <1>7 DEF Task, Config
    <2>2. Len(tasks') <= last'
      BY <1>1, <1>2, <1>3, <1>7
    <2> QED
      BY <1>2, <1>4, <2>1, <2>2 DEF Core, Row, Config
  <1> QED
    BY <1>9, <1>11, <1>13, <1>14 DEF Core

LEMMA ScheduleKeeps ==
    ASSUME Core, NEW c \in Client, Schedule(c) \/ UpdateFails(c)
    PROVE  Core'
  BY EndKeeps DEF Schedule, UpdateFails, Actor, asked

-----------------------------------------------------------------------------
(* Core is kept: the answers. *)

LEMMA BeginAnswerKeeps ==
    ASSUME Core, NEW c \in Client, BeginAnswer(c)
    PROVE  Core'
  <1>1. PICK op \in {"confirm", "revertNow"} :
           tx' = [tx EXCEPT ![c] = [Idle EXCEPT !.op = op, !.at = "read", !.task = FindPending]]
    BY DEF BeginAnswer
  <1> DEFINE x == [Idle EXCEPT !.op = op, !.at = "read", !.task = FindPending]
  <1>2. /\ FindPending \in Trials /\ FindPending # 0 /\ FindPending \in 0..MaxChanges
        /\ c \in Actor /\ last' = last /\ kind' = kind /\ setting' = setting /\ tasks' = tasks
    BY PendingTyped, TrialsTyped DEF BeginAnswer, Actor
  <1>3. /\ x \in Tx /\ x.op = op /\ x.at = "read" /\ x.task = FindPending /\ x.holds = {}
    BY <1>2, IdleTyped DEF Tx
  <1>4. Good(c, x, tasks, setting.ver, last)
    <2>1. op = "confirm" => ConfirmGood(x, tasks, setting.ver)
      BY <1>2, <1>3 DEF ConfirmGood
    <2>2. op = "revertNow" => RevertGood(x, tasks, setting.ver)
      BY <1>2, <1>3 DEF RevertGood
    <2> QED
      BY <1>2, <1>3, <2>1, <2>2 DEF Good, Trials
  <1>5. Free({}, c) /\ x.holds \subseteq tx[c].holds \cup {}
    BY <1>3 DEF Free
  <1>6. last' \in 0..MaxChanges /\ last <= last'
    BY <1>2, TrialsTyped DEF Core
  <1> QED
    BY <1>1, <1>2, <1>3, <1>4, <1>5, <1>6, OneTx

LEMMA LockSettingKeeps ==
    ASSUME Core, NEW c \in Client, LockSetting(c)
    PROVE  Core'
  <1>0. c \in Actor /\ last' = last /\ kind' = kind /\ setting' = setting /\ tasks' = tasks
    BY DEF LockSetting, Actor, asked
  <1>3. PICK live \in LooksLive :
           IF ~Accepts(c, live) THEN End(c)
           ELSE tx' = [tx EXCEPT ![c] = [tx[c] EXCEPT !.at = "locked", !.holds = {SettingRow}]]
    BY DEF LockSetting
  <1>1. CASE ~Accepts(c, live)
    BY <1>0, <1>3, <1>1, EndKeeps
  <1>2. CASE Accepts(c, live)
    <2> DEFINE x == [tx[c] EXCEPT !.at = "locked", !.holds = {SettingRow}]
    <2>1. /\ tx[c] \in Tx /\ tx[c].op \in {"confirm", "revertNow"} /\ tx[c].at = "read"
          /\ Good(c, tx[c], tasks, setting.ver, last)
      BY <1>0, TxTyped DEF LockSetting
    <2>2. /\ x \in Tx /\ x.op = tx[c].op /\ x.at = "locked" /\ x.task = tx[c].task
          /\ x.holds = {SettingRow}
      BY <2>1, LocksTyped DEF Tx
    <2>3. Free({SettingRow}, c) /\ tx' = [tx EXCEPT ![c] = x]
      BY <1>3, <1>2 DEF LockSetting
    <2> HIDE DEF x
    <2>4. Good(c, x, tasks, setting.ver, last)
      <3>1. x.op = "confirm" => ConfirmGood(x, tasks, setting.ver)
        BY <1>2, <2>1, <2>2 DEF Good, ConfirmGood, Accepts
      <3>2. x.op = "revertNow" => RevertGood(x, tasks, setting.ver)
        BY <2>1, <2>2 DEF Good, RevertGood
      <3> QED
        BY <2>1, <2>2, <3>1, <3>2 DEF Good
    <2>5. last' \in 0..MaxChanges /\ last <= last'
      BY <1>0, TrialsTyped DEF Core
    <2>6. x.holds \subseteq tx[c].holds \cup {SettingRow}
      BY <2>2
    <2> QED
      BY <1>0, <2>2, <2>3, <2>4, <2>5, <2>6, OneTx
  <1> QED
    BY <1>1, <1>2

LEMMA CommitConfirmKeeps ==
    ASSUME Core, NEW c \in Client, CommitConfirm(c)
    PROVE  Core'
  <1> DEFINE p == tx[c].task
             task == [tasks[p] EXCEPT !.status = "canceled"]
  <1>1. c \in Actor /\ p \in Trials
    BY TxTyped DEF CommitConfirm, Actor, Good, ConfirmGood
  <1>2. task \in Task /\ task.ver = tasks[p].ver /\ task.status = "canceled"
    BY <1>1, TrialsTyped DEF Task
  <1>3. tasks' = [tasks EXCEPT ![p] = task]
    BY DEF CommitConfirm, Canceled
  <1> HIDE DEF task
  <1>4. /\ Free({TaskRow(p)}, c) /\ End(c)
        /\ kind' = kind /\ setting' = setting /\ last' = last
    BY DEF CommitConfirm, asked
  <1>5. setting' \in Row /\ setting'.ver = setting.ver
    BY <1>4 DEF Core
  <1> QED
    BY <1>1, <1>2, <1>3, <1>4, <1>5, OneTask

-----------------------------------------------------------------------------
(* Core is kept: the reverts. *)

\* The worker, or a timer, takes a trial.
LEMMA TakenKeeps ==
    ASSUME Core, NEW a \in {Worker, Timer}, NEW t \in Trials,
           Alive(tasks[t]), Free({TaskRow(t)}, a),
           tx' = [tx EXCEPT ![a] = [Idle EXCEPT !.op = "undo", !.at = "read", !.task = t,
                                                !.holds = {TaskRow(t)}]],
           last' = last, kind' = kind, setting' = setting, tasks' = tasks
    PROVE  Core'
  <1> DEFINE x == [Idle EXCEPT !.op = "undo", !.at = "read", !.task = t, !.holds = {TaskRow(t)}]
  <1>1. a \in Actor /\ a \notin Client
    BY ProbationAssumption DEF ProbationAssumption, Actor
  <1>2. t # 0 /\ t \in 0..MaxChanges /\ TaskRow(t) \in Lock
    BY TrialsTyped, LocksTyped
  <1>3. x \in Tx /\ x.op = "undo" /\ x.at = "read" /\ x.task = t /\ x.holds = {TaskRow(t)}
    BY <1>2, IdleTyped DEF Tx
  <1>4. tx' = [tx EXCEPT ![a] = x]
    OBVIOUS
  <1> HIDE DEF x
  <1>5. Good(a, x, tasks, setting.ver, last)
    <2>1. RevertGood(x, tasks, setting.ver) /\ UndoGood(x, tasks)
      BY <1>2, <1>3 DEF RevertGood, UndoGood
    <2> QED
      BY <1>1, <1>3, <2>1 DEF Good, Trials
  <1>6. last' \in 0..MaxChanges /\ last <= last'
    BY TrialsTyped DEF Core
  <1>7. x.holds \subseteq tx[a].holds \cup {TaskRow(t)}
    BY <1>3
  <1> QED
    BY <1>1, <1>3, <1>4, <1>5, <1>6, <1>7, OneTx

LEMMA ClaimKeeps ==
    ASSUME Core, NEW t \in Trials, ClaimByWorker(t)
    PROVE  Core'
  <1>1. Alive(tasks[t]) /\ Worker \in {Worker, Timer}
    BY DEF ClaimByWorker, OnTrial, CanRetry, Alive
  <1>2. /\ Free({TaskRow(t)}, Worker)
        /\ tx' = [tx EXCEPT ![Worker] = [Idle EXCEPT !.op = "undo", !.at = "read", !.task = t,
                                                     !.holds = {TaskRow(t)}]]
        /\ last' = last /\ kind' = kind /\ setting' = setting /\ tasks' = tasks
    BY DEF ClaimByWorker, asked
  <1> QED
    BY <1>1, <1>2, TakenKeeps

\* A step that leaves the transactions and the rows alone.
LEMMA CoreStutters ==
    ASSUME Core, tx' = tx, last' = last, kind' = kind, setting' = setting, tasks' = tasks
    PROVE  Core'
  <1>1. \A b \in Actor : Good(b, tx'[b], tasks', setting'.ver, last')
    BY DEF Core, AllGood
  <1>2. AllGood'
    BY <1>1, AllGoodNext
  <1>3. (Exclusive /\ Versions(tasks, setting.ver))'
    BY DEF Core, Exclusive, Versions, Actor
  <1>4. (kind \in Kinds /\ setting \in Row /\ tasks \in Seq(Task) /\ Len(tasks) <= last)'
    BY DEF Core, Row, Task, Config
  <1>5. (tx \in [Actor -> Tx] /\ last \in 0..MaxChanges)'
    BY DEF Core, Actor, Tx, Config, Lock, AppRow, SettingRow, TaskRow
  <1> QED
    BY <1>2, <1>3, <1>4, <1>5 DEF Core

LEMMA TimerKeeps ==
    ASSUME Core, NEW t \in Trials, TimerFires(t)
    PROVE  Core'
  <1>1. last' = last /\ kind' = kind /\ setting' = setting /\ tasks' = tasks
    BY DEF TimerFires, asked
  <1>2. CASE TimerFinds(t)
    <2>1. Alive(tasks[t]) /\ Free({TaskRow(t)}, Timer) /\ Timer \in {Worker, Timer}
      BY <1>2 DEF TimerFinds, Alive
    <2>2. tx' = [tx EXCEPT ![Timer] = [Idle EXCEPT !.op = "undo", !.at = "read", !.task = t,
                                                   !.holds = {TaskRow(t)}]]
      BY <1>2 DEF TimerFires
    <2> QED
      BY <1>1, <2>1, <2>2, TakenKeeps
  <1>3. CASE ~TimerFinds(t)
    <2>1. tx' = tx
      BY <1>3 DEF TimerFires
    <2> QED
      BY <1>1, <2>1, CoreStutters
  <1> QED
    BY <1>2, <1>3

LEMMA LockForRevertKeeps ==
    ASSUME Core, NEW a \in Actor, LockForRevert(a)
    PROVE  Core'
  <1> DEFINE t == tx[a].task
             x == [tx[a] EXCEPT !.holds = tx[a].holds \cup {RevertLock},
                                !.at = IF tasks[t].ver = setting.ver THEN "locked" ELSE "skip"]
  <1>0. last' = last /\ kind' = kind /\ setting' = setting /\ tasks' = tasks
    BY DEF LockForRevert, asked
  <1>1. /\ tx[a] \in Tx /\ tx[a].op \in {"undo", "revertNow"}
        /\ Good(a, tx[a], tasks, setting.ver, last)
        /\ RevertGood(tx[a], tasks, setting.ver)
        /\ t \in Trials
    BY TxTyped DEF LockForRevert, Reverts, Good, RevertGood
  <1>2. /\ x \in Tx /\ x.op = tx[a].op /\ x.task = t
        /\ x.holds = tx[a].holds \cup {RevertLock}
        /\ x.at = IF tasks[t].ver = setting.ver THEN "locked" ELSE "skip"
    BY <1>1, LocksTyped DEF Tx
  <1>3. Free({RevertLock}, a) /\ tx' = [tx EXCEPT ![a] = x]
    BY DEF LockForRevert
  <1> HIDE DEF x
  <1>4. Good(a, x, tasks, setting.ver, last)
    <2>1. tasks[t].ver <= setting.ver /\ tasks[t].ver \in Nat /\ setting.ver \in Nat
      BY <1>1, TrialsTyped DEF Core, Versions, Trials, Task, Row
    <2>2. x.at = "skip" => tasks[t].ver < setting.ver
      BY <1>2, <2>1
    <2>3. RevertGood(x, tasks, setting.ver)
      BY <1>1, <1>2, <2>2 DEF RevertGood
    <2>4. x.op = "undo" => UndoGood(x, tasks)
      BY <1>1, <1>2 DEF Good, UndoGood
    <2> QED
      BY <1>1, <1>2, <2>3, <2>4 DEF Good
  <1>5. last' \in 0..MaxChanges /\ last <= last'
    BY <1>0, TrialsTyped DEF Core
  <1>6. x.holds \subseteq tx[a].holds \cup {RevertLock}
    BY <1>2
  <1> QED
    BY <1>0, <1>2, <1>3, <1>4, <1>5, <1>6, OneTx

LEMMA PushRevertKeeps ==
    ASSUME Core, NEW a \in Actor, PushRevert(a)
    PROVE  Core'
  <1> DEFINE x == [tx[a] EXCEPT !.at = "applied", !.holds = tx[a].holds \cup {SettingRow}]
  <1>0. last' = last /\ kind' = kind /\ setting' = setting /\ tasks' = tasks
    BY DEF PushRevert, asked
  <1>1. /\ tx[a] \in Tx /\ tx[a].op \in {"undo", "revertNow"} /\ RevertLock \in tx[a].holds
        /\ Good(a, tx[a], tasks, setting.ver, last)
    BY TxTyped DEF PushRevert, ReadyToPush
  <1>2. /\ x \in Tx /\ x.op = tx[a].op /\ x.task = tx[a].task /\ x.at = "applied"
        /\ x.holds = tx[a].holds \cup {SettingRow}
    BY <1>1, LocksTyped DEF Tx
  <1>3. Free({SettingRow}, a) /\ tx' = [tx EXCEPT ![a] = x]
    BY DEF PushRevert, ReadyToPush
  <1> HIDE DEF x
  <1>4. Good(a, x, tasks, setting.ver, last)
    <2>1. RevertGood(x, tasks, setting.ver)
      BY <1>1, <1>2 DEF Good, RevertGood
    <2>2. x.op = "undo" => UndoGood(x, tasks)
      BY <1>1, <1>2 DEF Good, UndoGood
    <2> QED
      BY <1>1, <1>2, <2>1, <2>2 DEF Good
  <1>5. last' \in 0..MaxChanges /\ last <= last'
    BY <1>0, TrialsTyped DEF Core
  <1>6. x.holds \subseteq tx[a].holds \cup {SettingRow}
    BY <1>2
  <1> QED
    BY <1>0, <1>2, <1>3, <1>4, <1>5, <1>6, OneTx

\* A transaction that reverts, as it settles its trial.
LEMMA SettlerTyped ==
    ASSUME Core, NEW a \in Actor,
           tx[a].op \in {"undo", "revertNow"} \/ tx[a].at = "skip"
    PROVE  /\ tx[a].op \in {"undo", "revertNow"}
           /\ RevertGood(tx[a], tasks, setting.ver)
           /\ tx[a].task \in Trials
           /\ tx[a].op = "undo" => UndoGood(tx[a], tasks)
           /\ tx[a].op = "revertNow" => a \in Client
  <1>1. tx[a].op \in {"undo", "revertNow"}
    BY TxTyped DEF Good, UpdateGood, ConfirmGood
  <1> QED
    BY <1>1, TxTyped DEF Good, RevertGood

LEMMA SettledTyped ==
    ASSUME Core, NEW a \in Actor, tx[a].op \in {"undo", "revertNow"},
           NEW status \in {"done", "failed"}
    PROVE  LET t == tx[a].task
               task == SettledBy(a, tasks[t], status)
           IN  task \in Task /\ task.ver = tasks[t].ver /\ task.status = status
  <1> DEFINE t == tx[a].task
  <1>1. tasks[t] \in Task /\ MaxRetry \in Nat
    BY SettlerTyped, TrialsTyped, ProbationAssumption DEF ProbationAssumption
  <1>2. a = Worker /\ tasks[t].status = "failed" => tasks[t].retry + 1 \in 0..MaxRetry
    <2> SUFFICES ASSUME a = Worker, tasks[t].status = "failed"
                 PROVE  tasks[t].retry + 1 \in 0..MaxRetry
      OBVIOUS
    <2>1. tx[a].op = "undo"
      BY SettlerTyped, ProbationAssumption DEF ProbationAssumption
    <2>2. tasks[t].retry < MaxRetry
      BY <2>1, SettlerTyped DEF UndoGood, Alive
    <2> QED
      BY <1>1, <2>2 DEF Task
  <1>3. (IF a = Worker /\ tasks[t].status = "failed" THEN tasks[t].retry + 1 ELSE tasks[t].retry) \in 0..MaxRetry
    BY <1>1, <1>2 DEF Task
  <1> QED
    BY <1>1, <1>3 DEF SettledBy, Task

LEMMA CommitRevertKeeps ==
    ASSUME Core, NEW a \in Actor, CommitRevert(a)
    PROVE  Core'
  <1> DEFINE t == tx[a].task
             task == SettledBy(a, tasks[t], "done")
  <1>1. /\ t \in Trials /\ RevertLock \in tx[a].holds /\ SettingRow \in tx[a].holds
        /\ tx[a].op \in {"undo", "revertNow"}
    BY SettlerTyped DEF CommitRevert, RevertGood
  <1>2. task \in Task /\ task.ver = tasks[t].ver /\ task.status = "done"
    BY <1>1, SettledTyped
  <1>3. tasks' = [tasks EXCEPT ![t] = task] /\ setting' = Restored(t)
    BY DEF CommitRevert, Settled
  <1> HIDE DEF task
  <1>4. Free({TaskRow(t)}, a) /\ End(a) /\ kind' = kind /\ last' = last
    BY DEF CommitRevert, asked
  <1>5. Free({RevertLock}, a) /\ Free({SettingRow}, a)
    BY <1>1, HeldIsFree DEF Core
  <1>6. setting' \in Row /\ setting'.ver = setting.ver + 1 /\ task.ver < setting'.ver
    <2>1. /\ tasks[t] \in Task /\ setting.ver \in Nat /\ tasks[t].ver <= setting.ver
      BY <1>1, TrialsTyped DEF Core, Row, Versions, Trials
    <2> QED
      BY <1>2, <1>3, <2>1 DEF Restored, Row, Task
  <1> QED
    BY <1>1, <1>2, <1>3, <1>4, <1>5, <1>6, OneTask

LEMMA SkipRevertKeeps ==
    ASSUME Core, NEW a \in Actor, SkipRevert(a)
    PROVE  Core'
  <1> DEFINE t == tx[a].task
             task == SettledBy(a, tasks[t], "done")
  <1>1. /\ t \in Trials /\ RevertLock \in tx[a].holds /\ tasks[t].ver < setting.ver
        /\ tx[a].op \in {"undo", "revertNow"}
    BY SettlerTyped DEF SkipRevert, RevertGood
  <1>2. task \in Task /\ task.ver = tasks[t].ver /\ task.status = "done"
    BY <1>1, SettledTyped
  <1>3. tasks' = [tasks EXCEPT ![t] = task]
    BY DEF SkipRevert, Settled
  <1> HIDE DEF task
  <1>4. Free({TaskRow(t)}, a) /\ End(a) /\ kind' = kind /\ last' = last /\ setting' = setting
    BY DEF SkipRevert, asked
  <1>5. Free({RevertLock}, a)
    BY <1>1, HeldIsFree DEF Core
  <1>6. setting' \in Row /\ setting'.ver = setting.ver /\ task.ver < setting'.ver
    BY <1>1, <1>2, <1>4 DEF Core
  <1> QED
    BY <1>1, <1>2, <1>3, <1>4, <1>5, <1>6, OneTask

LEMMA RevertFailsKeeps ==
    ASSUME Core, NEW a \in Actor, RevertFails(a)
    PROVE  Core'
  <1>0. End(a) /\ kind' = kind /\ last' = last
    BY DEF RevertFails, asked
  <1>1. CASE a # Worker
    BY <1>0, <1>1, EndKeeps DEF RevertFails
  <1>2. CASE a = Worker
    <2> DEFINE t == tx[a].task
               task == SettledBy(a, tasks[t], "failed")
    <2>1. tx[a].op \in {"undo", "revertNow"} /\ RevertLock \in tx[a].holds /\ Free({SettingRow}, a)
      BY DEF RevertFails, ReadyToPush
    <2>2. tx[a].op = "undo"
      BY <1>2, <2>1, SettlerTyped, ProbationAssumption DEF ProbationAssumption
    <2>3. t \in Trials /\ TaskRow(t) \in tx[a].holds
      BY <2>1, <2>2, SettlerTyped DEF UndoGood
    <2>4. task \in Task /\ task.ver = tasks[t].ver /\ task.status = "failed"
      BY <2>1, SettledTyped
    <2>5. tasks' = [tasks EXCEPT ![t] = task] /\ setting' = Restored(t)
      BY <1>2 DEF RevertFails, Settled
    <2> HIDE DEF task
    <2>6. Free({RevertLock}, a) /\ Free({TaskRow(t)}, a)
      BY <2>1, <2>3, HeldIsFree DEF Core
    <2>7. setting' \in Row /\ setting'.ver = setting.ver + 1 /\ task.ver < setting'.ver
      <3>1. /\ tasks[t] \in Task /\ setting.ver \in Nat /\ tasks[t].ver <= setting.ver
        BY <2>3, TrialsTyped DEF Core, Row, Versions, Trials
      <3> QED
        BY <2>4, <2>5, <3>1 DEF Restored, Row, Task
    <2> QED
      BY <1>0, <2>1, <2>3, <2>4, <2>5, <2>6, <2>7, OneTask
  <1> QED
    BY <1>1, <1>2

-----------------------------------------------------------------------------
(* Core is kept: the rest. *)

LEMMA RollBackKeeps ==
    ASSUME Core, NEW a \in Actor, RollBack(a)
    PROVE  Core'
  BY EndKeeps DEF RollBack, asked

LEMMA CrashKeeps ==
    ASSUME Core, Crash
    PROVE  Core'
  <1>1. /\ tx' = [a \in Actor |-> IF a = Worker THEN tx[a] ELSE Idle]
        /\ last' = last /\ kind' = kind /\ setting' = setting /\ tasks' = tasks
    BY DEF Crash, asked
  <1>2. \A b \in Actor : tx'[b] = tx[b] \/ tx'[b] = Idle
    BY <1>1
  <1>3. \A b \in Actor : Good(b, tx'[b], tasks', setting'.ver, last')
    BY <1>1, <1>2, IdleGood DEF Core, AllGood
  <1>4. AllGood'
    BY <1>1, <1>3, AllGoodNext
  <1>5. \A b, c \in Actor : b # c => tx'[b].holds \cap tx'[c].holds = {}
    BY <1>2, IdleTyped DEF Core, Exclusive
  <1>6. tx' \in [Actor -> Tx]
    BY <1>1, IdleTyped DEF Core
  <1>7. Exclusive' /\ Versions(tasks, setting.ver)'
    BY <1>1, <1>5 DEF Core, Exclusive, Versions, Actor
  <1>8. (kind \in Kinds /\ setting \in Row /\ tasks \in Seq(Task) /\ Len(tasks) <= last)'
    BY <1>1 DEF Core, Row, Task, Config
  <1>9. (tx \in [Actor -> Tx] /\ last \in 0..MaxChanges)'
    BY <1>1, <1>6 DEF Core, Actor, Tx, Config, Lock, AppRow, SettingRow, TaskRow
  <1> QED
    BY <1>4, <1>7, <1>8, <1>9 DEF Core

LEMMA TimeKeeps ==
    ASSUME Core, NEW t \in Trials, TimePasses(t)
    PROVE  Core'
  <1> DEFINE task == [tasks[t] EXCEPT !.time = IF tasks[t].time = "settling" THEN "open" ELSE "due"]
  <1>1. /\ tx' = tx /\ last' = last /\ kind' = kind /\ setting' = setting
        /\ tasks' = [tasks EXCEPT ![t] = task]
    BY DEF TimePasses, asked
  <1>2. /\ task \in Task /\ task.ver = tasks[t].ver
        /\ task.status = tasks[t].status /\ task.retry = tasks[t].retry
    BY TrialsTyped DEF Task
  <1> HIDE DEF task
  <1>3. setting.ver \in Nat /\ Trials = 1..Len(tasks)
    BY TrialsTyped DEF Core, Row
  <1>4. \A b \in Actor : Good(b, tx'[b], tasks', setting'.ver, last')
    BY <1>1, <1>2, <1>3, OthersGood
  <1>5. AllGood'
    BY <1>1, <1>4, AllGoodNext
  <1>6. /\ tasks' \in Seq(Task) /\ Len(tasks') = Len(tasks)
        /\ DOMAIN tasks' = Trials
        /\ \A u \in Trials : tasks'[u] = IF u = t THEN task ELSE tasks[u]
    <2>1. tasks' \in Seq(Task) /\ Len(tasks') = Len(tasks)
      BY <1>1, <1>2, <1>3, ExceptSeq DEF Core
    <2> QED
      BY <1>1, <2>1 DEF Trials
  <1>7. Versions(tasks', setting.ver)
    BY <1>2, <1>6 DEF Core, Versions, Trials
  <1>8. Exclusive' /\ Versions(tasks, setting.ver)'
    BY <1>1, <1>7 DEF Core, Exclusive, Versions, Actor
  <1>9. (kind \in Kinds /\ setting \in Row /\ tasks \in Seq(Task) /\ Len(tasks) <= last)'
    <2>1. tasks' \in Seq(Task)'
      BY <1>6 DEF Task, Config
    <2> QED
      BY <1>1, <1>6, <2>1 DEF Core, Row, Config
  <1>10. (tx \in [Actor -> Tx] /\ last \in 0..MaxChanges)'
    BY <1>1 DEF Core, Actor, Tx, Config, Lock, AppRow, SettingRow, TaskRow
  <1> QED
    BY <1>5, <1>8, <1>9, <1>10 DEF Core

-----------------------------------------------------------------------------
(* Rest is kept. *)

LEMMA CutOffTyped ==
    ASSUME Core, NEW A \in SUBSET Actor
    PROVE  CutOff(A) \subseteq Config
  <1> SUFFICES ASSUME NEW a \in A, tx[a].at = "applied"
               PROVE  (IF tx[a].op = "update" THEN tx[a].conf ELSE tasks[tx[a].task].snap) \in Config
    BY DEF CutOff
  <1>1. a \in Actor /\ tx[a].conf \in Config
    BY TxTyped DEF Tx
  <1>2. ASSUME tx[a].op # "update"
        PROVE  tasks[tx[a].task].snap \in Config
    <2>1. tx[a].op \in {"undo", "revertNow"}
      BY <1>1, <1>2, TxTyped DEF Good, ConfirmGood
    <2> QED
      BY <1>1, <2>1, SettlerTyped, TrialsTyped DEF Task
  <1> QED
    BY <1>1, <1>2

LEMMA FaultTyped ==
    ASSUME Rest, NEW f, Fault(f) \/ faults' = faults
    PROVE  faults' \in 0..MaxFaults
  <1>1. faults \in Nat /\ faults <= MaxFaults /\ MaxFaults \in Nat
    BY ProbationAssumption DEF ProbationAssumption, Rest
  <1>2. CASE Fault(f)
    BY <1>1, <1>2 DEF Fault
  <1> QED
    BY <1>2 DEF Rest

\* Trials are never removed.
LEMMA TrialsGrow ==
    ASSUME Core, [Next]_vars
    PROVE  Trials \subseteq Trials'
  <1>1. CASE tasks' = tasks
    BY <1>1 DEF Trials
  <1>2. CASE \E t, v : tasks' = [tasks EXCEPT ![t] = v]
    BY <1>2 DEF Trials
  <1>3. ASSUME NEW c \in Client, CommitUpdate(c)
        PROVE  Trials \subseteq Trials'
    <2> DEFINE p == tx[c].task
               new == [status |-> "not_started", retry |-> 0, ver |-> setting.ver + 1,
                       conf |-> tx[c].conf, snap |-> tx[c].snap, time |-> "settling"]
               ts == IF p = 0 THEN tasks ELSE Canceled(p)
               T == Task \cup {new} \cup {ts[t] : t \in Trials}
    <2>1. tasks' = Append(ts, new)
      BY <1>3 DEF CommitUpdate
    <2>2. DOMAIN ts = Trials
      BY DEF Canceled, Trials
    <2>3. ts \in Seq(T) /\ new \in T
      <3>1. Trials = 1..Len(tasks) /\ Len(tasks) \in Nat
        BY TrialsTyped
      <3>2. ts \in [1..Len(tasks) -> T]
        <4>1. ts = [t \in 1..Len(tasks) |-> ts[t]]
          <5>1. CASE p = 0
            BY <3>1, <5>1, LenProperties DEF Core
          <5>2. CASE p # 0
            BY <3>1, <5>2 DEF Canceled, Trials
          <5> QED
            BY <5>1, <5>2
        <4>2. \A t \in 1..Len(tasks) : ts[t] \in T
          BY <3>1
        <4> HIDE DEF ts, T
        <4> QED
          BY <4>1, <4>2
      <3> QED
        BY <3>1, <3>2, SeqDef
    <2> HIDE DEF ts, new, T
    <2>4. Append(ts, new) \in Seq(T) /\ Len(Append(ts, new)) = Len(ts) + 1
      BY <2>3, AppendProperties
    <2>5. DOMAIN Append(ts, new) = 1..(Len(ts) + 1) /\ DOMAIN ts = 1..Len(ts) /\ Len(ts) \in Nat
      BY <2>3, <2>4, LenProperties
    <2> QED
      BY <2>1, <2>2, <2>5 DEF Trials
  <1>4. (\E c \in Client : CommitUpdate(c)) \/ tasks' = tasks \/ (\E t, v : tasks' = [tasks EXCEPT ![t] = v])
    BY DEF Next, vars, UpdateStep, AnswerStep, RevertStep, BeginUpdate, LockForUpdate, WriteUpdate, Schedule,
           UpdateFails, BeginAnswer, LockSetting, CommitConfirm, Canceled, LockForRevert, PushRevert,
           CommitRevert, SkipRevert, Settled, RevertFails, Deadlock, Abort, RollBack, ClaimByWorker,
           TimerFires, TimePasses, Crash, Restart, SwarmRollsBack
  <1> QED
    BY <1>1, <1>2, <1>3, <1>4

LEMMA ClusterKeeps ==
    ASSUME IInv, [Next]_vars
    PROVE  running' \in Config /\ before' \in Config
  <1>0. Core /\ running \in Config /\ before \in Config
    BY DEF IInv, Rest
  <1>1. ASSUME NEW conf \in Config, Push(conf)
        PROVE  running' \in Config /\ before' \in Config
    BY <1>0, <1>1 DEF Push
  <1>2. ASSUME NEW c \in Client
        PROVE  tx[c].conf \in Config
    BY <1>0, TxTyped DEF Actor, Tx
  <1>3. ASSUME NEW a \in Actor, PushRevert(a)
        PROVE  tasks[tx[a].task].snap \in Config
    BY <1>0, <1>3, SettlerTyped, TrialsTyped DEF PushRevert, ReadyToPush, Task
  <1>4. CASE UNCHANGED cluster
    BY <1>0, <1>4 DEF cluster
  <1>5. \/ UNCHANGED cluster
        \/ \E c \in Client : Push(tx[c].conf)
        \/ \E a \in Actor : PushRevert(a) /\ Push(tasks[tx[a].task].snap)
        \/ SwarmRollsBack
    BY DEF Next, vars, UpdateStep, AnswerStep, RevertStep, BeginUpdate, LockForUpdate, WriteUpdate, CommitUpdate,
           Schedule, UpdateFails, BeginAnswer, LockSetting, CommitConfirm, LockForRevert, PushRevert,
           CommitRevert, SkipRevert, RevertFails, Deadlock, Abort, RollBack, ClaimByWorker,
           TimerFires, TimePasses, Crash, Restart
  <1>6. CASE SwarmRollsBack
    BY <1>0, <1>6 DEF SwarmRollsBack
  <1> QED
    BY <1>1, <1>2, <1>3, <1>4, <1>5, <1>6

LEMMA HistoryKeeps ==
    ASSUME IInv, [Next]_vars
    PROVE  vouched' \in Config /\ stood' \subseteq Config
  <1>0. Core /\ vouched \in Config /\ stood \subseteq Config
    BY DEF IInv, Rest
  <1>1. ASSUME NEW conf \in Config, StoodBy(conf)
        PROVE  vouched' \in Config /\ stood' \subseteq Config
    BY <1>0, <1>1 DEF StoodBy
  <1>2. CASE UNCHANGED <<vouched, stood>>
    BY <1>0, <1>2
  <1>3. ASSUME NEW c \in Client, CommitConfirm(c)
        PROVE  vouched' \in Config /\ stood' \subseteq Config
    <2>1. tx[c].task \in Trials
      BY <1>0, <1>3, TxTyped DEF CommitConfirm, Actor, Good, ConfirmGood
    <2>2. StoodBy(tasks[tx[c].task].conf) /\ tasks[tx[c].task].conf \in Config
      BY <1>0, <1>3, <2>1, TrialsTyped DEF CommitConfirm, Task
    <2> QED
      BY <1>1, <2>2
  <1>4. ASSUME NEW a \in Actor, CommitRevert(a)
        PROVE  vouched' \in Config /\ stood' \subseteq Config
    <2>1. tx[a].task \in Trials
      BY <1>0, <1>4, SettlerTyped DEF CommitRevert
    <2>2. /\ StoodBy(tasks[tx[a].task].snap) \/ UNCHANGED <<vouched, stood>>
          /\ tasks[tx[a].task].snap \in Config
      BY <1>0, <1>4, <2>1, TrialsTyped DEF CommitRevert, Task
    <2> QED
      BY <1>1, <1>2, <2>2
  <1>5. \/ UNCHANGED <<vouched, stood>>
        \/ \E c \in Client : CommitConfirm(c)
        \/ \E a \in Actor : CommitRevert(a)
    BY DEF Next, vars, history, UpdateStep, AnswerStep, RevertStep, BeginUpdate, LockForUpdate,
           WriteUpdate, CommitUpdate, Schedule, UpdateFails, BeginAnswer, LockSetting, LockForRevert,
           PushRevert, SkipRevert, RevertFails, Deadlock, Abort, RollBack, ClaimByWorker,
           TimerFires, TimePasses, Crash, Restart, SwarmRollsBack
  <1> QED
    BY <1>2, <1>3, <1>4, <1>5

\* What goes astray was read, run, or to be run.
LEMMA AstrayKeeps ==
    ASSUME IInv, [Next]_vars
    PROVE  astray' \subseteq Config
  <1>0. /\ Core /\ astray \subseteq Config /\ running \in Config /\ before \in Config
        /\ \A a \in Actor : tx[a].conf \in Config /\ tx[a].snap \in Config
    BY TxTyped DEF IInv, Rest, Tx
  <1>1. CASE astray' = astray
    BY <1>0, <1>1
  <1>2. ASSUME NEW conf \in Config, astray' \subseteq astray \cup {conf}
        PROVE  astray' \subseteq Config
    BY <1>0, <1>2
  <1>3. ASSUME NEW A \in SUBSET Actor, astray' = astray \cup CutOff(A)
        PROVE  astray' \subseteq Config
    BY <1>0, <1>3, CutOffTyped
  <1>4. ASSUME NEW c \in Client, LockForUpdate(c)
        PROVE  astray' \subseteq Config
    <2>1. astray' \subseteq astray \cup {tx[c].snap} /\ c \in Actor
      BY <1>4 DEF LockForUpdate, Actor
    <2> QED
      BY <1>0, <1>2, <2>1
  <1>5. ASSUME NEW c \in Client, Schedule(c)
        PROVE  astray' \subseteq Config
    <2>1. astray' \subseteq astray \cup {tx[c].conf} /\ c \in Actor
      BY <1>5 DEF Schedule, TooLate, Actor
    <2> QED
      BY <1>0, <1>2, <2>1
  <1>6. CASE \/ \E c \in Client : CommitConfirm(c)
             \/ \E a \in Actor : CommitRevert(a) \/ RevertFails(a)
             \/ SwarmRollsBack
    <2>1. astray' \subseteq astray \cup {running} \/ astray' \subseteq astray \cup {before}
      BY <1>6 DEF CommitConfirm, CommitRevert, RevertFails, SwarmRollsBack, Beside
    <2> QED
      BY <1>0, <1>2, <2>1
  <1>7. ASSUME NEW a \in Actor, RollBack(a)
        PROVE  astray' \subseteq Config
    BY <1>3, <1>7 DEF RollBack
  <1>8. CASE Crash
    BY <1>3, <1>8 DEF Crash
  <1>9. \/ astray' = astray
        \/ \E c \in Client : LockForUpdate(c) \/ Schedule(c) \/ CommitConfirm(c)
        \/ \E a \in Actor : CommitRevert(a) \/ RevertFails(a) \/ RollBack(a)
        \/ Crash \/ SwarmRollsBack
    BY DEF Next, vars, history, UpdateStep, AnswerStep, RevertStep, BeginUpdate, WriteUpdate,
           CommitUpdate, UpdateFails, BeginAnswer, LockSetting, LockForRevert, PushRevert,
           SkipRevert, Deadlock, Abort, ClaimByWorker, TimerFires, TimePasses, Restart
  <1> QED
    BY <1>1, <1>4, <1>5, <1>6, <1>7, <1>8, <1>9

LEMMA AppKeeps ==
    ASSUME IInv, [Next]_vars
    PROVE  up' \in BOOLEAN /\ timers' \subseteq Trials'
  <1>0. Core /\ up \in BOOLEAN /\ timers \subseteq Trials /\ Trials \subseteq Trials'
    BY TrialsGrow DEF IInv, Rest
  <1>1. ASSUME NEW c \in Client, Schedule(c)
        PROVE  tx[c].task \in Trials
    BY <1>0, <1>1, TxTyped DEF Schedule, Actor, Good, UpdateGood
  <1>2. CASE up' = up /\ timers' \subseteq timers
    BY <1>0, <1>2
  <1>3. ASSUME NEW c \in Client, Schedule(c)
        PROVE  up' \in BOOLEAN /\ timers' \subseteq Trials'
    BY <1>0, <1>1, <1>3 DEF Schedule
  <1>4. CASE Crash
    BY <1>4 DEF Crash
  <1>5. CASE Restart
    BY <1>0, <1>5 DEF Restart, NotStarted
  <1>6. \/ up' = up /\ timers' \subseteq timers
        \/ \E c \in Client : Schedule(c)
        \/ Crash \/ Restart
    BY DEF Next, vars, app, UpdateStep, AnswerStep, RevertStep, BeginUpdate, LockForUpdate, WriteUpdate, CommitUpdate,
           UpdateFails, BeginAnswer, LockSetting, CommitConfirm, LockForRevert, PushRevert,
           CommitRevert, SkipRevert, RevertFails, Deadlock, Abort, RollBack, ClaimByWorker,
           TimerFires, TimePasses, SwarmRollsBack
  <1> QED
    BY <1>2, <1>3, <1>4, <1>5, <1>6

LEMMA CountersKeep ==
    ASSUME IInv, [Next]_vars
    PROVE  answers' \in 0..MaxAnswers /\ faults' \in 0..MaxFaults
  <1>0. Rest
    BY DEF IInv
  <1>1. answers' \in 0..MaxAnswers
    <2>1. answers' = answers \/ (answers < MaxAnswers /\ answers' = answers + 1)
      BY DEF Next, vars, asked, UpdateStep, AnswerStep, RevertStep, BeginUpdate, LockForUpdate, WriteUpdate,
             CommitUpdate, Schedule, UpdateFails, BeginAnswer, LockSetting, CommitConfirm,
             LockForRevert, PushRevert, CommitRevert, SkipRevert, RevertFails, Deadlock, Abort,
             RollBack, ClaimByWorker, TimerFires, TimePasses, Crash, Restart, SwarmRollsBack
    <2> QED
      BY <1>0, <2>1, ProbationAssumption DEF ProbationAssumption, Rest
  <1>2. \E f : Fault(f) \/ faults' = faults
    BY DEF Next, vars, UpdateStep, AnswerStep, RevertStep, BeginUpdate, LockForUpdate, WriteUpdate,
           CommitUpdate, Schedule, UpdateFails, BeginAnswer, LockSetting, CommitConfirm,
           LockForRevert, PushRevert, CommitRevert, SkipRevert, RevertFails, Deadlock, Abort,
           RollBack, ClaimByWorker, TimerFires, TimePasses, Crash, Restart, SwarmRollsBack
  <1>3. faults' \in 0..MaxFaults
    BY <1>0, <1>2, FaultTyped
  <1> QED
    BY <1>1, <1>3

-----------------------------------------------------------------------------
(* The invariant. *)

LEMMA CoreKeeps ==
    ASSUME IInv, [Next]_vars
    PROVE  Core'
  <1>0. Core
    BY DEF IInv
  <1>1. ASSUME NEW c \in Client,
               BeginUpdate(c) \/ UpdateStep(c) \/ UpdateFails(c) \/ BeginAnswer(c) \/ AnswerStep(c)
        PROVE  Core'
    BY <1>0, <1>1, BeginUpdateKeeps, LockForUpdateKeeps, WriteUpdateKeeps, CommitUpdateKeeps, ScheduleKeeps,
       BeginAnswerKeeps, LockSettingKeeps, CommitConfirmKeeps DEF UpdateStep, AnswerStep
  <1>2. ASSUME NEW a \in Actor, RevertStep(a) \/ RevertFails(a) \/ Deadlock(a) \/ Abort(a)
        PROVE  Core'
    BY <1>0, <1>2, LockForRevertKeeps, PushRevertKeeps, CommitRevertKeeps, SkipRevertKeeps,
       RevertFailsKeeps, RollBackKeeps DEF RevertStep, Deadlock, Abort
  <1>3. ASSUME NEW t \in Trials, ClaimByWorker(t) \/ TimerFires(t) \/ TimePasses(t)
        PROVE  Core'
    BY <1>0, <1>3, ClaimKeeps, TimerKeeps, TimeKeeps
  <1>4. CASE Crash
    BY <1>0, <1>4, CrashKeeps
  <1>5. CASE Restart \/ SwarmRollsBack \/ UNCHANGED vars
    BY <1>0, <1>5, CoreStutters DEF Restart, SwarmRollsBack, vars, asked
  <1> QED
    BY <1>1, <1>2, <1>3, <1>4, <1>5 DEF Next

LEMMA RestKeeps ==
    ASSUME IInv, [Next]_vars
    PROVE  Rest'
  <1>1. (stood \subseteq Config /\ astray \subseteq Config /\ vouched \in Config)'
    BY HistoryKeeps, AstrayKeeps DEF Config
  <1>2. (running \in Config /\ before \in Config)'
    BY ClusterKeeps DEF Config
  <1> QED
    BY <1>1, <1>2, AppKeeps, CountersKeep DEF Rest

LEMMA InitSound == Init => IInv
  <1> SUFFICES ASSUME Init
               PROVE  IInv
    OBVIOUS
  <1>0. /\ MaxChanges \in Nat /\ MaxAnswers \in Nat /\ MaxFaults \in Nat /\ 1 \in Config
    BY ProbationAssumption DEF ProbationAssumption, Config
  <1>1. tasks \in Seq(Task) /\ Len(tasks) = 0 /\ DOMAIN tasks = {}
    <2>1. tasks \in Seq(Task) /\ Len(tasks) = 0
      BY EmptySeq DEF Init
    <2> QED
      BY <2>1, LenProperties
  <1>2. \A a \in Actor : tx[a] = Idle
    BY DEF Init
  <1>3. tx \in [Actor -> Tx] /\ Exclusive
    BY <1>2, IdleTyped DEF Init, Exclusive
  <1>4. AllGood
    BY <1>2, IdleGood DEF AllGood
  <1>5. Core
    BY <1>0, <1>1, <1>3, <1>4 DEF Init, Core, Row, Versions
  <1>6. Rest
    BY <1>0 DEF Init, Rest
  <1> QED
    BY <1>5, <1>6 DEF IInv

LEMMA Invariant == Spec => []IInv
  <1>1. IInv /\ [Next]_vars => IInv'
    BY CoreKeeps, RestKeeps DEF IInv
  <1> QED
    BY <1>1, InitSound, PTL DEF Spec

LEMMA InvTyped == IInv => TypeOK
  <1> SUFFICES ASSUME IInv
               PROVE  TypeOK
    OBVIOUS
  <1>1. \A a \in Actor : tx[a].task = 0 \/ tx[a].task \in Trials
    BY TxTyped DEF IInv
  <1>2. Core /\ Rest
    BY DEF IInv
  <1> QED
    BY <1>1, <1>2 DEF Core, Rest, TypeOK

\* TypeOK holds for any clients, kinds, retries, changes and faults.
THEOREM TypeCorrect == Spec => []TypeOK
  BY Invariant, InvTyped, PTL

-----------------------------------------------------------------------------
(* SettledOnce. *)

\* Of a trial that is settled the step says nothing new, unless it is a revert
\* asked for.
SettledStep ==
    \A t \in Trials : ~OnTrial(t) /\ tasks'[t].status # tasks[t].status =>
        \E c \in Client : tx[c].op = "revertNow" /\ tx[c].task = t

\* A step that writes at most the trial p writes what is on trial, or says what
\* its row says.
LEMMA OneSettled ==
    ASSUME Core, NEW p \in Trials, NEW task, tasks' = [tasks EXCEPT ![p] = task],
           \/ OnTrial(p)
           \/ task.status = tasks[p].status
           \/ \E c \in Client : tx[c].op = "revertNow" /\ tx[c].task = p
    PROVE  SettledStep
  <1> SUFFICES ASSUME NEW t \in Trials, ~OnTrial(t), tasks'[t].status # tasks[t].status
               PROVE  \E c \in Client : tx[c].op = "revertNow" /\ tx[c].task = t
    BY DEF SettledStep
  <1>1. CASE t = p
    BY <1>1 DEF Trials
  <1>2. CASE t # p
    BY <1>2 DEF Trials
  <1> QED
    BY <1>1, <1>2

LEMMA UpdateSettles ==
    ASSUME Core, NEW c \in Client, CommitUpdate(c)
    PROVE  SettledStep
  <1> DEFINE p == tx[c].task
             new == [status |-> "not_started", retry |-> 0, ver |-> setting.ver + 1,
                     conf |-> tx[c].conf, snap |-> tx[c].snap, time |-> "settling"]
             ts == IF p = 0 THEN tasks ELSE Canceled(p)
  <1>0. /\ tx[c] \in Tx
        /\ UpdateGood(tx[c], tasks, last) /\ tx[c].at = "applied"
        /\ p = 0 \/ p \in Trials
        /\ setting.ver \in Nat /\ MaxRetry \in Nat
        /\ Trials = 1..Len(tasks) /\ \A t \in Trials : tasks[t] \in Task
    BY TxTyped, TrialsTyped, ProbationAssumption
    DEF ProbationAssumption, Actor, CommitUpdate, Good, Core, Row
  <1>1. tasks' = Append(ts, new) /\ new \in Task
    BY <1>0 DEF CommitUpdate, Task, Tx
  <1>2. ts \in Seq(Task) /\ Len(ts) = Len(tasks)
    <2>1. CASE p = 0
      BY <2>1 DEF Core
    <2>2. CASE p # 0
      <3>1. [tasks[p] EXCEPT !.status = "canceled"] \in Task
        BY <1>0, <2>2 DEF Task
      <3> QED
        BY <1>0, <2>2, <3>1, ExceptSeq DEF Canceled, Core
    <2> QED
      BY <2>1, <2>2
  <1> HIDE DEF new
  <1>3. \A t \in Trials : tasks'[t] = ts[t]
    <2> HIDE DEF ts
    <2> QED
      BY <1>0, <1>1, <1>2, AppendProperties
  <1>4. p # 0 => tasks[p].status \in {"not_started", "canceled"}
    BY <1>0 DEF UpdateGood
  <1> SUFFICES ASSUME NEW t \in Trials, ~OnTrial(t), tasks'[t].status # tasks[t].status
               PROVE  FALSE
    BY DEF SettledStep
  <1>5. ts[t].status # tasks[t].status
    BY <1>3
  <1>6. p # 0 /\ t = p
    BY <1>5 DEF Canceled, Trials
  <1>7. ts[t].status = "canceled"
    BY <1>0, <1>6 DEF Canceled, Trials, Task
  <1> QED
    BY <1>4, <1>5, <1>6, <1>7 DEF OnTrial

LEMMA ConfirmSettles ==
    ASSUME Core, NEW c \in Client, CommitConfirm(c)
    PROVE  SettledStep
  <1> DEFINE p == tx[c].task
             task == [tasks[p] EXCEPT !.status = "canceled"]
  <1>1. ConfirmGood(tx[c], tasks, setting.ver) /\ tx[c].at = "locked" /\ p \in Trials
    BY TxTyped DEF CommitConfirm, Actor, Good, ConfirmGood
  <1>2. tasks[p] \in Task /\ tasks[p].ver = setting.ver /\ setting.ver \in Nat
    BY <1>1, TrialsTyped DEF ConfirmGood, Core, Row
  <1>3. tasks[p].status \notin {"done", "failed"}
    BY <1>1, <1>2 DEF Core, Versions, Trials
  <1>4. tasks[p].status = "not_started" \/ task.status = tasks[p].status
    BY <1>2, <1>3 DEF Task
  <1>5. tasks' = [tasks EXCEPT ![p] = task]
    BY DEF CommitConfirm, Canceled
  <1> HIDE DEF task
  <1> QED
    BY <1>1, <1>4, <1>5, OneSettled DEF OnTrial

LEMMA RevertSettles ==
    ASSUME Core, NEW a \in Actor, CommitRevert(a) \/ SkipRevert(a) \/ (RevertFails(a) /\ a = Worker)
    PROVE  SettledStep
  <1> DEFINE t == tx[a].task
  <1>1. tx[a].op \in {"undo", "revertNow"} \/ tx[a].at = "skip"
    BY DEF CommitRevert, SkipRevert, RevertFails, ReadyToPush
  <1>2. /\ tx[a].op \in {"undo", "revertNow"} /\ t \in Trials
        /\ tx[a].op = "undo" => UndoGood(tx[a], tasks)
        /\ tx[a].op = "revertNow" => a \in Client
    BY <1>1, SettlerTyped
  <1>3. OnTrial(t) \/ \E c \in Client : tx[c].op = "revertNow" /\ tx[c].task = t
    BY <1>2 DEF UndoGood, Alive, OnTrial, CanRetry
  <1>4. \E task : tasks' = [tasks EXCEPT ![t] = task]
    BY DEF CommitRevert, SkipRevert, RevertFails, Settled
  <1> QED
    BY <1>2, <1>3, <1>4, OneSettled

\* A trial that is settled stays as it is, for any clients, changes, retries and
\* faults; but for a revert that was asked for before the trial was confirmed.
THEOREM SettledForGood == Spec => SettledOnce
  <1>1. ASSUME IInv, [Next]_vars
        PROVE  SettledStep
    <2>0. Core
      BY <1>1 DEF IInv
    <2>1. CASE tasks' = tasks
      BY <2>1 DEF SettledStep
    <2>2. ASSUME NEW t \in Trials, TimePasses(t)
          PROVE  SettledStep
      <3> DEFINE task == [tasks[t] EXCEPT !.time = IF tasks[t].time = "settling" THEN "open" ELSE "due"]
      <3>1. task.status = tasks[t].status /\ tasks' = [tasks EXCEPT ![t] = task]
        BY <2>0, <2>2, TrialsTyped DEF TimePasses, Task
      <3> HIDE DEF task
      <3> QED
        BY <2>0, <3>1, OneSettled
    <2>3. \/ tasks' = tasks
          \/ \E c \in Client : CommitUpdate(c) \/ CommitConfirm(c)
          \/ \E a \in Actor : CommitRevert(a) \/ SkipRevert(a) \/ (RevertFails(a) /\ a = Worker)
          \/ \E t \in Trials : TimePasses(t)
      BY <1>1 DEF Next, vars, UpdateStep, AnswerStep, RevertStep, BeginUpdate, LockForUpdate, WriteUpdate, Schedule,
           UpdateFails, BeginAnswer, LockSetting, LockForRevert, PushRevert, RevertFails, Deadlock,
           Abort, RollBack, ClaimByWorker, TimerFires, Crash, Restart, SwarmRollsBack
    <2> QED
      BY <2>0, <2>1, <2>2, <2>3, UpdateSettles, ConfirmSettles, RevertSettles
  <1>2. IInv /\ [Next]_vars => [SettledStep]_vars
    BY <1>1
  <1>3. Spec => [][SettledStep]_vars
    BY <1>2, Invariant, PTL DEF Spec
  <1> QED
    BY <1>3 DEF SettledOnce, SettledStep

-----------------------------------------------------------------------------
(* LiveIsVouchedOrOnTrial and FallsBackToVouched: what they rest on. *)

Updating(a) == tx[a].op = "update" /\ tx[a].at \in {"locked", "applied"}

Undoing(a) == /\ tx[a].op \in {"undo", "revertNow"} /\ tx[a].at \in {"locked", "applied"}
              /\ RevertLock \in tx[a].holds

Confirming(a) == tx[a].op = "confirm" /\ tx[a].at = "locked"

Applied(a) == tx[a].at = "applied"

\* Stood by once, or now; or left in a way that is known.
Safe(conf) == conf \in stood \/ conf \in astray
Base(conf) == conf = vouched \/ conf \in astray

\* No two trials are of one version, and one not started is of the setting's.
TrialInv ==
    /\ \A t, u \in Trials : tasks[t].ver = tasks[u].ver => t = u
    /\ \A t \in Trials : tasks[t].ver = setting.ver => tasks[t].conf = setting.conf
    /\ \A t \in NotStarted : tasks[t].ver = setting.ver

\* What can be restored. With no trial pending the setting is safe itself.
SnapInv ==
    /\ vouched \in stood
    /\ \A t \in Trials : Safe(tasks[t].snap)
    /\ NotStarted = {} => Safe(setting.conf)
    /\ kind # "routing" => \A t \in NotStarted : Base(tasks[t].snap)
    /\ kind = "service" /\ NotStarted = {} => Base(setting.conf)

\* What the cluster runs while no transaction has it otherwise.
RunInv ==
    /\ kind = "traefik" /\ NotStarted = {} /\ (\A a \in Actor : ~Applied(a)) => Base(running)
    /\ kind = "routing" /\ (\A a \in Actor : ~Applied(a)) => running = setting.conf \/ running \in astray
    /\ kind = "service" /\ NotStarted = {} => Safe(running)

\* What a transaction of a has read is so until it ends.
ReadInv(a) ==
    /\ Updating(a) => NotStarted \subseteq {tx[a].task}
    /\ Undoing(a) => tasks[tx[a].task].ver = setting.ver
    /\ Updating(a) => Safe(tx[a].snap)
    /\ Updating(a) /\ kind # "routing" => Base(tx[a].snap)

\* And what it has made the cluster run is run, but for what swarm takes back.
AppliedInv(a) ==
    /\ kind = "traefik" /\ Applied(a) /\ tx[a].op = "update" /\ NotStarted = {} =>
          (running = tx[a].conf /\ Base(before)) \/ Base(running)
    /\ kind = "traefik" /\ Applied(a) /\ tx[a].op # "update" =>
          running = tasks[tx[a].task].snap \/ running \in astray
    /\ kind = "traefik" /\ Confirming(a) => running = setting.conf
    /\ kind = "routing" /\ Applied(a) =>
          running = IF tx[a].op = "update" THEN tx[a].conf ELSE tasks[tx[a].task].snap

Falls ==
    /\ TrialInv /\ SnapInv /\ RunInv
    /\ \A a \in Actor : ReadInv(a) /\ AppliedInv(a)

-----------------------------------------------------------------------------
(* Who holds what. *)

LEMMA KindTyped ==
    ASSUME Core
    PROVE  /\ kind \in {"routing", "service", "traefik"}
           /\ kind # "routing" => RevertLock = SettingRow
  <1>1. kind \in {"routing", "service", "traefik"}
    BY ProbationAssumption DEF ProbationAssumption, Core
  <1> QED
    BY <1>1 DEF RevertLock

\* Whoever applies a change, or has accepted a confirmation, holds the setting's row.
LEMMA Appliers ==
    ASSUME Core, NEW a \in Actor
    PROVE  /\ Applied(a) => SettingRow \in tx[a].holds /\ tx[a].op \in {"update", "undo", "revertNow"}
           /\ Confirming(a) => SettingRow \in tx[a].holds
           /\ Updating(a) => RevertLock \in tx[a].holds
           /\ Applied(a) /\ tx[a].op # "update" => Undoing(a)
           /\ Applied(a) /\ tx[a].op = "update" => Updating(a)
  <1>1. /\ Good(a, tx[a], tasks, setting.ver, last)
        /\ tx[a].op \in {"none", "update", "confirm", "revertNow", "undo"}
    BY TxTyped
  <1>3. CASE tx[a].op = "update"
    <2>1. UpdateGood(tx[a], tasks, last)
      BY <1>1, <1>3 DEF Good
    <2> QED
      BY <1>3, <2>1 DEF UpdateGood, Written, Applied, Confirming, Updating
  <1>4. CASE tx[a].op = "confirm"
    <2>1. ConfirmGood(tx[a], tasks, setting.ver)
      BY <1>1, <1>4 DEF Good
    <2> QED
      BY <1>4, <2>1 DEF ConfirmGood, Applied, Confirming, Updating
  <1>5. CASE tx[a].op \in {"undo", "revertNow"}
    <2>1. RevertGood(tx[a], tasks, setting.ver)
      BY <1>1, <1>5 DEF Good
    <2> QED
      BY <1>5, <2>1 DEF RevertGood, Applied, Confirming, Updating, Undoing
  <1>6. CASE tx[a].op = "none"
    BY <1>1, <1>6 DEF Good, Applied, Confirming, Updating, Undoing
  <1> QED
    BY <1>1, <1>3, <1>4, <1>5, <1>6

\* Where the setting's row is free nobody else applies anything; where the lock
\* of reverts is, nobody else changes or undoes.
LEMMA Alone ==
    ASSUME Core, NEW a \in Actor, NEW b \in Actor, a # b
    PROVE  /\ Free({SettingRow}, a) => ~Applied(b) /\ ~Confirming(b)
           /\ Free({RevertLock}, a) => ~Updating(b) /\ ~Undoing(b)
  <1>1. \A r : Free({r}, a) => r \notin tx[b].holds
    BY DEF Free
  <1>2. Undoing(b) => RevertLock \in tx[b].holds
    BY DEF Undoing
  <1> QED
    BY <1>1, <1>2, Appliers

\* An ended transaction has nothing to rely on.
LEMMA EndedHas ==
    ASSUME NEW a \in Actor, tx'[a] = Idle
    PROVE  /\ ~Applied(a)' /\ ~Confirming(a)' /\ ~Updating(a)' /\ ~Undoing(a)'
           /\ ReadInv(a)' /\ AppliedInv(a)'
  <1>1. ~Applied(a)' /\ ~Confirming(a)' /\ ~Updating(a)' /\ ~Undoing(a)' /\ tx'[a].op = "none"
    BY IdleTyped DEF Applied, Confirming, Updating, Undoing
  <1> QED
    BY <1>1 DEF ReadInv, AppliedInv

-----------------------------------------------------------------------------
(* Which trials are pending. *)

\* One trial at most is of the setting's version, and it alone may be pending.
LEMMA OnlyPending ==
    ASSUME TrialInv, NEW t \in Trials, tasks[t].ver = setting.ver
    PROVE  NotStarted \subseteq {t}
  <1> SUFFICES ASSUME NEW u \in NotStarted
               PROVE  u = t
    OBVIOUS
  <1>1. u \in Trials /\ tasks[u].ver = setting.ver
    BY DEF NotStarted, TrialInv
  <1> QED
    BY <1>1 DEF TrialInv

LEMMA FindsPending ==
    ASSUME Core, TrialInv
    PROVE  /\ NotStarted \subseteq {FindPending}
           /\ FindPending = 0 => NotStarted = {}
           /\ FindPending # 0 => FindPending \in NotStarted
  <1>1. FindPending # 0 => FindPending \in NotStarted
    BY PendingTyped DEF NotStarted
  <1>2. ASSUME NEW t \in NotStarted
        PROVE  t = FindPending
    <2>1. t \in Trials /\ NotStarted \subseteq {t} /\ t # 0 /\ t \in Nat
      <3>1. t \in Trials /\ tasks[t].ver = setting.ver
        BY <1>2 DEF NotStarted, TrialInv
      <3> QED
        BY <3>1, OnlyPending, TrialsTyped
    <2>2. Latest(t)
      BY <1>2, <2>1 DEF Latest
    <2>3. \E u \in Trials : Latest(u)
      BY <2>1, <2>2
    <2>4. FindPending \in Trials /\ Latest(FindPending)
      BY <2>3 DEF FindPending
    <2> QED
      BY <2>1, <2>4 DEF Latest
  <1>3. 0 \notin NotStarted
    BY TrialsTyped DEF NotStarted
  <1> QED
    BY <1>1, <1>2, <1>3

\* What is undone by itself is pending.
LEMMA UndonePends ==
    ASSUME Core, NEW a \in Actor, ReadInv(a), Undoing(a), tx[a].op = "undo"
    PROVE  tx[a].task \in NotStarted
  <1>1. /\ tx[a].task \in Trials /\ Alive(tasks[tx[a].task])
        /\ tasks[tx[a].task].ver = setting.ver /\ setting.ver \in Nat
    BY SettlerTyped DEF UndoGood, ReadInv, Core, Row
  <1> QED
    BY <1>1 DEF Alive, Core, Versions, NotStarted, Trials

-----------------------------------------------------------------------------
(* What a step leaves alone. *)

\* A step that stands by nothing and leaves the rows alone.
SameRows == kind' = kind /\ setting' = setting /\ tasks' = tasks

LEMMA RowsSame ==
    ASSUME SameRows
    PROVE  Trials' = Trials /\ NotStarted' = NotStarted
  BY DEF SameRows, Trials, NotStarted

LEMMA TrialStays ==
    ASSUME SameRows, TrialInv
    PROVE  TrialInv'
  BY RowsSame DEF SameRows, TrialInv

LEMMA SnapStays ==
    ASSUME SameRows, SnapInv, vouched' = vouched, stood' = stood, astray \subseteq astray'
    PROVE  SnapInv'
  <1>1. Trials' = Trials /\ NotStarted' = NotStarted
    BY RowsSame
  <1> QED
    BY <1>1 DEF SameRows, SnapInv, Safe, Base

\* Nor does a transaction notice a step of another's that leaves it its rows.
LEMMA ReadStays ==
    ASSUME SameRows, vouched' = vouched, stood' = stood, astray \subseteq astray',
           NEW a \in Actor, tx'[a] = tx[a], ReadInv(a)
    PROVE  ReadInv(a)'
  <1>1. NotStarted' = NotStarted /\ RevertLock' = RevertLock
    BY RowsSame DEF SameRows, RevertLock
  <1>2. (Updating(a)' <=> Updating(a)) /\ (Undoing(a)' <=> Undoing(a))
    BY <1>1 DEF Updating, Undoing
  <1> QED
    BY <1>1, <1>2 DEF SameRows, ReadInv, Safe, Base

LEMMA AppliedStays ==
    ASSUME SameRows, vouched' = vouched, astray \subseteq astray', running' = running, before' = before,
           NEW a \in Actor, tx'[a] = tx[a], AppliedInv(a)
    PROVE  AppliedInv(a)'
  <1>1. NotStarted' = NotStarted
    BY RowsSame
  <1>2. (Applied(a)' <=> Applied(a)) /\ (Confirming(a)' <=> Confirming(a))
    BY DEF Applied, Confirming
  <1> QED
    BY <1>1, <1>2 DEF SameRows, AppliedInv, Base

\* Of a service nothing is said as to what runs, nor of one that applies nothing.
LEMMA NothingApplied ==
    ASSUME NEW a \in Actor, (~Applied(a) /\ ~Confirming(a))' \/ kind' = "service"
    PROVE  AppliedInv(a)'
  BY DEF AppliedInv

\* The step of a transaction that writes no row: others that apply something or
\* have accepted a confirmation see what they did.
LEMMA OneTxFalls ==
    ASSUME Core, Falls, SameRows, vouched' = vouched, stood' = stood, astray \subseteq astray',
           NEW a \in Actor, \A b \in Actor \ {a} : tx'[b] = tx[b], ~Applied(a),
           \/ running' = running /\ before' = before
           \/ /\ kind = "service" \/ (Applied(a)' /\ Free({SettingRow}, a))
              /\ kind = "service" /\ NotStarted = {} => Safe(running)',
           ReadInv(a)', AppliedInv(a)'
    PROVE  Falls'
  <1>0. /\ kind' = kind /\ setting' = setting /\ tasks' = tasks
        /\ Trials' = Trials /\ NotStarted' = NotStarted
    BY RowsSame DEF SameRows
  <1>1. TrialInv' /\ SnapInv'
    BY <1>0, TrialStays, SnapStays DEF Falls
  <1>2. ASSUME NEW b \in Actor
        PROVE  ReadInv(b)' /\ AppliedInv(b)'
    <2>1. CASE b = a
      BY <2>1
    <2>2. CASE b # a
      <3>1. tx'[b] = tx[b] /\ ReadInv(b) /\ AppliedInv(b)
        BY <2>2 DEF Falls
      <3>2. ReadInv(b)'
        BY <1>0, <3>1, ReadStays
      <3>3. CASE kind = "service"
        BY <1>0, <3>2, <3>3, NothingApplied
      <3>4. CASE running' = running /\ before' = before
        BY <1>0, <3>1, <3>2, <3>4, AppliedStays
      <3>5. CASE Free({SettingRow}, a)
        <4>1. ~Applied(b) /\ ~Confirming(b)
          BY <2>2, <3>5, Alone
        <4>2. (~Applied(b) /\ ~Confirming(b))'
          BY <3>1, <4>1 DEF Applied, Confirming
        <4> QED
          BY <3>2, <4>2, NothingApplied
      <3> QED
        BY <3>3, <3>4, <3>5
    <2> QED
      BY <2>1, <2>2
  <1>3. RunInv'
    <2>1. CASE running' = running /\ before' = before
      <3>1. (\A b \in Actor : ~Applied(b))' => \A b \in Actor : ~Applied(b)
        BY DEF Applied, Actor
      <3> QED
        BY <1>0, <2>1, <3>1 DEF Falls, RunInv, Base, Safe
    <2>2. CASE /\ kind = "service" \/ Applied(a)'
               /\ kind = "service" /\ NotStarted = {} => Safe(running)'
      BY <1>0, <2>2 DEF RunInv, Actor
    <2> QED
      BY <2>1, <2>2
  <1>4. (\A b \in Actor : ReadInv(b) /\ AppliedInv(b))'
    BY <1>2 DEF Actor
  <1> QED
    BY <1>1, <1>3, <1>4 DEF Falls

\* One that ends, having applied nothing.
LEMMA EndFalls ==
    ASSUME Core, Falls, SameRows, vouched' = vouched, stood' = stood, astray \subseteq astray',
           NEW a \in Actor, End(a), ~Applied(a),
           \/ running' = running /\ before' = before
           \/ kind = "service" /\ (NotStarted = {} => Safe(running)')
    PROVE  Falls'
  <1>1. tx'[a] = Idle /\ \A b \in Actor \ {a} : tx'[b] = tx[b]
    BY DEF Core, End
  <1>2. ReadInv(a)' /\ AppliedInv(a)'
    BY <1>1, EndedHas
  <1> QED
    BY <1>1, <1>2, OneTxFalls

LEMMA FallsStutters ==
    ASSUME Falls, SameRows, UNCHANGED <<history, cluster>>, tx' = tx
    PROVE  Falls'
  <1>0. /\ vouched' = vouched /\ stood' = stood /\ astray' = astray
        /\ running' = running /\ before' = before
    BY DEF history, cluster
  <1>1. \A a \in Actor : ReadInv(a)' /\ AppliedInv(a)'
    BY <1>0, ReadStays, AppliedStays DEF Falls
  <1>2. TrialInv' /\ SnapInv'
    BY <1>0, TrialStays, SnapStays DEF Falls
  <1>3. RunInv'
    BY <1>0, RowsSame DEF Falls, RunInv, SameRows, Base, Safe, Applied, Actor
  <1> QED
    BY <1>1, <1>2, <1>3 DEF Falls, Actor

-----------------------------------------------------------------------------
(* Falls is kept: by the steps of a transaction that write no row. *)

\* What an update captures of the pending trial can be fallen back to; and of the
\* setting, where it says what is safe.
LEMMA SnapshotFalls ==
    ASSUME Core, Falls, NEW conf,
           FindPending = 0 => Safe(conf) /\ (kind # "routing" => Base(conf))
    PROVE  /\ Safe(Snapshot(FindPending, conf))
           /\ kind # "routing" => Base(Snapshot(FindPending, conf))
  <1>1. CASE FindPending # 0
    <2>1. FindPending \in NotStarted /\ FindPending \in Trials
      BY <1>1, FindsPending DEF NotStarted, Falls
    <2> QED
      BY <1>1, <2>1 DEF SnapInv, Snapshot, Falls
  <1>2. CASE FindPending = 0
    BY <1>2 DEF Snapshot
  <1> QED
    BY <1>1, <1>2

\* One that reads and locks, and has nothing to apply yet.
LEMMA ReaderFalls ==
    ASSUME Core, Falls, SameRows, UNCHANGED <<history, cluster>>,
           NEW a \in Actor, \A b \in Actor \ {a} : tx'[b] = tx[b], ~Applied(a),
           ~Updating(a)', ~Applied(a)',
           Undoing(a)' => tasks[tx'[a].task].ver = setting.ver,
           kind = "traefik" /\ Confirming(a)' => running = setting.conf
    PROVE  Falls'
  <1>1. ReadInv(a)'
    BY DEF ReadInv, SameRows
  <1>2. AppliedInv(a)'
    BY DEF AppliedInv, SameRows, cluster
  <1>3. /\ vouched' = vouched /\ stood' = stood /\ astray' = astray
        /\ running' = running /\ before' = before
    BY DEF cluster, history
  <1> QED
    BY <1>1, <1>2, <1>3, OneTxFalls

LEMMA BeginUpdateFalls ==
    ASSUME Core, Falls, NEW c \in Client, BeginUpdate(c)
    PROVE  Falls'
  <1>0. /\ c \in Actor /\ SameRows /\ UNCHANGED <<history, cluster>> /\ tx[c] = Idle
        /\ running' = running /\ before' = before /\ ~Applied(c)
        /\ vouched' = vouched /\ stood' = stood /\ astray' = astray
        /\ \A b \in Actor \ {c} : tx'[b] = tx[b]
    BY IdleTyped DEF Actor, BeginUpdate, SameRows, cluster, history, Applied, Core
  <1>1. CASE kind = "traefik"
    <2>1. tx'[c].op = "update" /\ tx'[c].at = "read"
      BY <1>0, <1>1 DEF BeginUpdate, Core
    <2> QED
      BY <1>0, <2>1, ReaderFalls DEF Applied, Undoing, Updating, Confirming
  <1>2. CASE kind # "traefik"
    <2>1. /\ tx'[c].op = "update" /\ tx'[c].at = "locked" /\ tx'[c].task = FindPending
          /\ tx'[c].snap = Snapshot(FindPending, setting.conf)
      BY <1>0, <1>2 DEF BeginUpdate, Core
    <2>2. /\ Safe(Snapshot(FindPending, setting.conf))
          /\ kind # "routing" => Base(Snapshot(FindPending, setting.conf))
      BY <1>2, SnapshotFalls, FindsPending, KindTyped DEF Falls, SnapInv
    <2>3. NotStarted' = NotStarted /\ NotStarted \subseteq {FindPending}
      BY <1>0, RowsSame, FindsPending DEF Falls
    <2>4. ReadInv(c)'
      BY <1>0, <2>1, <2>2, <2>3 DEF ReadInv, Updating, Undoing, Safe, Base, SameRows
    <2>5. AppliedInv(c)'
      BY <1>0, <2>1, NothingApplied DEF Applied, Confirming
    <2> QED
      BY <1>0, <2>4, <2>5, OneTxFalls
  <1> QED
    BY <1>1, <1>2

\* What was read while another could revert is what runs, or is remembered.
LEMMA LockForUpdateFalls ==
    ASSUME Core, Falls, NEW c \in Client, LockForUpdate(c)
    PROVE  Falls'
  <1> DEFINE snap == Snapshot(FindPending, tx[c].snap)
  <1>0. /\ c \in Actor /\ SameRows /\ ~Applied(c) /\ tx[c] \in Tx
        /\ running' = running /\ before' = before
        /\ vouched' = vouched /\ stood' = stood /\ astray \subseteq astray'
        /\ tx[c].op = "update" /\ tx[c].at = "read"
    BY TxTyped DEF Actor, LockForUpdate, SameRows, cluster, Applied
  <1>1. /\ tx'[c].op = "update" /\ tx'[c].at = "locked" /\ tx'[c].task = FindPending
        /\ tx'[c].snap = snap
        /\ \A b \in Actor \ {c} : tx'[b] = tx[b]
    <2>1. tx \in [Actor -> Tx]
      BY DEF Core
    <2> HIDE DEF snap
    <2>2. tx' = [tx EXCEPT ![c] = [tx[c] EXCEPT !.at = "locked", !.task = FindPending, !.snap = snap,
                                               !.holds = tx[c].holds \cup {SettingRow}]]
      BY DEF LockForUpdate, snap
    <2> QED
      BY <1>0, <2>1, <2>2 DEF Tx
  <1>2. kind = "traefik" /\ Free({SettingRow}, c)
    BY <1>0, TxTyped DEF LockForUpdate, Good, UpdateGood
  <1>3. NotStarted' = NotStarted /\ NotStarted \subseteq {FindPending}
    BY <1>0, RowsSame, FindsPending DEF Falls
  <1>4. snap \in stood' \cup astray' /\ (snap = vouched' \/ snap \in astray')
    <2>1. vouched \in stood
      BY DEF Falls, SnapInv
    <2>2. CASE FindPending # 0
      <3>1. Base(snap)
        BY <1>2, <2>2, SnapshotFalls
      <3> QED
        BY <1>0, <2>1, <3>1 DEF Base
    <2>3. CASE FindPending = 0
      <3>1. snap = tx[c].snap /\ NotStarted = {}
        BY <2>3, FindsPending DEF Snapshot, Falls
      <3>2. snap = running \/ snap \in astray'
        BY <2>3, <3>1 DEF LockForUpdate
      <3>3. \A b \in Actor : ~Applied(b)
        BY <1>0, <1>2, Alone
      <3>4. Base(running)
        BY <1>2, <3>1, <3>3 DEF Falls, RunInv
      <3> QED
        BY <1>0, <2>1, <3>2, <3>4 DEF Base
    <2> QED
      BY <2>2, <2>3
  <1> HIDE DEF snap
  <1>5. ReadInv(c)'
    BY <1>0, <1>1, <1>3, <1>4 DEF ReadInv, Updating, Undoing, Safe, Base, SameRows
  <1>6. AppliedInv(c)'
    BY <1>0, <1>1, NothingApplied DEF Applied, Confirming
  <1> QED
    BY <1>0, <1>1, <1>5, <1>6, OneTxFalls

LEMMA WriteUpdateFalls ==
    ASSUME Core, Falls, NEW c \in Client, WriteUpdate(c)
    PROVE  Falls'
  <1>0. /\ c \in Actor /\ SameRows /\ UNCHANGED history /\ ~Applied(c) /\ ~Confirming(c)
        /\ vouched' = vouched /\ stood' = stood /\ astray' = astray
        /\ tx[c].op = "update" /\ tx[c].at = "locked"
    BY DEF Actor, WriteUpdate, SameRows, Applied, Confirming, history
  <1>1. /\ tx'[c].op = "update" /\ tx'[c].at = "applied" /\ tx'[c].task = tx[c].task
        /\ tx'[c].snap = tx[c].snap /\ tx'[c].conf = tx[c].conf
        /\ \A b \in Actor \ {c} : tx'[b] = tx[b]
    <2>1. tx[c] \in Tx
      BY <1>0, TxTyped
    <2> QED
      BY <1>0, <2>1 DEF WriteUpdate, Core, Tx
  <1>2. Free({SettingRow}, c) /\ Applied(c)'
    BY <1>1 DEF WriteUpdate, Free, Written, Applied
  <1>3. NotStarted' = NotStarted
    BY <1>0, RowsSame
  <1>4. ReadInv(c)'
    <2>1. ReadInv(c) /\ Updating(c)
      BY <1>0 DEF Falls, Updating
    <2> QED
      BY <1>0, <1>1, <1>3, <2>1 DEF ReadInv, Updating, Undoing, Safe, Base, history, SameRows
  <1>5. AppliedInv(c)'
    <2>1. CASE kind = "service"
      BY <1>0, <2>1, NothingApplied DEF SameRows
    <2>2. CASE kind # "service"
      <3>1. running' = tx[c].conf /\ before' = running
        BY <2>2 DEF WriteUpdate, Push
      <3>2. \A b \in Actor : ~Applied(b)
        BY <1>0, <1>2, Alone
      <3>3. kind = "traefik" /\ NotStarted = {} => Base(running)
        BY <3>2 DEF Falls, RunInv
      <3>4. ~Confirming(c)'
        BY <1>1 DEF Confirming
      <3> QED
        BY <1>0, <1>1, <1>3, <3>1, <3>3, <3>4 DEF AppliedInv, Base, history, SameRows
    <2> QED
      BY <2>1, <2>2
  <1>6. \/ running' = running /\ before' = before
        \/ Applied(c)' /\ Free({SettingRow}, c) /\ kind # "service"
    BY <1>2 DEF WriteUpdate, cluster
  <1> QED
    BY <1>0, <1>1, <1>4, <1>5, <1>6, OneTxFalls

LEMMA ScheduleFalls ==
    ASSUME Core, Falls, NEW c \in Client, Schedule(c) \/ UpdateFails(c)
    PROVE  Falls'
  <1>1. /\ c \in Actor /\ SameRows /\ End(c) /\ ~Applied(c)
        /\ vouched' = vouched /\ stood' = stood /\ astray \subseteq astray'
    BY DEF Actor, Schedule, UpdateFails, SameRows, Applied, history
  <1>2. CASE UNCHANGED cluster
    BY <1>1, <1>2, EndFalls DEF cluster
  <1>3. CASE ~UNCHANGED cluster
    <2>1. /\ kind = "service" /\ running' = tx[c].conf
          /\ astray' = astray \cup TooLate(tx[c].conf)
      BY <1>3 DEF Schedule, UpdateFails, Push
    <2>2. NotStarted = {} => Safe(running)'
      BY <1>1, <2>1 DEF TooLate, Falls, SnapInv, Safe
    <2> QED
      BY <1>1, <2>1, <2>2, EndFalls
  <1> QED
    BY <1>2, <1>3

LEMMA BeginAnswerFalls ==
    ASSUME Core, Falls, NEW c \in Client, BeginAnswer(c)
    PROVE  Falls'
  <1>1. /\ c \in Actor /\ SameRows /\ UNCHANGED <<history, cluster>>
        /\ ~Applied(c) /\ \A b \in Actor \ {c} : tx'[b] = tx[b]
    BY IdleTyped DEF Actor, BeginAnswer, SameRows, Applied, Core
  <1>2. tx'[c].op \in {"confirm", "revertNow"} /\ tx'[c].at = "read"
    BY <1>1 DEF BeginAnswer, Core, Idle
  <1> QED
    BY <1>1, <1>2, ReaderFalls DEF Applied, Undoing, Updating, Confirming

LEMMA LockSettingFalls ==
    ASSUME Core, Falls, NEW c \in Client, LockSetting(c)
    PROVE  Falls'
  <1>1. /\ c \in Actor /\ SameRows /\ UNCHANGED <<history, cluster>>
        /\ ~Applied(c) /\ tx[c].op \in {"confirm", "revertNow"} /\ tx[c] \in Tx
    BY TxTyped DEF Actor, LockSetting, SameRows, Applied
  <1>0. PICK live \in LooksLive :
           IF ~Accepts(c, live) THEN End(c)
           ELSE tx' = [tx EXCEPT ![c] = [tx[c] EXCEPT !.at = "locked", !.holds = {SettingRow}]]
    BY DEF LockSetting
  <1>2. CASE ~Accepts(c, live)
    BY <1>0, <1>1, <1>2, EndFalls DEF cluster, history
  <1>3. CASE Accepts(c, live)
    <2>1. /\ tx'[c].op = tx[c].op /\ tx'[c].at = "locked" /\ tx'[c].task = tx[c].task
          /\ \A b \in Actor \ {c} : tx'[b] = tx[b]
      <3>1. tx' = [tx EXCEPT ![c] = [tx[c] EXCEPT !.at = "locked", !.holds = {SettingRow}]]
        BY <1>0, <1>3
      <3>2. tx \in [Actor -> Tx]
        BY DEF Core
      <3> QED
        BY <1>1, <3>1, <3>2 DEF Tx
    <2>2. tasks[tx[c].task].ver = setting.ver
      BY <1>3 DEF Accepts
    <2>3. kind = "traefik" /\ tx[c].op = "confirm" => running = setting.conf
      BY <1>3 DEF Accepts, LooksLive, StillLive
    <2> QED
      BY <1>1, <2>1, <2>2, <2>3, ReaderFalls DEF Applied, Undoing, Updating, Confirming
  <1> QED
    BY <1>2, <1>3

\* The worker, or a timer, takes a trial.
LEMMA TakenFalls ==
    ASSUME Core, Falls, SameRows, UNCHANGED <<history, cluster>>,
           NEW a \in Actor, NEW t \in Trials, tx[a] = Idle,
           tx' = [tx EXCEPT ![a] = [Idle EXCEPT !.op = "undo", !.at = "read", !.task = t,
                                                !.holds = {TaskRow(t)}]]
    PROVE  Falls'
  <1>1. tx'[a].op = "undo" /\ tx'[a].at = "read" /\ \A b \in Actor \ {a} : tx'[b] = tx[b]
    BY DEF Core, Idle
  <1>2. ~Applied(a)
    BY IdleTyped DEF Applied
  <1> QED
    BY <1>1, <1>2, ReaderFalls DEF Applied, Undoing, Updating, Confirming

LEMMA LockForRevertFalls ==
    ASSUME Core, Falls, NEW a \in Actor, LockForRevert(a)
    PROVE  Falls'
  <1>1. /\ SameRows /\ UNCHANGED <<history, cluster>> /\ ~Applied(a)
        /\ tx[a].op \in {"undo", "revertNow"} /\ tx[a] \in Tx
    BY TxTyped DEF LockForRevert, SameRows, Applied, Reverts
  <1>2. /\ tx'[a].op = tx[a].op /\ tx'[a].task = tx[a].task
        /\ tx'[a].at = IF tasks[tx[a].task].ver = setting.ver THEN "locked" ELSE "skip"
        /\ \A b \in Actor \ {a} : tx'[b] = tx[b]
    BY <1>1 DEF LockForRevert, Core, Tx
  <1> QED
    BY <1>1, <1>2, ReaderFalls DEF Applied, Undoing, Updating, Confirming

\* A revert restores what can be stood by, or what was.
LEMMA RevertedTo ==
    ASSUME Core, Falls, NEW a \in Actor, Undoing(a)
    PROVE  /\ tx[a].task \in Trials /\ tasks[tx[a].task] \in Task
           /\ tasks[tx[a].task].ver = setting.ver
           /\ Safe(tasks[tx[a].task].snap)
           /\ tx[a].op = "undo" /\ kind # "routing" => Base(tasks[tx[a].task].snap)
           /\ Free({RevertLock}, a)
  <1>1. tx[a].task \in Trials /\ tasks[tx[a].task] \in Task
    BY SettlerTyped, TrialsTyped DEF Undoing
  <1>2. tasks[tx[a].task].ver = setting.ver
    BY DEF Falls, ReadInv
  <1>3. Safe(tasks[tx[a].task].snap)
    BY <1>1 DEF Falls, SnapInv
  <1>4. tx[a].op = "undo" => tx[a].task \in NotStarted
    BY UndonePends DEF Falls
  <1>5. Free({RevertLock}, a)
    BY HeldIsFree DEF Undoing, Core
  <1> QED
    BY <1>1, <1>2, <1>3, <1>4, <1>5 DEF Falls, SnapInv

LEMMA PushRevertFalls ==
    ASSUME Core, Falls, NEW a \in Actor, PushRevert(a)
    PROVE  Falls'
  <1>1. /\ SameRows /\ vouched' = vouched /\ stood' = stood /\ astray' = astray
        /\ ~Applied(a) /\ Undoing(a)
        /\ tx[a].op \in {"undo", "revertNow"} /\ tx[a] \in Tx
        /\ Free({SettingRow}, a)
    BY TxTyped DEF PushRevert, ReadyToPush, SameRows, Applied, Undoing, history
  <1>2. /\ tx'[a].op = tx[a].op /\ tx'[a].task = tx[a].task /\ tx'[a].at = "applied"
        /\ \A b \in Actor \ {a} : tx'[b] = tx[b]
    BY <1>1 DEF PushRevert, Core, Tx
  <1>3. ReadInv(a)'
    <2>1. tasks[tx[a].task].ver = setting.ver
      BY <1>1 DEF Falls, ReadInv
    <2> QED
      BY <1>1, <1>2, <2>1 DEF ReadInv, Updating, SameRows
  <1>4. AppliedInv(a)'
    <2>1. running' = tasks[tx[a].task].snap
      BY DEF PushRevert, Push, cluster
    <2> QED
      BY <1>1, <1>2, <2>1 DEF AppliedInv, Confirming, SameRows
  <1>5. Applied(a)'
    BY <1>2 DEF Applied
  <1>6. Safe(running)'
    <2>1. running' = tasks[tx[a].task].snap
      BY DEF PushRevert, Push, cluster
    <2> QED
      BY <1>1, <2>1, RevertedTo DEF Safe
  <1> QED
    BY <1>1, <1>2, <1>3, <1>4, <1>5, <1>6, OneTxFalls

-----------------------------------------------------------------------------
(* Falls is kept: by transactions cut off, and what swarm takes back. *)

\* What a transaction cut off has made the cluster run is remembered.
LEMMA CutRuns ==
    ASSUME Core, Falls, NEW A \in SUBSET Actor, NEW a \in A, Applied(a), astray' = astray \cup CutOff(A)
    PROVE  /\ kind = "traefik" /\ NotStarted = {} => running = vouched \/ running \in astray'
           /\ kind = "routing" => running \in astray'
  <1>0. a \in Actor /\ AppliedInv(a) /\ ReadInv(a) /\ astray \subseteq astray'
    BY DEF Falls
  <1>1. kind # "service" =>
           (IF tx[a].op = "update" THEN tx[a].conf ELSE tasks[tx[a].task].snap) \in astray'
    BY DEF CutOff, Applied
  <1>2. CASE tx[a].op = "update"
    BY <1>0, <1>1, <1>2 DEF AppliedInv, Base
  <1>3. CASE tx[a].op # "update"
    BY <1>0, <1>1, <1>3 DEF AppliedInv, Base
  <1> QED
    BY <1>2, <1>3

LEMMA CutFalls ==
    ASSUME Core, Falls, SameRows, UNCHANGED <<cluster, vouched, stood>>,
           NEW A \in SUBSET Actor,
           tx' = [a \in Actor |-> IF a \in A THEN Idle ELSE tx[a]],
           astray' = astray \cup CutOff(A)
    PROVE  Falls'
  <1>0. /\ kind' = kind /\ setting' = setting /\ tasks' = tasks
        /\ vouched' = vouched /\ stood' = stood /\ astray \subseteq astray'
        /\ running' = running /\ before' = before /\ NotStarted' = NotStarted
    BY RowsSame DEF SameRows, cluster
  <1>1. TrialInv' /\ SnapInv'
    BY <1>0, TrialStays, SnapStays DEF Falls
  <1>2. ASSUME NEW b \in Actor
        PROVE  ReadInv(b)' /\ AppliedInv(b)'
    <2>1. CASE b \in A
      BY <2>1, EndedHas
    <2>2. CASE b \notin A
      <3>1. tx'[b] = tx[b] /\ ReadInv(b) /\ AppliedInv(b)
        BY <2>2 DEF Falls
      <3> QED
        BY <1>0, <3>1, ReadStays, AppliedStays
    <2> QED
      BY <2>1, <2>2
  <1>3. RunInv'
    <2>1. CASE \E a \in A : Applied(a)
      BY <1>0, <2>1, CutRuns DEF Falls, RunInv, Base, Safe
    <2>2. CASE \A a \in A : ~Applied(a)
      <3>1. (\A b \in Actor : ~Applied(b))' => \A b \in Actor : ~Applied(b)
        BY <2>2 DEF Applied, Actor
      <3> QED
        BY <1>0, <3>1 DEF Falls, RunInv, Base, Safe
    <2> QED
      BY <2>1, <2>2
  <1>4. (\A b \in Actor : ReadInv(b) /\ AppliedInv(b))'
    BY <1>2 DEF Actor
  <1> QED
    BY <1>1, <1>3, <1>4 DEF Falls

LEMMA RollBackFalls ==
    ASSUME Core, Falls, NEW a \in Actor, RollBack(a)
    PROVE  Falls'
  <1>1. SameRows /\ UNCHANGED <<cluster, vouched, stood>> /\ astray' = astray \cup CutOff({a})
    BY DEF RollBack, SameRows
  <1>2. tx' = [b \in Actor |-> IF b \in {a} THEN Idle ELSE tx[b]]
    BY DEF RollBack, End, Core
  <1> QED
    BY <1>1, <1>2, CutFalls

LEMMA CrashFalls ==
    ASSUME Core, Falls, Crash
    PROVE  Falls'
  <1>1. SameRows /\ UNCHANGED <<cluster, vouched, stood>> /\ astray' = astray \cup CutOff(Actor \ {Worker})
    BY DEF Crash, SameRows
  <1>2. tx' = [b \in Actor |-> IF b \in Actor \ {Worker} THEN Idle ELSE tx[b]]
    BY DEF Crash
  <1> QED
    BY <1>1, <1>2, CutFalls

\* What runs and was never stood by is the change of an update still open, or
\* what a transaction cut off left: back to what was before, or to one more left.
LEMMA SwarmRollsBackFalls ==
    ASSUME Core, Falls, SwarmRollsBack
    PROVE  Falls'
  <1>0. /\ SameRows /\ tx' = tx /\ vouched' = vouched /\ stood' = stood /\ astray \subseteq astray'
        /\ running' = before /\ before' = before
        /\ kind # "routing" /\ running \notin stood
        /\ running \in astray => before \in astray'
    BY DEF SwarmRollsBack, SameRows
  <1>1. TrialInv' /\ SnapInv'
    BY <1>0, TrialStays, SnapStays DEF Falls
  <1>2. /\ kind' = kind /\ NotStarted' = NotStarted /\ tasks' = tasks
        /\ vouched \in stood /\ \A t \in Trials : Safe(tasks[t].snap)
    BY <1>0, RowsSame DEF SameRows, Falls, SnapInv
  <1>3. Base(running) => Base(before)'
    BY <1>0, <1>2 DEF Base
  <1>4. ASSUME NEW b \in Actor
        PROVE  ReadInv(b)' /\ AppliedInv(b)'
    <2>1. tx'[b] = tx[b] /\ ReadInv(b) /\ AppliedInv(b)
      BY <1>0 DEF Falls
    <2>2. ReadInv(b)'
      BY <1>0, <2>1, ReadStays
    <2>3. ~Confirming(b)
      BY <1>0, TxTyped DEF SwarmRollsBack, Confirming, Good
    <2>4. Applied(b) /\ tx[b].op # "update" => tx[b].task \in Trials
      BY Appliers, SettlerTyped
    <2>5. CASE Applied(b) /\ tx[b].op = "update"
      <3>1. kind = "traefik" /\ NotStarted = {} => Base(before)'
        BY <1>0, <1>3, <2>1, <2>5 DEF AppliedInv, Base
      <3> QED
        BY <1>0, <1>2, <2>1, <2>2, <2>3, <2>5, <3>1 DEF AppliedInv, Applied, Confirming, Base
    <2>6. CASE Applied(b) /\ tx[b].op # "update"
      <3>1. kind = "traefik" => before \in astray'
        BY <1>0, <1>2, <2>1, <2>4, <2>6 DEF AppliedInv, Safe
      <3> QED
        BY <1>0, <1>2, <2>1, <2>2, <2>3, <2>6, <3>1 DEF AppliedInv, Applied, Confirming
    <2>7. CASE ~Applied(b)
      <3>1. (~Applied(b) /\ ~Confirming(b))'
        BY <2>1, <2>3, <2>7 DEF Applied, Confirming
      <3> QED
        BY <2>2, <3>1, NothingApplied
    <2> QED
      BY <2>5, <2>6, <2>7
  <1>5. RunInv'
    <2>1. (\A b \in Actor : ~Applied(b))' => \A b \in Actor : ~Applied(b)
      BY <1>0 DEF Applied, Actor
    <2> QED
      BY <1>0, <1>2, <1>3, <2>1 DEF Falls, RunInv, Base, Safe
  <1>6. (\A b \in Actor : ReadInv(b) /\ AppliedInv(b))'
    BY <1>4 DEF Actor
  <1> QED
    BY <1>1, <1>5, <1>6 DEF Falls

-----------------------------------------------------------------------------
(* Falls is kept: by the steps that write rows. *)

\* The row of a trial as written says of its change what it did.
SameTrial(t, task) ==
    /\ task.ver = tasks[t].ver /\ task.conf = tasks[t].conf /\ task.snap = tasks[t].snap
    /\ tasks' = [tasks EXCEPT ![t] = task]

LEMMA TrialWritten ==
    ASSUME NEW t \in Trials, NEW task, SameTrial(t, task)
    PROVE  /\ Trials' = Trials
           /\ \A u \in Trials : /\ tasks'[u].ver = tasks[u].ver
                                /\ tasks'[u].conf = tasks[u].conf
                                /\ tasks'[u].snap = tasks[u].snap
           /\ \A u \in Trials \ {t} : tasks'[u] = tasks[u]
           /\ tasks'[t] = task
           /\ task.status # "not_started" => NotStarted' = NotStarted \ {t}
           /\ task.status = "not_started" => NotStarted' = NotStarted \cup {t}
  <1>1. Trials' = Trials
    BY DEF SameTrial, Trials
  <1>2. tasks'[t] = task /\ \A u \in Trials \ {t} : tasks'[u] = tasks[u]
    BY DEF SameTrial, Trials
  <1>3. \A u \in Trials : /\ tasks'[u].ver = tasks[u].ver
                          /\ tasks'[u].conf = tasks[u].conf
                          /\ tasks'[u].snap = tasks[u].snap
    BY <1>2 DEF SameTrial
  <1> QED
    BY <1>1, <1>2, <1>3 DEF NotStarted

\* The trial of the change in force is settled, and the setting with it: nothing
\* is pending then.
LEMMA SettledFalls ==
    ASSUME Core, Falls, kind' = kind, UNCHANGED cluster, astray \subseteq astray', stood \subseteq stood',
           NEW a \in Actor, End(a), Free({SettingRow}, a),
           NEW t \in Trials, NEW task, SameTrial(t, task),
           task.status # "not_started", tasks[t].ver = setting.ver,
           setting' = setting \/ (Free({RevertLock}, a) /\ setting'.ver = setting.ver + 1),
           vouched' \in stood', Safe(setting.conf)',
           kind = "service" => Base(setting.conf)' /\ Safe(running)',
           kind = "traefik" => Base(running)',
           kind = "routing" => running = setting'.conf \/ running \in astray'
    PROVE  Falls'
  <1>0. /\ Trials' = Trials
        /\ \A u \in Trials : /\ tasks'[u].ver = tasks[u].ver
                             /\ tasks'[u].conf = tasks[u].conf
                             /\ tasks'[u].snap = tasks[u].snap
        /\ NotStarted' = {}
    BY TrialWritten, OnlyPending DEF Falls
  <1>1. TrialInv'
    <2>1. \A u \in Trials : tasks[u].ver = setting'.ver => tasks[u].conf = setting'.conf
      <3>1. CASE setting' = setting
        BY <3>1 DEF Falls, TrialInv
      <3>2. CASE setting'.ver = setting.ver + 1
        <4>1. /\ setting.ver \in Nat
              /\ \A u \in Trials : tasks[u].ver \in Nat /\ tasks[u].ver <= setting.ver
          BY TrialsTyped DEF Core, Versions, Row, Task, Trials
        <4> QED
          BY <3>2, <4>1
      <3> QED
        BY <3>1, <3>2
    <2> QED
      BY <1>0, <2>1 DEF Falls, TrialInv
  <1>2. SnapInv'
    BY <1>0 DEF Falls, SnapInv, Safe
  <1>3. RunInv'
    BY DEF RunInv, cluster
  <1>4. ASSUME NEW b \in Actor
        PROVE  ReadInv(b)' /\ AppliedInv(b)'
    <2>1. CASE b = a
      BY <2>1, EndedHas DEF End, Core
    <2>2. CASE b # a
      <3>1. tx'[b] = tx[b] /\ ReadInv(b) /\ AppliedInv(b)
        BY <2>2 DEF Falls, End, Core
      <3>2. ~Applied(b) /\ ~Confirming(b)
        BY <2>2, Alone
      <3>3. kind # "routing" => ~Updating(b)
        BY <2>2, KindTyped, Alone
      <3>4. Undoing(b)' => tasks[tx[b].task].ver = setting'.ver
        <4>1. Undoing(b)' => Undoing(b)
          BY <3>1 DEF Undoing, RevertLock
        <4>2. Undoing(b) => setting' = setting
          BY <2>2, Alone
        <4> QED
          BY <3>1, <4>1, <4>2 DEF ReadInv
      <3>5. Undoing(b)' => tx[b].task \in Trials
        BY <3>1, SettlerTyped DEF Undoing
      <3>6. ReadInv(b)'
        BY <1>0, <3>1, <3>3, <3>4, <3>5 DEF ReadInv, Updating, Safe
      <3> QED
        BY <3>1, <3>2, <3>6, NothingApplied DEF Applied, Confirming
    <2> QED
      BY <2>1, <2>2
  <1>5. (\A b \in Actor : ReadInv(b) /\ AppliedInv(b))'
    BY <1>4 DEF Actor
  <1> QED
    BY <1>1, <1>2, <1>3, <1>5 DEF Falls

\* The trial confirmed is of the change in force, and that is what is stood by.
LEMMA CommitConfirmFalls ==
    ASSUME Core, Falls, NEW c \in Client, CommitConfirm(c)
    PROVE  Falls'
  <1> DEFINE p == tx[c].task
             task == [tasks[p] EXCEPT !.status = "canceled"]
  <1>1. /\ c \in Actor /\ Confirming(c) /\ p \in Trials /\ tasks[p].ver = setting.ver
        /\ tasks[p] \in Task
    <2>1. c \in Actor /\ Confirming(c)
      BY DEF CommitConfirm, Confirming, Actor
    <2>2. ConfirmGood(tx[c], tasks, setting.ver)
      BY <2>1, TxTyped DEF Good, Confirming
    <2> QED
      BY <2>1, <2>2, TxTyped, TrialsTyped DEF ConfirmGood, Confirming
  <1>2. Free({SettingRow}, c)
    BY <1>1, Appliers, HeldIsFree DEF Core
  <1>3. tasks[p].conf = setting.conf
    BY <1>1 DEF Falls, TrialInv
  <1>4. kind = "traefik" => running = setting.conf
    BY <1>1 DEF Falls, AppliedInv
  <1>5. /\ kind' = kind /\ setting' = setting /\ UNCHANGED cluster /\ End(c)
        /\ astray' = astray \cup Beside(setting.conf)
        /\ vouched' = setting.conf /\ stood' = stood \cup {setting.conf}
    BY <1>3 DEF CommitConfirm, StoodBy
  <1>6. SameTrial(p, task) /\ task.status = "canceled"
    BY <1>1 DEF CommitConfirm, Canceled, SameTrial, Task
  <1>7. kind = "routing" => running = setting.conf \/ running \in astray
    <2>1. \A b \in Actor : ~Applied(b)
      BY <1>1, <1>2, Alone DEF Applied, Confirming
    <2> QED
      BY <2>1 DEF Falls, RunInv
  <1>8. /\ Safe(setting.conf)' /\ Base(setting.conf)' /\ (kind = "traefik" => Base(running)')
        /\ kind = "service" => Safe(running)'
    BY <1>4, <1>5 DEF Safe, Base, Beside, cluster
  <1>9. stood \subseteq stood' /\ vouched' \in stood'
    BY <1>5
  <1> HIDE DEF task, p
  <1> QED
    BY <1>1, <1>2, <1>5, <1>6, <1>7, <1>8, <1>9, SettledFalls

\* What SettledBy leaves of a trial.
LEMMA SettledSame ==
    ASSUME NEW a, NEW t, tasks[t] \in Task, NEW status, tasks' = Settled(t, a, status)
    PROVE  SameTrial(t, SettledBy(a, tasks[t], status)) /\ SettledBy(a, tasks[t], status).status = status
  BY DEF SameTrial, SettledBy, Settled, Task

LEMMA CommitRevertFalls ==
    ASSUME Core, Falls, NEW a \in Actor, CommitRevert(a)
    PROVE  Falls'
  <1> DEFINE t == tx[a].task
             task == SettledBy(a, tasks[t], "done")
             snap == tasks[t].snap
  <1>1. Applied(a) /\ Undoing(a) /\ tx[a].op \in {"undo", "revertNow"}
    BY Appliers DEF CommitRevert, Applied
  <1>2. /\ t \in Trials /\ tasks[t] \in Task /\ tasks[t].ver = setting.ver
        /\ Safe(snap) /\ (tx[a].op = "undo" /\ kind # "routing" => Base(snap))
        /\ Free({RevertLock}, a) /\ Free({SettingRow}, a)
    BY <1>1, RevertedTo, Appliers, HeldIsFree DEF Core
  <1>3. /\ kind' = kind /\ UNCHANGED cluster /\ End(a)
        /\ astray' = astray \cup Beside(snap)
        /\ setting'.ver = setting.ver + 1 /\ setting'.conf = snap
        /\ tasks' = Settled(t, a, "done")
        /\ \/ vouched' = snap /\ stood' = stood \cup {snap}
           \/ tx[a].op = "undo" /\ vouched' = vouched /\ stood' = stood
    BY <1>1 DEF CommitRevert, Restored, StoodBy
  <1>4. SameTrial(t, task) /\ task.status = "done"
    BY <1>2, <1>3, SettledSame
  <1>5. stood \subseteq stood' /\ vouched' \in stood'
    BY <1>3 DEF Falls, SnapInv
  <1>6. /\ Safe(setting.conf)' /\ (tx[a].op = "revertNow" \/ kind # "routing" => Base(setting.conf)')
        /\ kind = "service" => Safe(running)'
    BY <1>1, <1>2, <1>3 DEF Safe, Base, Beside, cluster
  <1>7. AppliedInv(a)
    BY DEF Falls
  <1>8. kind = "traefik" => Base(running)'
    BY <1>1, <1>3, <1>6, <1>7 DEF AppliedInv, Base, cluster
  <1>9. kind = "routing" => running = setting'.conf
    BY <1>1, <1>3, <1>7 DEF AppliedInv
  <1> HIDE DEF task, t, snap
  <1> QED
    BY <1>2, <1>3, <1>4, <1>5, <1>6, <1>8, <1>9, SettledFalls

\* The step that writes a row that is pending as it was, and ends no change applied.
LEMMA SameTrialFalls ==
    ASSUME Core, Falls, kind' = kind, setting' = setting, UNCHANGED <<cluster, history>>,
           NEW t \in Trials, NEW task, SameTrial(t, task), NotStarted' = NotStarted,
           \A b \in Actor : tx'[b] = tx[b] \/ (tx'[b] = Idle /\ ~Applied(b))
    PROVE  Falls'
  <1>0. /\ Trials' = Trials
        /\ \A u \in Trials : /\ tasks'[u].ver = tasks[u].ver
                             /\ tasks'[u].conf = tasks[u].conf
                             /\ tasks'[u].snap = tasks[u].snap
        /\ running' = running /\ before' = before
        /\ vouched' = vouched /\ stood' = stood /\ astray' = astray
        /\ NotStarted \subseteq Trials
    BY TrialWritten DEF cluster, history, NotStarted
  <1>1. TrialInv'
    BY <1>0 DEF Falls, TrialInv
  <1>2. SnapInv'
    BY <1>0 DEF Falls, SnapInv, Safe, Base
  <1>3. RunInv'
    <2>1. (\A b \in Actor : ~Applied(b))' => \A b \in Actor : ~Applied(b)
      BY DEF Applied, Actor
    <2> QED
      BY <1>0, <2>1 DEF Falls, RunInv, Base, Safe
  <1>4. ASSUME NEW b \in Actor
        PROVE  ReadInv(b)' /\ AppliedInv(b)'
    <2>1. CASE tx'[b] = Idle
      BY <2>1, EndedHas
    <2>2. CASE tx'[b] = tx[b]
      <3>1. ReadInv(b) /\ AppliedInv(b)
        BY DEF Falls
      <3>2. Undoing(b) => tx[b].task \in Trials
        BY SettlerTyped DEF Undoing
      <3>3. Applied(b) /\ tx[b].op # "update" => tx[b].task \in Trials
        BY <3>2, Appliers
      <3>4. /\ Updating(b)' <=> Updating(b)
            /\ Undoing(b)' <=> Undoing(b)
            /\ Applied(b)' <=> Applied(b)
            /\ Confirming(b)' <=> Confirming(b)
        BY <2>2 DEF Updating, Undoing, Applied, Confirming, RevertLock
      <3>5. ReadInv(b)'
        BY <1>0, <2>2, <3>1, <3>2, <3>4 DEF ReadInv, Safe, Base
      <3>6. AppliedInv(b)'
        BY <1>0, <2>2, <3>1, <3>3, <3>4 DEF AppliedInv, Base
      <3> QED
        BY <3>5, <3>6
    <2> QED
      BY <2>1, <2>2
  <1>5. (\A b \in Actor : ReadInv(b) /\ AppliedInv(b))'
    BY <1>4 DEF Actor
  <1> QED
    BY <1>1, <1>2, <1>3, <1>5 DEF Falls

\* A trial that is of an earlier version is not pending.
LEMMA SkipRevertFalls ==
    ASSUME Core, Falls, NEW a \in Actor, SkipRevert(a)
    PROVE  Falls'
  <1> DEFINE t == tx[a].task
             task == SettledBy(a, tasks[t], "done")
  <1>1. /\ t \in Trials /\ tasks[t] \in Task /\ tasks[t].ver < setting.ver
        /\ setting.ver \in Nat /\ ~Applied(a)
    BY SettlerTyped, TrialsTyped DEF SkipRevert, RevertGood, Core, Row, Applied
  <1>2. /\ kind' = kind /\ setting' = setting /\ UNCHANGED <<cluster, history>>
        /\ tasks' = Settled(t, a, "done")
        /\ \A b \in Actor : tx'[b] = tx[b] \/ (tx'[b] = Idle /\ ~Applied(b))
    BY <1>1 DEF SkipRevert, End, Core
  <1>3. SameTrial(t, task) /\ task.status = "done"
    BY <1>1, <1>2, SettledSame
  <1>4. t \notin NotStarted
    BY <1>1 DEF Falls, TrialInv
  <1> HIDE DEF task, t
  <1>5. NotStarted' = NotStarted
    BY <1>1, <1>3, <1>4, TrialWritten
  <1> QED
    BY <1>1, <1>2, <1>3, <1>5, SameTrialFalls

LEMMA TimeFalls ==
    ASSUME Core, Falls, NEW t \in Trials, TimePasses(t)
    PROVE  Falls'
  <1> DEFINE task == [tasks[t] EXCEPT !.time = IF tasks[t].time = "settling" THEN "open" ELSE "due"]
  <1>1. tasks[t] \in Task
    BY TrialsTyped
  <1>2. SameTrial(t, task) /\ task.status = tasks[t].status
    BY <1>1 DEF TimePasses, SameTrial, Task
  <1>3. /\ kind' = kind /\ setting' = setting /\ UNCHANGED <<cluster, history>>
        /\ tx' = tx
    BY DEF TimePasses
  <1> HIDE DEF task
  <1>4. NotStarted' = NotStarted
    BY <1>2, TrialWritten DEF NotStarted
  <1> QED
    BY <1>2, <1>3, <1>4, SameTrialFalls

\* What the commit of an update leaves of the trials.
LEMMA UpdateWritten ==
    ASSUME Core, Falls, NEW c \in Client, CommitUpdate(c)
    PROVE  LET n == Len(tasks) + 1
           IN  /\ n \notin Trials /\ Trials' = Trials \cup {n}
               /\ \A t \in Trials : /\ tasks'[t].ver = tasks[t].ver
                                    /\ tasks'[t].conf = tasks[t].conf
                                    /\ tasks'[t].snap = tasks[t].snap
               /\ tasks'[n].ver = setting.ver + 1 /\ tasks'[n].conf = tx[c].conf
               /\ tasks'[n].snap = tx[c].snap
               /\ NotStarted' = {n}
  <1> DEFINE p == tx[c].task
             new == [status |-> "not_started", retry |-> 0, ver |-> setting.ver + 1,
                     conf |-> tx[c].conf, snap |-> tx[c].snap, time |-> "settling"]
             ts == IF p = 0 THEN tasks ELSE Canceled(p)
             n == Len(tasks) + 1
  <1>0. /\ c \in Actor /\ tx[c] \in Tx /\ Updating(c)
        /\ p = 0 \/ p \in Trials
        /\ NotStarted \subseteq {p}
    <2>1. c \in Actor /\ Updating(c)
      BY DEF CommitUpdate, Updating, Actor
    <2> QED
      BY <2>1, TxTyped DEF Falls, ReadInv
  <1>1. /\ setting.ver \in Nat /\ MaxRetry \in Nat /\ Len(tasks) \in Nat
        /\ Trials = 1..Len(tasks) /\ 0 \notin Trials
        /\ \A t \in Trials : tasks[t] \in Task
    BY TrialsTyped, ProbationAssumption DEF ProbationAssumption, Core, Row
  <1>2. tasks' = Append(ts, new)
    BY DEF CommitUpdate
  <1>3. new \in Task
    BY <1>0, <1>1 DEF Task, Tx
  <1>4. /\ ts \in Seq(Task) /\ Len(ts) = Len(tasks)
        /\ \A t \in Trials : ts[t] = IF t = p THEN [tasks[t] EXCEPT !.status = "canceled"] ELSE tasks[t]
    <2>1. CASE p = 0
      BY <1>1, <2>1 DEF Core
    <2>2. CASE p # 0
      <3>1. [tasks[p] EXCEPT !.status = "canceled"] \in Task
        BY <1>0, <1>1, <2>2 DEF Task
      <3>2. \A t \in Trials : ts[t] = IF t = p THEN [tasks[t] EXCEPT !.status = "canceled"] ELSE tasks[t]
        BY <1>0, <2>2 DEF Canceled, Trials
      <3>3. ts = [tasks EXCEPT ![p] = [tasks[p] EXCEPT !.status = "canceled"]] /\ p \in 1..Len(tasks)
        BY <1>0, <1>1, <2>2 DEF Canceled
      <3>4. tasks \in Seq(Task)
        BY DEF Core
      <3>5. ts \in Seq(Task) /\ Len(ts) = Len(tasks)
        <4> HIDE DEF ts
        <4> QED
          BY <3>1, <3>3, <3>4, ExceptSeq
      <3> QED
        BY <3>2, <3>5
    <2> QED
      BY <2>1, <2>2
  <1>5. new.status = "not_started" /\ new.ver = setting.ver + 1 /\ new.conf = tx[c].conf /\ new.snap = tx[c].snap
    OBVIOUS
  <1> HIDE DEF ts, new
  <1>6. /\ Trials' = Trials \cup {n} /\ n \notin Trials
        /\ \A t \in Trials : tasks'[t] = ts[t]
        /\ tasks'[n] = new
    <2>1. /\ tasks' \in Seq(Task) /\ Len(tasks') = Len(tasks) + 1
          /\ \A t \in Trials : tasks'[t] = ts[t]
          /\ tasks'[n] = new
      BY <1>1, <1>2, <1>3, <1>4, AppendProperties
    <2>2. DOMAIN tasks' = 1..(Len(tasks) + 1)
      BY <2>1, LenProperties
    <2> QED
      BY <1>1, <2>1, <2>2 DEF Trials
  <1>7. \A t \in Trials : /\ tasks'[t].ver = tasks[t].ver
                          /\ tasks'[t].conf = tasks[t].conf
                          /\ tasks'[t].snap = tasks[t].snap
                          /\ tasks'[t].status # "not_started"
    <2> SUFFICES ASSUME NEW t \in Trials
                 PROVE  /\ ts[t].ver = tasks[t].ver
                        /\ ts[t].conf = tasks[t].conf
                        /\ ts[t].snap = tasks[t].snap
                        /\ ts[t].status # "not_started"
      BY <1>6
    <2>1. CASE t = p
      BY <1>1, <1>4, <2>1 DEF Task
    <2>2. CASE t # p
      BY <1>0, <1>4, <2>2 DEF NotStarted
    <2> QED
      BY <2>1, <2>2
  <1>8. NotStarted' = {n}
    BY <1>5, <1>6, <1>7 DEF NotStarted
  <1> QED
    BY <1>5, <1>6, <1>7, <1>8

LEMMA CommitUpdateFalls ==
    ASSUME Core, Falls, NEW c \in Client, CommitUpdate(c)
    PROVE  Falls'
  <1> DEFINE n == Len(tasks) + 1
  <1>0. /\ n \notin Trials /\ Trials' = Trials \cup {n}
        /\ \A t \in Trials : /\ tasks'[t].ver = tasks[t].ver
                             /\ tasks'[t].conf = tasks[t].conf
                             /\ tasks'[t].snap = tasks[t].snap
        /\ tasks'[n].ver = setting.ver + 1 /\ tasks'[n].conf = tx[c].conf
        /\ tasks'[n].snap = tx[c].snap
        /\ NotStarted' = {n}
    BY UpdateWritten
  <1> HIDE DEF n
  <1>1. /\ c \in Actor /\ tx[c] \in Tx /\ tx[c].op = "update" /\ Applied(c) /\ Updating(c)
        /\ ReadInv(c) /\ AppliedInv(c)
    <2>1. c \in Actor /\ tx[c].op = "update" /\ Applied(c) /\ Updating(c)
      BY DEF CommitUpdate, Applied, Updating, Actor
    <2> QED
      BY <2>1, TxTyped DEF Falls
  <1>2. /\ setting' = [ver |-> setting.ver + 1, conf |-> tx[c].conf]
        /\ kind' = kind /\ UNCHANGED <<cluster, history>>
        /\ \A b \in Actor \ {c} : tx'[b] = tx[b]
        /\ tx'[c].op = "update" /\ tx'[c].at = "committed" /\ tx'[c].snap = tx[c].snap
    <2>1. tx' = [tx EXCEPT ![c] = [tx[c] EXCEPT !.at = "committed", !.task = Len(tasks) + 1, !.holds = {}]]
      BY DEF CommitUpdate
    <2>2. tx \in [Actor -> Tx]
      BY DEF Core
    <2>3. tx'[c].op = "update" /\ tx'[c].at = "committed" /\ tx'[c].snap = tx[c].snap
      BY <1>1, <2>1, <2>2 DEF Tx
    <2> QED
      BY <2>1, <2>2, <2>3 DEF CommitUpdate
  <1>3. Free({SettingRow}, c) /\ Free({RevertLock}, c)
    BY <1>1, Appliers, HeldIsFree DEF Core
  <1>4. TrialInv'
    <2>1. setting.ver \in Nat /\ \A t \in Trials : tasks[t].ver \in Nat /\ tasks[t].ver <= setting.ver
      BY TrialsTyped DEF Core, Versions, Row, Task, Trials
    <2>2. \A t \in Trials : tasks'[t].ver # setting.ver + 1
      BY <1>0, <2>1
    <2> QED
      BY <1>0, <1>2, <2>2 DEF Falls, TrialInv
  <1>5. SnapInv'
    BY <1>0, <1>1, <1>2 DEF Falls, SnapInv, ReadInv, Safe, Base, history
  <1>6. RunInv'
    BY <1>0, <1>1, <1>2 DEF RunInv, AppliedInv, cluster
  <1>7. ASSUME NEW b \in Actor
        PROVE  ReadInv(b)' /\ AppliedInv(b)'
    <2>1. CASE b = c
      <3>1. (~Updating(c) /\ ~Undoing(c) /\ ~Applied(c) /\ ~Confirming(c))'
        BY <1>2 DEF Updating, Undoing, Applied, Confirming
      <3>2. ReadInv(c)'
        BY <1>1, <1>2, <3>1 DEF ReadInv, Safe, history
      <3> QED
        BY <1>1, <2>1, <3>1, <3>2, NothingApplied
    <2>2. CASE b # c
      <3>1. tx'[b] = tx[b] /\ ReadInv(b)
        BY <1>2, <2>2 DEF Falls
      <3>2. ~Applied(b) /\ ~Confirming(b) /\ ~Updating(b) /\ ~Undoing(b)
        BY <1>1, <1>3, <2>2, Alone
      <3>3. (~Applied(b) /\ ~Confirming(b) /\ ~Updating(b) /\ ~Undoing(b))'
        BY <1>2, <3>1, <3>2 DEF Updating, Undoing, Applied, Confirming, RevertLock
      <3>4. ReadInv(b)'
        BY <1>2, <3>1, <3>3 DEF ReadInv, Safe, history
      <3> QED
        BY <3>3, <3>4, NothingApplied
    <2> QED
      BY <2>1, <2>2
  <1>8. (\A b \in Actor : ReadInv(b) /\ AppliedInv(b))'
    BY <1>7 DEF Actor
  <1> QED
    BY <1>4, <1>5, <1>6, <1>8 DEF Falls

\* What the cluster runs as it refuses a revert of the worker's is remembered.
LEMMA RevertFailsFalls ==
    ASSUME Core, Falls, NEW a \in Actor, RevertFails(a)
    PROVE  Falls'
  <1>0. /\ UNCHANGED cluster /\ kind' = kind /\ End(a) /\ ~Applied(a)
        /\ vouched' = vouched /\ stood' = stood
        /\ Undoing(a) /\ Free({SettingRow}, a)
    BY DEF RevertFails, ReadyToPush, Applied, Undoing
  <1>1. CASE a # Worker
    <2>1. SameRows /\ astray' = astray
      BY <1>1 DEF RevertFails, SameRows
    <2> QED
      BY <1>0, <2>1, EndFalls DEF cluster
  <1>2. CASE a = Worker
    <2> DEFINE t == tx[a].task
               task == SettledBy(a, tasks[t], "failed")
               snap == tasks[t].snap
    <2>1. astray' = astray \cup {running} /\ running' = running
      BY <1>0, <1>2 DEF RevertFails, cluster
    <2>2. tx[a].op = "undo"
      BY <1>0, <1>2, SettlerTyped, ProbationAssumption DEF ProbationAssumption, Undoing
    <2>3. /\ t \in Trials /\ tasks[t] \in Task /\ tasks[t].ver = setting.ver
          /\ Safe(snap) /\ (kind # "routing" => Base(snap)) /\ Free({RevertLock}, a)
      BY <1>0, <2>2, RevertedTo
    <2>4. /\ setting'.ver = setting.ver + 1 /\ setting'.conf = snap
          /\ tasks' = Settled(t, a, "failed")
      BY <1>2 DEF RevertFails, Restored
    <2>5. SameTrial(t, task) /\ task.status = "failed"
      BY <2>3, <2>4, SettledSame
    <2>6. /\ Safe(setting.conf)' /\ (kind # "routing" => Base(setting.conf)')
          /\ Safe(running)' /\ Base(running)' /\ running \in astray'
      BY <1>0, <2>1, <2>3, <2>4 DEF Safe, Base
    <2>7. astray \subseteq astray' /\ stood \subseteq stood' /\ vouched' \in stood'
      BY <1>0, <2>1 DEF Falls, SnapInv
    <2> HIDE DEF task, t, snap
    <2> QED
      BY <1>0, <2>3, <2>4, <2>5, <2>6, <2>7, SettledFalls
  <1> QED
    BY <1>1, <1>2

LEMMA ClaimFalls ==
    ASSUME Core, Falls, NEW t \in Trials, ClaimByWorker(t) \/ TimerFires(t) \/ TimePasses(t)
    PROVE  Falls'
  <1>0. Worker \in Actor /\ Timer \in Actor
    BY DEF Actor
  <1>1. CASE ClaimByWorker(t)
    <2>1. SameRows /\ UNCHANGED <<history, cluster>>
      BY <1>1 DEF ClaimByWorker, SameRows
    <2> QED
      BY <1>0, <1>1, <2>1, TakenFalls DEF ClaimByWorker
  <1>2. CASE TimerFires(t)
    <2>1. SameRows /\ UNCHANGED <<history, cluster>>
      BY <1>2 DEF TimerFires, SameRows
    <2>2. CASE TimerFinds(t)
      BY <1>0, <1>2, <2>1, <2>2, TakenFalls DEF TimerFires
    <2>3. CASE ~TimerFinds(t)
      <3>1. tx' = tx
        BY <1>2, <2>3 DEF TimerFires
      <3> QED
        BY <2>1, <3>1, FallsStutters
    <2> QED
      BY <2>2, <2>3
  <1> QED
    BY <1>1, <1>2, TimeFalls

LEMMA FallsKeeps ==
    ASSUME Core, Falls, [Next]_vars
    PROVE  Falls'
  <1>1. ASSUME NEW c \in Client,
               BeginUpdate(c) \/ UpdateStep(c) \/ UpdateFails(c) \/ BeginAnswer(c) \/ AnswerStep(c)
        PROVE  Falls'
    BY <1>1, BeginUpdateFalls, LockForUpdateFalls, WriteUpdateFalls, CommitUpdateFalls, ScheduleFalls,
       BeginAnswerFalls, LockSettingFalls, CommitConfirmFalls DEF UpdateStep, AnswerStep
  <1>2. ASSUME NEW a \in Actor, RevertStep(a) \/ RevertFails(a) \/ Deadlock(a) \/ Abort(a)
        PROVE  Falls'
    BY <1>2, LockForRevertFalls, PushRevertFalls, CommitRevertFalls, SkipRevertFalls,
       RevertFailsFalls, RollBackFalls DEF RevertStep, Deadlock, Abort
  <1>3. CASE Restart \/ UNCHANGED vars
    <2>1. SameRows /\ UNCHANGED <<history, cluster>> /\ tx' = tx
      BY <1>3 DEF Restart, SameRows, vars
    <2> QED
      BY <2>1, FallsStutters
  <1> QED
    BY <1>1, <1>2, <1>3, ClaimFalls, CrashFalls, SwarmRollsBackFalls DEF Next

LEMMA FallsAtFirst == Init => Falls
  <1> SUFFICES ASSUME Init
               PROVE  Falls
    OBVIOUS
  <1>1. Trials = {} /\ NotStarted = {}
    BY EmptySeq, LenProperties DEF Init, Trials, NotStarted
  <1>2. /\ \A a \in Actor : tx[a] = Idle
        /\ running = 1 /\ setting.conf = 1 /\ vouched = 1 /\ stood = {1}
    BY DEF Init
  <1>3. \A a \in Actor : ~Applied(a) /\ ~Confirming(a) /\ ~Updating(a) /\ ~Undoing(a) /\ tx[a].op = "none"
    BY <1>2, IdleTyped DEF Applied, Confirming, Updating, Undoing
  <1>4. \A a \in Actor : ReadInv(a) /\ AppliedInv(a)
    BY <1>3 DEF ReadInv, AppliedInv
  <1>5. TrialInv /\ SnapInv /\ RunInv
    BY <1>1, <1>2 DEF TrialInv, SnapInv, RunInv, Safe, Base
  <1> QED
    BY <1>4, <1>5 DEF Falls

LEMMA FallsAlways == Spec => [](Core /\ Falls)
  <1>1. IInv /\ Falls /\ [Next]_vars => Falls'
    BY FallsKeeps DEF IInv
  <1>2. IInv => Core
    BY DEF IInv
  <1> QED
    BY <1>1, <1>2, FallsAtFirst, Invariant, PTL DEF Spec

-----------------------------------------------------------------------------
\* A trial that is pending restores what somebody last stood by, or what was left
\* in a way that is known: for any clients, changes, answers and faults.
THEOREM PendingFallsBack == Spec => []FallsBackToVouched
  <1>1. Core /\ Falls => FallsBackToVouched
    BY DEF Falls, SnapInv, FallsBackToVouched, Base
  <1> QED
    BY <1>1, FallsAlways, PTL

LEMMA LiveIsDecided ==
    ASSUME Core, Falls
    PROVE  LiveIsVouchedOnTrialOrAstray
  <1>0. TrialInv /\ SnapInv /\ RunInv /\ kind \in {"routing", "service", "traefik"}
    BY KindTyped DEF Falls
  <1> USE DEF LiveIsVouchedOrOnTrial, LiveIsVouchedOnTrialOrAstray
  <1>1. CASE NotStarted # {}
    <2>1. PICK t \in NotStarted : t \in Trials /\ OnTrial(t) /\ tasks[t].ver = setting.ver
      BY <1>0, <1>1 DEF NotStarted, OnTrial, TrialInv
    <2> QED
      BY <2>1
  <1>2. CASE NotStarted = {} /\ \A a \in Actor : ~Applied(a)
    BY <1>0, <1>2 DEF RunInv, SnapInv, Safe, Base
  <1>3. ASSUME NotStarted = {}, NEW a \in Actor, Applied(a)
        PROVE  LiveIsVouchedOnTrialOrAstray
    <2>1. AppliedInv(a)
      BY DEF Falls
    <2>2. CASE kind = "service"
      BY <1>0, <1>3, <2>2 DEF RunInv, Safe
    <2>3. CASE tx[a].op = "update" /\ kind # "service"
      BY <1>0, <1>3, <2>1, <2>3 DEF AppliedInv, SnapInv, Base
    <2>4. CASE tx[a].op # "update" /\ kind # "service"
      <3>1. Safe(tasks[tx[a].task].snap)
        BY <1>3, <2>4, Appliers, RevertedTo
      <3> QED
        BY <1>0, <1>3, <2>1, <2>4, <3>1 DEF AppliedInv, Safe
    <2> QED
      BY <2>2, <2>3, <2>4
  <1> QED
    BY <1>1, <1>2, <1>3

\* What the cluster runs has been stood by, or is about to be decided on, or was
\* left in a way that is known, for any clients, changes, answers and faults.
THEOREM NothingStaysUnvouched == Spec => []LiveIsVouchedOnTrialOrAstray
  BY FallsAlways, LiveIsDecided, PTL
=============================================================================
