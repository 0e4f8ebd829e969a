------------------------ MODULE SystemUpdate_proofs ------------------------
(***************************************************************************)
(* Proofs about SystemUpdate, for any majors, requests, writes and faults. *)
(* Three invariants, each on top of the ones before it: Known, the types   *)
(* and which rows there can be; Run, what an update has done when it is at *)
(* a step; TameInv, where the database is and what its volumes and the     *)
(* dump hold, as long as one step has failed at most.                      *)
(***************************************************************************)
EXTENDS SystemUpdate, SequenceTheorems, TLAPS

\* No table and no dump has a row of a task that was not asked for.
RowsKnown ==
    /\ \A v \in Volume, t \in Task : volume[v].tasks[t] # "none" => t <= Len(args)
    /\ \A t \in Task : dump.tasks[t] # "none" => t <= Len(args)

\* The steps at which the process has its task.
OfTask == Updating \cup {"backApp", "backWorker", "save"}

TablesKnown ==
    /\ volume \in [Volume -> Tables] /\ dump \in Tables
    /\ record \in Volume /\ db \in Volume /\ postgres \in Major
    /\ RowsKnown

ServicesKnown ==
    /\ replicas \in [Service -> 0 .. Replicas] /\ image \in [Image -> 0 .. MaxReleases]
    /\ up \subseteq Service

UpdaterKnown ==
    /\ on \in BOOLEAN
    /\ updater \in Process /\ updater.task <= Len(args) /\ (At("off") \/ on)
    /\ updater.at \in OfTask => updater.task # 0

RequestsKnown ==
    /\ args \in Seq(Request) /\ Len(args) <= MaxUpdates
    /\ asked \in 0 .. Len(args) /\ fresh \subseteq 1 .. Len(args)

HistoryKnown ==
    /\ written \in Nat /\ kept \in 0 .. written
    /\ faults \in Nat /\ hurt \subseteq Mishap

Known == TablesKnown /\ ServicesKnown /\ UpdaterKnown /\ RequestsKnown /\ HistoryKnown

-----------------------------------------------------------------------------
(* Types.                                                                  *)

LEMMA TablesTyped ==
    /\ First \in Tables /\ None \in Tables /\ Broken \in Tables
    /\ None.shape = "none" /\ Broken.shape = "broken" /\ First.shape = "clean"
    /\ \A t \in Task : First.tasks[t] = "none" /\ None.tasks[t] = "none" /\ Broken.tasks[t] = "none"
  BY DEF First, None, Broken, Tables

LEMMA ProcessTyped ==
    /\ Stopped \in Process /\ Booting \in Process
    /\ Stopped.at = "off" /\ Booting.at = "load" /\ Stopped.task = 0 /\ Booting.task = 0
    /\ ~Stopped.late /\ ~Booting.late /\ ~Stopped.failed /\ ~Booting.failed
  <1>1. 0 \in 0..MaxUpdates /\ 0 \in Volume /\ [s \in Service |-> 0] \in [Service -> 0..Replicas]
    BY SystemUpdateAssumption DEF SystemUpdateAssumption, Replicas, Volume
  <1>2. Stopped \in Process
    BY <1>1 DEF Stopped, Process
  <1> QED
    BY <1>2 DEF Stopped, Booting, Process

LEMMA LiveTyped ==
    ASSUME Known
    PROVE  /\ Live \in Tables /\ db \in Volume /\ postgres \in Major
           /\ \A t \in Task : Live.tasks[t] # "none" => t <= Len(args)
  BY TablesTyped DEF Known, TablesKnown, RowsKnown, Live

\* Tables that can be read are those of the volume, and stay so once written to.
LEMMA LiveIsVolume ==
    ASSUME Known, Live # None
    PROVE  /\ Cluster(db) = postgres /\ Live = volume[db]
           /\ \A ts : volume' = [volume EXCEPT ![db] = ts] /\ UNCHANGED <<db, postgres>> => Live' = ts
  BY DEF Live, Known, TablesKnown

LEMMA ClustersTyped ==
    /\ Major \subseteq Nat \ {0} /\ Volume \subseteq Nat /\ Major \subseteq Volume /\ 0 \in Volume
    /\ Cluster(0) = 1 /\ \A m \in Major : Cluster(m) = m
    /\ \A v \in Volume : Cluster(v) \in Major
  BY SystemUpdateAssumption DEF SystemUpdateAssumption, Volume, Cluster

LEMMA ArgsTyped ==
    ASSUME Known, updater.at \in OfTask
    PROVE  /\ updater.task \in 1..Len(args) /\ updater.task \in Task
           /\ Args \in Request
  <1>1. updater.task \in 1..Len(args) /\ updater.task \in Task
    BY SystemUpdateAssumption, LenProperties
    DEF SystemUpdateAssumption, Known, UpdaterKnown, RequestsKnown, Process, Task
  <1> QED
    BY <1>1, ElementOfSeq DEF Known, RequestsKnown, Args

\* The parts an action leaves alone.
LEMMA Frame ==
    ASSUME Known
    PROVE  /\ UNCHANGED <<tables, db, postgres, args>> => TablesKnown'
           /\ UNCHANGED services => ServicesKnown'
           /\ UNCHANGED <<on, updater, args>> => UpdaterKnown'
           /\ UNCHANGED requests => RequestsKnown'
           /\ UNCHANGED <<written, history>> => HistoryKnown'
  <1>1. UNCHANGED <<tables, db, postgres, args>> => TablesKnown'
    BY DEF Known, TablesKnown, RowsKnown, tables
  <1>2. UNCHANGED services => ServicesKnown'
    BY DEF Known, ServicesKnown, services
  <1>3. UNCHANGED <<on, updater, args>> => UpdaterKnown'
    BY DEF Known, UpdaterKnown, At
  <1>4. UNCHANGED requests => RequestsKnown'
    BY DEF Known, RequestsKnown, requests
  <1>5. UNCHANGED <<written, history>> => HistoryKnown'
    BY DEF Known, HistoryKnown, history
  <1> QED
    BY <1>1, <1>2, <1>3, <1>4, <1>5

LEMMA VolumeTyped ==
    ASSUME Known, NEW ts \in Tables,
           \A t \in Task : ts.tasks[t] # "none" => t <= Len(args),
           volume' = [volume EXCEPT ![db] = ts],
           UNCHANGED <<dump, record, db, postgres, args>>
    PROVE  TablesKnown'
  BY DEF Known, TablesKnown, RowsKnown

LEMMA HistoryTyped ==
    ASSUME Known, UNCHANGED written,
           UNCHANGED history \/ \E what \in Mishap : Fault(what)
    PROVE  HistoryKnown'
  BY DEF Known, HistoryKnown, Fault, history

LEMMA CallsTyped ==
    ASSUME NEW what \in Mishap, CallWorks \/ CallFails(what) \/ Fault(what)
    PROVE  UNCHANGED history \/ \E w \in Mishap : Fault(w)
  BY DEF CallWorks, CallFails

LEMMA Stays ==
    ASSUME Known, NEW there \in Updating \cup Ending, Goto(there) \/ Abandon(there)
    PROVE  /\ updater' \in Process /\ updater'.at = there
           /\ updater' = [updater EXCEPT !.at = there, !.failed = updater'.failed]
  BY DEF Known, UpdaterKnown, Process, Goto, Abandon, Updating, Ending

LEMMA UpdaterTyped ==
    ASSUME Known, ~At("off"), UNCHANGED <<on, args>>,
           updater' \in Process, updater'.task = updater.task,
           updater'.at \in OfTask => updater.at \in OfTask
    PROVE  UpdaterKnown'
  BY DEF Known, UpdaterKnown, At, OfTask

-----------------------------------------------------------------------------
LEMMA RequestUpdateTyped ==
    ASSUME Known, NEW release \in Release, NEW major \in Major, NEW skip \in Skips,
           RequestUpdate(release, major, skip)
    PROVE  Known'
  <1> DEFINE arg == [release |-> release, major |-> major, skip |-> skip]
  <1>1. arg \in Request /\ args \in Seq(Request) /\ args' = Append(args, arg) /\ Len(args) \in Nat
    BY SystemUpdateAssumption, LenProperties
    DEF SystemUpdateAssumption, Known, RequestsKnown, RequestUpdate, Request
  <1>2. args' \in Seq(Request) /\ Len(args') = Len(args) + 1
    BY <1>1, AppendProperties
  <1>3. RequestsKnown'
    BY <1>1, <1>2, SystemUpdateAssumption
    DEF SystemUpdateAssumption, Known, RequestsKnown, RequestUpdate
  <1>4. TablesKnown'
    BY <1>1, <1>2 DEF Known, TablesKnown, RowsKnown, RequestUpdate, tables, Task
  <1>5. ServicesKnown'
    BY SystemUpdateAssumption
    DEF SystemUpdateAssumption, Known, ServicesKnown, RequestUpdate, Image, Release
  <1>6. UpdaterKnown'
    BY <1>1, <1>2, ProcessTyped DEF RequestUpdate, TurnOn, UpdaterKnown, At, OfTask, Updating
  <1>7. HistoryKnown'
    BY DEF Known, HistoryKnown, RequestUpdate, Mishap
  <1> QED
    BY <1>3, <1>4, <1>5, <1>6, <1>7 DEF Known

LEMMA CommitRequestTyped ==
    ASSUME Known, CommitRequest
    PROVE  Known'
  <1> DEFINE ts == [Live EXCEPT !.tasks[asked] = "not_started"]
  <1>1. asked \in 1..Len(args) /\ Len(args) \in Nat
    BY LenProperties DEF Known, RequestsKnown, CommitRequest
  <1>2. ts \in Tables /\ \A t \in Task : ts.tasks[t] # "none" => t <= Len(args)
    <2> DEFINE rows == [Live.tasks EXCEPT ![asked] = "not_started"]
    <2>1. Live.tasks \in [Task -> {"none", "not_started", "done", "failed"}]
      BY LiveTyped DEF Tables
    <2>2. rows \in [Task -> {"none", "not_started", "done", "failed"}]
      BY <2>1
    <2>3. \A t \in Task : rows[t] # "none" => t <= Len(args)
      BY <1>1, <2>1, LiveTyped DEF Task
    <2>4. ts = [Live EXCEPT !.tasks = rows]
      OBVIOUS
    <2> HIDE DEF rows, ts
    <2>5. ts \in Tables /\ ts.tasks = rows
      BY <2>2, <2>4, LiveTyped DEF Tables
    <2> QED
      BY <2>3, <2>5
  <1>3. volume' = [volume EXCEPT ![db] = ts]
    BY LiveIsVolume DEF CommitRequest
  <1>4. TablesKnown'
    BY <1>2, <1>3, VolumeTyped DEF CommitRequest
  <1>5. RequestsKnown'
    BY <1>1 DEF Known, RequestsKnown, CommitRequest
  <1>6. ServicesKnown' /\ UpdaterKnown' /\ HistoryKnown'
    BY Frame DEF CommitRequest
  <1> QED
    BY <1>4, <1>5, <1>6 DEF Known

LEMMA LoseRequestTyped ==
    ASSUME Known, LoseRequest \/ HourPasses
    PROVE  Known'
  <1>1. RequestsKnown'
    <2>1. Len(args) \in Nat
      BY LenProperties DEF Known, RequestsKnown
    <2>2. CASE LoseRequest
      BY <2>1, <2>2 DEF Known, RequestsKnown, LoseRequest
    <2>3. CASE HourPasses
      BY <2>1, <2>3 DEF Known, RequestsKnown, HourPasses
    <2> QED
      BY <2>2, <2>3
  <1>2. TablesKnown' /\ ServicesKnown' /\ UpdaterKnown' /\ HistoryKnown'
    BY Frame DEF LoseRequest, HourPasses
  <1> QED
    BY <1>1, <1>2 DEF Known

LEMMA WriteTyped ==
    ASSUME Known, NEW s \in Service, Write(s)
    PROVE  Known'
  <1> DEFINE ts == [Live EXCEPT !.data = written']
  <1>1. ts \in Tables /\ \A t \in Task : ts.tasks[t] # "none" => t <= Len(args)
    BY LiveTyped DEF Known, HistoryKnown, Write, Tables
  <1>2. volume' = [volume EXCEPT ![db] = ts]
    BY LiveIsVolume DEF Write
  <1>3. TablesKnown'
    BY <1>1, <1>2, VolumeTyped DEF Write, requests
  <1>4. HistoryKnown'
    BY DEF Known, HistoryKnown, Write
  <1>5. ServicesKnown' /\ UpdaterKnown' /\ RequestsKnown'
    BY Frame DEF Write, requests
  <1> QED
    BY <1>3, <1>4, <1>5 DEF Known

LEMMA ContainersStopTyped ==
    ASSUME Known, NEW s \in Service, ContainersStop(s)
    PROVE  Known'
  <1>1. ServicesKnown'
    BY DEF Known, ServicesKnown, ContainersStop
  <1>2. TablesKnown' /\ UpdaterKnown' /\ RequestsKnown' /\ HistoryKnown'
    BY Frame DEF ContainersStop, requests
  <1> QED
    BY <1>1, <1>2 DEF Known

LEMMA DeployTyped ==
    ASSUME Known, Deploy
    PROVE  Known'
  <1>1. TablesKnown'
    BY DEF Known, TablesKnown, RowsKnown, Deploy, tables, requests
  <1>2. UpdaterKnown'
    BY DEF Known, UpdaterKnown, At, Deploy, requests
  <1>3. ServicesKnown' /\ RequestsKnown' /\ HistoryKnown'
    BY Frame DEF Deploy
  <1> QED
    BY <1>1, <1>2, <1>3 DEF Known

-----------------------------------------------------------------------------
LEMMA LoadTaskTyped ==
    ASSUME Known, LoadTask
    PROVE  Known'
  <1>1. UpdaterKnown'
    <2>1. CASE \E t \in Waiting : updater' = [updater EXCEPT !.at = "stopApp", !.task = t]
      <3>1. PICK t \in Waiting : updater' = [updater EXCEPT !.at = "stopApp", !.task = t]
        BY <2>1
      <3>2. t \in Task /\ t # 0 /\ t \in 0..MaxUpdates /\ t <= Len(args)
        BY LiveTyped DEF Waiting, Task
      <3>3. updater' \in Process /\ updater'.at = "stopApp" /\ updater'.task = t
        BY <3>1, <3>2 DEF Known, UpdaterKnown, Process, Updating
      <3> QED
        BY <3>2, <3>3 DEF Known, UpdaterKnown, At, LoadTask, requests, OfTask, Updating
    <2>2. CASE Goto("ensure")
      <3>1. updater' \in Process /\ updater'.at = "ensure" /\ updater'.task = updater.task
        BY <2>2, Stays DEF Ending, Known, UpdaterKnown, Process
      <3> QED
        BY <3>1, UpdaterTyped DEF LoadTask, At, requests, OfTask, Updating
    <2> QED
      BY <2>1, <2>2 DEF LoadTask
  <1>2. HistoryKnown'
    BY HistoryTyped DEF LoadTask, Mishap
  <1>3. TablesKnown' /\ ServicesKnown' /\ RequestsKnown'
    BY Frame DEF LoadTask, requests
  <1> QED
    BY <1>1, <1>2, <1>3 DEF Known

LEMMA ScaleTyped ==
    ASSUME Known, NEW s \in Service, NEW n \in 0..Replicas, Scale(s, n)
    PROVE  ServicesKnown'
  BY DEF Known, ServicesKnown, Scale

LEMMA StopServiceTyped ==
    ASSUME Known, NEW s \in Service, NEW here \in {"stopApp", "stopWorker"},
           NEW there \in {"stopWorker", "backup"}, StopService(s, here, there)
    PROVE  Known'
  <1>1. 0 \in 0..Replicas /\ replicas[s] \in 0..Replicas
    BY DEF Known, ServicesKnown, Replicas
  <1>2. ServicesKnown'
    BY <1>1, Frame, ScaleTyped DEF StopService
  <1>3. \E n \in 0..Replicas, at \in {there, "backApp"}, f \in BOOLEAN :
            updater' = [updater EXCEPT !.at = at, !.failed = f, !.was[s] = n]
    <2>1. CASE updater' = [updater EXCEPT !.at = there, !.was[s] = replicas[s]]
      <3>1. updater' = [updater EXCEPT !.at = there, !.failed = updater.failed, !.was[s] = replicas[s]]
        BY <2>1 DEF Known, UpdaterKnown, Process
      <3>2. updater.failed \in BOOLEAN
        BY DEF Known, UpdaterKnown, Process
      <3> QED
        BY <1>1, <3>1, <3>2
    <2>2. CASE \E n \in {0, replicas[s]} :
                  updater' = [updater EXCEPT !.at = "backApp", !.failed = TRUE, !.was[s] = n]
      BY <1>1, <2>2
    <2> QED
      BY <2>1, <2>2 DEF StopService
  <1>4. updater' \in Process /\ updater'.task = updater.task
    <2>1. PICK n \in 0..Replicas, at \in {there, "backApp"}, f \in BOOLEAN :
            updater' = [updater EXCEPT !.at = at, !.failed = f, !.was[s] = n]
      BY <1>3
    <2>2. updater \in Process /\ at \in Updating \cup Ending
      BY DEF Known, UpdaterKnown, Updating, Ending
    <2> QED
      BY <2>1, <2>2 DEF Process
  <1>5. UpdaterKnown'
    BY <1>4, UpdaterTyped DEF StopService, At, requests, OfTask, Updating
  <1>6. HistoryKnown'
    BY CallsTyped, HistoryTyped DEF StopService, Mishap
  <1>7. TablesKnown' /\ RequestsKnown'
    BY Frame DEF StopService, requests
  <1> QED
    BY <1>2, <1>5, <1>6, <1>7 DEF Known

\* The steps that go on, or give up, and leave the services and requests alone.
LEMMA StepTyped ==
    ASSUME Known, NEW there \in Updating \cup Ending, Goto(there) \/ Abandon(there), ~At("off"),
           updater.at \in OfTask \/ there \in {"ensure", "shutdown"},
           UNCHANGED <<on, requests, written>>,
           UNCHANGED history \/ \E what \in Mishap : Fault(what)
    PROVE  UpdaterKnown' /\ RequestsKnown' /\ HistoryKnown'
  <1>1. updater' \in Process /\ updater'.task = updater.task /\ updater'.at = there
    BY Stays DEF Known, UpdaterKnown, Process
  <1>2. UpdaterKnown'
    BY <1>1, UpdaterTyped DEF requests, OfTask, Updating
  <1>3. RequestsKnown' /\ HistoryKnown'
    BY Frame, HistoryTyped
  <1> QED
    BY <1>2, <1>3

LEMMA BackupTyped ==
    ASSUME Known, Backup
    PROVE  Known'
  <1>1. TablesKnown'
    <2>1. dump' \in Tables /\ \A t \in Task : dump'.tasks[t] # "none" => t <= Len(args)
      BY LiveTyped, TablesTyped DEF Known, TablesKnown, RowsKnown, Backup
    <2> QED
      BY <2>1 DEF Known, TablesKnown, RowsKnown, Backup, requests
  <1>2. \E there \in {"plan", "backApp"} : Goto(there) \/ Abandon(there)
    BY DEF Backup
  <1>3. UpdaterKnown' /\ RequestsKnown' /\ HistoryKnown'
    BY <1>2, StepTyped, CallsTyped DEF Backup, At, OfTask, Updating, Ending, Mishap, history
  <1>4. ServicesKnown'
    BY Frame DEF Backup
  <1> QED
    BY <1>1, <1>3, <1>4 DEF Known

LEMMA PlanMajorTyped ==
    ASSUME Known, PlanMajor
    PROVE  Known'
  <1>1. CASE \E there \in {"backApp"} : Abandon(there) /\ (UNCHANGED history \/ CallFails("docker"))
    BY <1>1, StepTyped, CallsTyped, Frame DEF PlanMajor, At, OfTask, Updating, Ending, Mishap, Known, requests
  <1>2. CASE /\ updater' = [updater EXCEPT !.at = "move", !.from = db, !.moves = (postgres # Args.major)]
             /\ hurt' = IF Args.major < postgres THEN hurt \cup {"older"} ELSE hurt
             /\ UNCHANGED <<kept, faults>>
    <2>1. updater' \in Process /\ updater'.task = updater.task
      BY <1>2, LiveTyped DEF Known, UpdaterKnown, Process, Updating
    <2>2. UpdaterKnown'
      BY <2>1, UpdaterTyped DEF PlanMajor, At, requests, OfTask, Updating
    <2>3. HistoryKnown'
      BY <1>2 DEF Known, HistoryKnown, PlanMajor, Mishap
    <2>4. TablesKnown' /\ ServicesKnown' /\ RequestsKnown'
      BY Frame DEF PlanMajor, requests
    <2> QED
      BY <2>2, <2>3, <2>4 DEF Known
  <1> QED
    BY <1>1, <1>2 DEF PlanMajor

LEMMA MoveDbTyped ==
    ASSUME Known, MoveDb
    PROVE  Known'
  <1>1. db' \in Volume /\ postgres' \in Major
    BY ArgsTyped, LiveTyped, ClustersTyped DEF MoveDb, RollDb, At, OfTask, Updating, Request
  <1>2. TablesKnown'
    BY <1>1 DEF Known, TablesKnown, RowsKnown, MoveDb, tables, requests
  <1>3. \E there \in {"wait", "backApp"} : Goto(there) \/ Abandon(there)
    BY DEF MoveDb
  <1>4. UpdaterKnown' /\ RequestsKnown' /\ HistoryKnown'
    BY <1>3, StepTyped, CallsTyped DEF MoveDb, At, OfTask, Updating, Ending, Mishap
  <1>5. ServicesKnown'
    BY Frame DEF MoveDb
  <1> QED
    BY <1>2, <1>4, <1>5 DEF Known

\* A dump that is restored brings back the rows it knows.
LEMMA RestoreTyped ==
    ASSUME Known, RestoreDb, UNCHANGED <<dump, record, db, postgres, args>>
    PROVE  TablesKnown'
  <1>1. CASE volume' = volume
    BY <1>1, Frame DEF tables
  <1>2. CASE volume' = [volume EXCEPT ![db] = Restored(dump, Live)]
    <2>1. dump \in Tables /\ \A t \in Task : dump.tasks[t] # "none" => t <= Len(args)
      BY DEF Known, TablesKnown, RowsKnown
    <2>2. Restored(dump, Live) \in Tables /\ Restored(dump, Live).tasks = dump.tasks
      BY <2>1 DEF Restored, Tables
    <2> QED
      BY <1>2, <2>1, <2>2, VolumeTyped
  <1> QED
    BY <1>1, <1>2 DEF RestoreDb

LEMMA AwaitDbTyped ==
    ASSUME Known, AwaitDb
    PROVE  Known'
  <1>1. TablesKnown'
    BY RestoreTyped, Frame DEF AwaitDb, requests, tables
  <1>2. \E there \in {"migrate", "revert", "backApp"} : Goto(there) \/ Abandon(there)
    BY DEF AwaitDb
  <1>3. UpdaterKnown' /\ RequestsKnown' /\ HistoryKnown'
    BY <1>2, StepTyped, CallsTyped DEF AwaitDb, At, OfTask, Updating, Ending, Mishap
  <1>4. ServicesKnown'
    BY Frame DEF AwaitDb
  <1> QED
    BY <1>1, <1>3, <1>4 DEF Known

LEMMA MigratedTyped ==
    ASSUME Known
    PROVE  /\ Migrations \in Nat
           /\ Migrated \in Tables /\ Migrated.tasks = Live.tasks /\ Migrated.data = Live.data
           /\ Migrated.shape = "clean" /\ Migrated.schema >= Migrations
           /\ MigratedHalf \in Tables /\ MigratedHalf.tasks = Live.tasks
           /\ MigratedHalf.data = Live.data /\ MigratedHalf.shape = "half"
  <1>1. Migrations \in Nat
    BY SystemUpdateAssumption DEF SystemUpdateAssumption, Known, ServicesKnown, Migrations, Image
  <1> DEFINE schema == IF Live.schema < Migrations THEN Migrations ELSE Live.schema
  <1>2. schema \in Nat /\ schema >= Migrations
    BY <1>1, LiveTyped DEF Tables
  <1>3. Migrated = [Live EXCEPT !.schema = schema, !.shape = "clean"]
    BY DEF Migrated
  <1> HIDE DEF schema
  <1> QED
    BY <1>1, <1>2, <1>3, LiveTyped DEF MigratedHalf, Tables

LEMMA MigrateTyped ==
    ASSUME Known, Migrate
    PROVE  Known'
  <1>1. TablesKnown'
    <2>1. CASE volume' = volume
      BY <2>1, Frame DEF Migrate, tables, requests
    <2>2. CASE volume' \in {[volume EXCEPT ![db] = Migrated], [volume EXCEPT ![db] = MigratedHalf]}
      BY <2>2, MigratedTyped, LiveTyped, VolumeTyped DEF Migrate, requests
    <2> QED
      BY <2>1, <2>2 DEF Migrate
  <1>2. \E there \in {"record", "rest", "revert", "undo"} : Goto(there) \/ Abandon(there)
    BY DEF Migrate
  <1>3. UNCHANGED history \/ \E what \in Mishap : Fault(what)
    BY CallsTyped DEF Migrate, Mishap
  <1>4. UpdaterKnown' /\ RequestsKnown' /\ HistoryKnown'
    BY <1>2, <1>3, StepTyped DEF Migrate, At, OfTask, Updating, Ending
  <1>5. ServicesKnown'
    BY Frame DEF Migrate
  <1> QED
    BY <1>1, <1>4, <1>5 DEF Known

LEMMA UndoTyped ==
    ASSUME Known, Undo
    PROVE  Known'
  <1>1. TablesKnown'
    BY RestoreTyped, Frame DEF Undo, requests, tables
  <1>2. UpdaterKnown' /\ RequestsKnown' /\ HistoryKnown'
    BY StepTyped, CallsTyped DEF Undo, At, OfTask, Updating, Ending, Mishap
  <1>3. ServicesKnown'
    BY Frame DEF Undo
  <1> QED
    BY <1>1, <1>2, <1>3 DEF Known

LEMMA RevertMajorTyped ==
    ASSUME Known, RevertMajor
    PROVE  Known'
  <1>1. db' \in Volume /\ postgres' \in Major
    BY LiveTyped, ClustersTyped DEF RevertMajor, Known, UpdaterKnown, Process
  <1>2. TablesKnown'
    BY <1>1 DEF Known, TablesKnown, RowsKnown, RevertMajor, tables, requests
  <1>3. UpdaterKnown' /\ RequestsKnown' /\ HistoryKnown'
    BY StepTyped, CallsTyped DEF RevertMajor, At, OfTask, Updating, Ending, Mishap
  <1>4. ServicesKnown'
    BY Frame DEF RevertMajor
  <1> QED
    BY <1>2, <1>3, <1>4 DEF Known

LEMMA RecordVolumeTyped ==
    ASSUME Known, RecordVolume
    PROVE  Known'
  <1>1. TablesKnown'
    BY ArgsTyped, ClustersTyped
    DEF Known, TablesKnown, RowsKnown, RecordVolume, requests, At, OfTask, Updating, Request
  <1>2. \E there \in {"rest", "revert"} : Goto(there) \/ Abandon(there)
    BY DEF RecordVolume
  <1>3. UpdaterKnown' /\ RequestsKnown' /\ HistoryKnown'
    BY <1>2, StepTyped, CallsTyped DEF RecordVolume, At, OfTask, Updating, Ending, Mishap
  <1>4. ServicesKnown'
    BY Frame DEF RecordVolume
  <1> QED
    BY <1>1, <1>3, <1>4 DEF Known

LEMMA UpdateOthersTyped ==
    ASSUME Known, UpdateOthers
    PROVE  Known'
  <1>1. UpdaterKnown'
    <2>1. CASE updater' = [updater EXCEPT !.at = "images", !.todo = Service]
      <3>1. updater' \in Process /\ updater'.task = updater.task
        BY <2>1 DEF Known, UpdaterKnown, Process, Updating
      <3> QED
        BY <3>1, UpdaterTyped DEF UpdateOthers, At, requests, OfTask, Updating
    <2>2. CASE Abandon("backApp")
      <3>1. updater' \in Process /\ updater'.task = updater.task
        BY <2>2, Stays DEF Known, UpdaterKnown, Process, Ending
      <3> QED
        BY <3>1, UpdaterTyped DEF UpdateOthers, At, requests, OfTask, Updating
    <2> QED
      BY <2>1, <2>2 DEF UpdateOthers
  <1>2. HistoryKnown'
    BY HistoryTyped, CallsTyped DEF UpdateOthers, Mishap
  <1>3. TablesKnown' /\ ServicesKnown' /\ RequestsKnown'
    BY Frame DEF UpdateOthers, requests
  <1> QED
    BY <1>1, <1>2, <1>3 DEF Known

LEMMA UpdateImageTyped ==
    ASSUME Known, NEW s \in Service, UpdateImage(s)
    PROVE  Known'
  <1>0. Args.release \in 0..MaxReleases /\ updater.was[s] \in 0..Replicas /\ s \in Image
    BY ArgsTyped, SystemUpdateAssumption
    DEF Known, UpdaterKnown, Process, UpdateImage, At, OfTask, Updating, Request, Release, Image,
        SystemUpdateAssumption
  <1>1. ServicesKnown'
    <2>1. CASE MoveImage(s)
      BY <1>0, <2>1 DEF Known, ServicesKnown, MoveImage
    <2>2. CASE UNCHANGED services
      BY <2>2, Frame
    <2> QED
      BY <2>1, <2>2 DEF UpdateImage
  <1>2. \E f \in BOOLEAN : ImageDone(s, f)
    BY DEF UpdateImage
  <1>3. updater' \in Process /\ updater'.task = updater.task
    <2>1. PICK f \in BOOLEAN : ImageDone(s, f)
      BY <1>2
    <2> QED
      BY <2>1 DEF ImageDone, Known, UpdaterKnown, Process, Ending
  <1>4. UpdaterKnown'
    BY <1>3, UpdaterTyped DEF UpdateImage, At, requests, OfTask, Updating
  <1>5. HistoryKnown'
    BY HistoryTyped, CallsTyped DEF UpdateImage, Mishap
  <1>6. TablesKnown' /\ RequestsKnown'
    BY Frame DEF UpdateImage, requests
  <1> QED
    BY <1>1, <1>4, <1>5, <1>6 DEF Known

LEMMA BringBackTyped ==
    ASSUME Known, NEW s \in Service, NEW here \in {"backApp", "backWorker"},
           NEW there \in {"backWorker", "save"}, BringBack(s, here, there)
    PROVE  Known'
  <1>1. ServicesKnown'
    <2>1. updater.was[s] \in 0..Replicas
      BY DEF Known, UpdaterKnown, Process
    <2> QED
      BY <2>1, ScaleTyped, Frame DEF BringBack
  <1>2. UpdaterKnown' /\ RequestsKnown' /\ HistoryKnown'
    BY StepTyped, CallsTyped DEF BringBack, At, OfTask, Updating, Ending, Mishap
  <1>3. TablesKnown'
    BY Frame DEF BringBack, requests
  <1> QED
    BY <1>1, <1>2, <1>3 DEF Known

LEMMA SaveTaskTyped ==
    ASSUME Known, SaveTask
    PROVE  Known'
  <1>1. TablesKnown'
    <2>1. CASE volume' = volume
      BY <2>1, Frame DEF SaveTask, tables, requests
    <2>2. CASE /\ Live.tasks[updater.task] # "none"
               /\ \E status \in {"done", "failed"} :
                      volume' = [volume EXCEPT ![db].tasks[updater.task] = status]
      <3>1. PICK status \in {"done", "failed"} :
                      volume' = [volume EXCEPT ![db].tasks[updater.task] = status]
        BY <2>2
      <3> DEFINE rows == [Live.tasks EXCEPT ![updater.task] = status]
                 ts == [Live EXCEPT !.tasks = rows]
      <3>2. Live.tasks \in [Task -> {"none", "not_started", "done", "failed"}]
        BY LiveTyped DEF Tables
      <3>3. rows \in [Task -> {"none", "not_started", "done", "failed"}]
        BY <3>2
      <3>4. \A t \in Task : rows[t] # "none" => t <= Len(args)
        BY <3>2, LiveTyped, ArgsTyped DEF SaveTask, At, OfTask
      <3>5. Live # None
        BY <2>2, TablesTyped, ArgsTyped DEF SaveTask, At, OfTask
      <3>6. volume' = [volume EXCEPT ![db] = ts]
        BY <3>1, <3>5, LiveIsVolume
      <3> HIDE DEF rows
      <3>7. ts \in Tables /\ ts.tasks = rows
        BY <3>3, LiveTyped DEF Tables
      <3> HIDE DEF ts
      <3> QED
        BY <3>4, <3>6, <3>7, VolumeTyped DEF SaveTask, requests
    <2> QED
      BY <2>1, <2>2 DEF SaveTask
  <1>2. UpdaterKnown' /\ RequestsKnown' /\ HistoryKnown'
    BY StepTyped DEF SaveTask, At, OfTask, Updating, Ending, Mishap
  <1>3. ServicesKnown'
    BY Frame DEF SaveTask
  <1> QED
    BY <1>1, <1>2, <1>3 DEF Known

LEMMA EnsureAppTyped ==
    ASSUME Known, EnsureApp
    PROVE  Known'
  <1>1. ServicesKnown'
    BY ScaleTyped, Frame DEF EnsureApp, Service, Replicas
  <1>2. UpdaterKnown' /\ RequestsKnown' /\ HistoryKnown'
    BY StepTyped DEF EnsureApp, At, OfTask, Updating, Ending, Mishap
  <1>3. TablesKnown'
    BY Frame DEF EnsureApp, requests
  <1> QED
    BY <1>1, <1>2, <1>3 DEF Known

LEMMA ShutdownTyped ==
    ASSUME Known, Shutdown
    PROVE  Known'
  <1>1. UpdaterKnown'
    <2>1. updater' \in Process /\ updater'.at = "off" /\ updater'.task = 0
      BY ProcessTyped DEF Shutdown
    <2>2. on' \in BOOLEAN /\ Len(args') \in Nat
      BY LenProperties DEF Known, UpdaterKnown, RequestsKnown, Shutdown, requests
    <2> QED
      BY <2>1, <2>2 DEF UpdaterKnown, At, OfTask, Updating
  <1>2. HistoryKnown'
    BY HistoryTyped DEF Shutdown, Mishap
  <1>3. TablesKnown' /\ ServicesKnown' /\ RequestsKnown'
    BY Frame DEF Shutdown, requests
  <1> QED
    BY <1>1, <1>2, <1>3 DEF Known

LEMMA DeadlineTyped ==
    ASSUME Known, Deadline
    PROVE  Known'
  <1>1. UpdaterKnown'
    BY DEF Known, UpdaterKnown, Process, Deadline, At, requests
  <1>2. HistoryKnown'
    BY HistoryTyped DEF Deadline, Mishap
  <1>3. TablesKnown' /\ ServicesKnown' /\ RequestsKnown'
    BY Frame DEF Deadline, requests
  <1> QED
    BY <1>1, <1>2, <1>3 DEF Known

LEMMA CrashTyped ==
    ASSUME Known, Crash
    PROVE  Known'
  <1>1. TablesKnown'
    <2>1. volume' = volume \/ volume' = [volume EXCEPT ![db] = MigratedHalf]
      BY DEF Crash
    <2>2. dump' = dump \/ dump' = Broken
      BY DEF Crash
    <2>3. /\ volume' \in [Volume -> Tables]
          /\ \A m \in Volume, t \in Task : volume'[m].tasks[t] # "none" => t <= Len(args)
      BY <2>1, MigratedTyped, LiveTyped DEF Known, TablesKnown, RowsKnown
    <2>4. dump' \in Tables /\ \A t \in Task : dump'.tasks[t] # "none" => t <= Len(args)
      BY <2>2, TablesTyped DEF Known, TablesKnown, RowsKnown
    <2> QED
      BY <2>3, <2>4 DEF Known, TablesKnown, RowsKnown, Crash, requests
  <1>2. UpdaterKnown'
    BY ProcessTyped, LenProperties
    DEF Known, UpdaterKnown, RequestsKnown, Crash, At, requests, OfTask, Updating
  <1>3. HistoryKnown'
    BY HistoryTyped DEF Crash, Mishap
  <1>4. ServicesKnown' /\ RequestsKnown'
    BY Frame DEF Crash
  <1> QED
    BY <1>1, <1>2, <1>3, <1>4 DEF Known

LEMMA InitKnown == Init => Known
  <1> SUFFICES ASSUME Init PROVE Known
    OBVIOUS
  <1>0. MaxUpdates \in Nat /\ MaxReleases \in Nat /\ 1 \in Major /\ 0 \in Volume
    BY SystemUpdateAssumption DEF SystemUpdateAssumption, Volume
  <1>1. args \in Seq(Request) /\ Len(args) = 0
    BY EmptySeq DEF Init
  <1>2. TablesKnown
    BY <1>0, TablesTyped DEF Init, TablesKnown, RowsKnown
  <1>3. ServicesKnown
    BY <1>0 DEF Init, ServicesKnown, Replicas
  <1>4. UpdaterKnown
    <2>1. updater \in Process /\ updater.at = "off" /\ updater.task = 0 /\ on \in BOOLEAN
      BY ProcessTyped DEF Init
    <2> QED
      BY <1>1, <2>1 DEF UpdaterKnown, At, OfTask, Updating
  <1>5. RequestsKnown /\ HistoryKnown
    BY <1>0, <1>1 DEF Init, RequestsKnown, HistoryKnown
  <1> QED
    BY <1>2, <1>3, <1>4, <1>5 DEF Known

LEMMA KnownKept ==
    ASSUME Known, [Next]_vars
    PROVE  Known'
  <1>1. CASE \E r \in Release, m \in Major, skip \in Skips : RequestUpdate(r, m, skip)
    BY <1>1, RequestUpdateTyped
  <1>2. CASE CommitRequest \/ LoseRequest \/ HourPasses \/ Deploy
    BY <1>2, CommitRequestTyped, LoseRequestTyped, DeployTyped
  <1>3. CASE \E s \in Service : Write(s) \/ ContainersStop(s)
    BY <1>3, WriteTyped, ContainersStopTyped
  <1>4. CASE UpdaterStep
    <2>1. CASE StopApp \/ StopWorker
      BY <2>1, StopServiceTyped DEF StopApp, StopWorker, Service
    <2>2. CASE BackApp \/ BackWorker
      BY <2>2, BringBackTyped DEF BackApp, BackWorker, Service
    <2> QED
      BY <1>4, <2>1, <2>2, LoadTaskTyped, BackupTyped, PlanMajorTyped, MoveDbTyped, AwaitDbTyped,
         MigrateTyped, UndoTyped, RevertMajorTyped, RecordVolumeTyped, UpdateOthersTyped,
         UpdateImageTyped, SaveTaskTyped, EnsureAppTyped, ShutdownTyped DEF UpdaterStep
  <1>5. CASE Deadline \/ Crash
    BY <1>5, DeadlineTyped, CrashTyped
  <1>6. CASE UNCHANGED vars
    BY <1>6, Frame DEF Known, vars, requests
  <1> QED
    BY <1>1, <1>2, <1>3, <1>4, <1>5, <1>6 DEF Next

LEMMA KnownAlways == Spec => []Known
  BY InitKnown, KnownKept, PTL DEF Spec

\* The variables keep their types.
THEOREM TypeCorrect == Spec => []TypeOK
  <1>1. Known => TypeOK
    BY DEF Known, TypeOK, TablesKnown, ServicesKnown, UpdaterKnown, RequestsKnown, HistoryKnown
  <1> QED
    BY <1>1, KnownAlways, PTL

-----------------------------------------------------------------------------
(* What an update has done when it is at a step.                           *)

\* The steps at which the app and the worker are told to stop.
Down == {"backup", "plan", "move", "wait", "migrate", "undo", "revert", "record", "rest"}

\* The services were stopped, who takes back did fail, and a move goes from where
\* the database is.
RunInv ==
    /\ At("stopWorker") => replicas["app"] = 0
    /\ updater.at \in Down => \A s \in Service : replicas[s] = 0
    /\ updater.at \in {"undo", "revert"} => updater.failed
    /\ At("move") => updater.from = db /\ (updater.moves <=> postgres # Args.major)

\* The service runs the release or a newer one, as many as before or none yet.
DoneTo(s) == image[s] >= Args.release /\ replicas[s] \in {0, updater.was[s]}

\* An update that has not failed has done each of its steps so far.
ProgressInv ==
    ~updater.failed =>
       /\ updater.at \in {"record", "rest", "images", "backApp", "backWorker", "save"} =>
             Live.schema >= Migrations /\ Live.shape = "clean"
       /\ At("images") =>
             \A s \in Service : IF s \in updater.todo THEN replicas[s] = 0 ELSE DoneTo(s)
       /\ updater.at \in {"backApp", "backWorker", "save"} => \A s \in Service : DoneTo(s)
       /\ updater.at \in {"backWorker", "save"} => replicas["app"] = updater.was["app"]
       /\ At("save") => replicas["worker"] = updater.was["worker"]

Run == RunInv /\ ProgressInv

\* A process that runs no update has nothing to keep.
LEMMA NoUpdateRuns ==
    ASSUME updater'.at \in {"off", "load", "stopApp", "ensure", "shutdown"}
    PROVE  Run'
  BY DEF Run, RunInv, ProgressInv, At, Down

\* Nor has one that gives up.
LEMMA GivenUpRuns ==
    ASSUME updater'.at = "backApp", updater'.failed
    PROVE  Run'
  BY DEF Run, RunInv, ProgressInv, At, Down

\* The fields that a step of the updater leaves alone.
LEMMA Fields ==
    ASSUME Known, NEW there
    PROVE  /\ Goto(there) => /\ updater'.at = there /\ updater'.failed = updater.failed
                             /\ updater'.task = updater.task /\ updater'.was = updater.was
                             /\ updater'.from = updater.from /\ updater'.moves = updater.moves
                             /\ updater'.late = updater.late /\ updater'.todo = updater.todo
           /\ Abandon(there) => /\ updater'.at = there /\ updater'.failed
                             /\ updater'.task = updater.task /\ updater'.was = updater.was
                             /\ updater'.from = updater.from /\ updater'.moves = updater.moves
                             /\ updater'.late = updater.late /\ updater'.todo = updater.todo
  BY DEF Known, UpdaterKnown, Process, Goto, Abandon

\* A step that leaves the images and the task alone is about the same release.
LEMMA SameRelease ==
    ASSUME UNCHANGED <<image, args>>, updater'.task = updater.task
    PROVE  Args' = Args /\ Migrations' = Migrations
  BY DEF Args, Migrations

\* What others do to the tables does not touch the schema.
LEMMA OthersRun ==
    ASSUME Known, Run, UNCHANGED <<updater, replicas, image, db, postgres, args>>,
           Live'.schema = Live.schema, Live'.shape = Live.shape
    PROVE  Run'
  <1>1. RunInv'
    BY DEF Run, RunInv, At, Args
  <1>2. ProgressInv'
    BY DEF Run, ProgressInv, At, DoneTo, Args, Migrations
  <1> QED
    BY <1>1, <1>2 DEF Run

\* A step in the middle, with the services stopped.
LEMMA DownRuns ==
    ASSUME Known, Run, updater.at \in Down, UNCHANGED replicas,
           NEW there \in Down \ {"move", "record", "rest"}, Goto(there) \/ Abandon(there),
           there \in {"undo", "revert"} => updater'.failed
    PROVE  Run'
  <1>1. RunInv'
    BY Fields DEF Run, RunInv, At, Down
  <1>2. ProgressInv'
    BY Fields DEF ProgressInv, At, Down
  <1> QED
    BY <1>1, <1>2 DEF Run

LEMMA StopAppRuns ==
    ASSUME Known, Run, StopApp
    PROVE  Run'
  <1>1. CASE Scale("app", 0) /\ updater' = [updater EXCEPT !.at = "stopWorker", !.was["app"] = replicas["app"]]
    <2>1. updater'.at = "stopWorker" /\ replicas'["app"] = 0
      BY <1>1 DEF Known, UpdaterKnown, Process, ServicesKnown, Scale, Service
    <2> QED
      BY <2>1 DEF Run, RunInv, ProgressInv, At, Down
  <1>2. CASE \E n : updater' = [updater EXCEPT !.at = "backApp", !.failed = TRUE, !.was["app"] = n]
    <2>1. updater'.at = "backApp" /\ updater'.failed
      BY <1>2 DEF Known, UpdaterKnown, Process
    <2> QED
      BY <2>1, GivenUpRuns
  <1> QED
    BY <1>1, <1>2 DEF StopApp, StopService

LEMMA StopWorkerRuns ==
    ASSUME Known, Run, StopWorker
    PROVE  Run'
  <1>1. CASE Scale("worker", 0) /\ updater' = [updater EXCEPT !.at = "backup", !.was["worker"] = replicas["worker"]]
    <2>1. updater'.at = "backup" /\ replicas'["app"] = 0 /\ replicas'["worker"] = 0
      BY <1>1 DEF Known, UpdaterKnown, Process, ServicesKnown, Scale, Service, Run, RunInv, At, StopWorker, StopService
    <2> QED
      BY <2>1 DEF Run, RunInv, ProgressInv, At, Down, Service
  <1>2. CASE \E n : updater' = [updater EXCEPT !.at = "backApp", !.failed = TRUE, !.was["worker"] = n]
    <2>1. updater'.at = "backApp" /\ updater'.failed
      BY <1>2 DEF Known, UpdaterKnown, Process
    <2> QED
      BY <2>1, GivenUpRuns
  <1> QED
    BY <1>1, <1>2 DEF StopWorker, StopService

LEMMA BackupRuns ==
    ASSUME Known, Run, Backup
    PROVE  Run'
  BY DownRuns, GivenUpRuns, Fields DEF Backup, At, Down, services

LEMMA PlanMajorRuns ==
    ASSUME Known, Run, PlanMajor
    PROVE  Run'
  <1>1. CASE updater' = [updater EXCEPT !.at = "move", !.from = db, !.moves = (postgres # Args.major)]
    <2>1. /\ updater'.at = "move" /\ updater'.from = db /\ updater'.task = updater.task
          /\ updater'.moves = (postgres # Args.major)
      BY <1>1 DEF Known, UpdaterKnown, Process
    <2>2. Args' = Args /\ db' = db /\ postgres' = postgres /\ replicas' = replicas
      BY <2>1 DEF PlanMajor, requests, Args, services
    <2> QED
      BY <2>1, <2>2 DEF Run, RunInv, ProgressInv, At, Down, PlanMajor
  <1>2. CASE Abandon("backApp")
    BY <1>2, GivenUpRuns, Fields
  <1> QED
    BY <1>1, <1>2 DEF PlanMajor

LEMMA MoveDbRuns ==
    ASSUME Known, Run, MoveDb
    PROVE  Run'
  BY DownRuns, GivenUpRuns, Fields DEF MoveDb, At, Down, services

LEMMA AwaitDbRuns ==
    ASSUME Known, Run, AwaitDb
    PROVE  Run'
  BY DownRuns, GivenUpRuns, Fields DEF AwaitDb, At, Down, services

LEMMA MigrateRuns ==
    ASSUME Known, Run, Migrate
    PROVE  Run'
  <1>1. CASE volume' = [volume EXCEPT ![db] = Migrated] /\ \E there \in {"record", "rest"} : Goto(there)
    <2>1. Live' = Migrated
      BY <1>1, LiveIsVolume DEF Migrate
    <2>2. Migrations' = Migrations
      BY DEF Migrate, Migrations, services
    <2>3. Live'.schema >= Migrations' /\ Live'.shape = "clean"
      BY <2>1, <2>2, MigratedTyped
    <2>4. /\ updater'.at \in {"record", "rest"} /\ updater'.task = updater.task
          /\ updater'.failed = updater.failed /\ replicas' = replicas
      BY <1>1, Fields DEF Migrate, services
    <2> QED
      BY <2>3, <2>4 DEF Run, RunInv, ProgressInv, At, Down, Migrate
  <1>2. CASE Abandon("revert") \/ Abandon("undo")
    BY <1>2, DownRuns, Fields DEF Migrate, At, Down, services
  <1> QED
    BY <1>1, <1>2 DEF Migrate

LEMMA UndoRuns ==
    ASSUME Known, Run, Undo \/ RevertMajor
    PROVE  Run'
  BY GivenUpRuns, Fields DEF Undo, RevertMajor, Run, RunInv, At, Down

LEMMA RecordVolumeRuns ==
    ASSUME Known, Run, RecordVolume
    PROVE  Run'
  <1>1. CASE Goto("rest")
    <2>1. /\ updater'.at = "rest" /\ updater'.task = updater.task
          /\ updater'.failed = updater.failed /\ replicas' = replicas /\ Live' = Live
          /\ Migrations' = Migrations
      BY <1>1, Fields DEF RecordVolume, services, Live, Migrations
    <2> QED
      BY <2>1 DEF Run, RunInv, ProgressInv, At, Down, RecordVolume
  <1>2. CASE Abandon("revert")
    BY <1>2, DownRuns, Fields DEF RecordVolume, At, Down, services
  <1> QED
    BY <1>1, <1>2 DEF RecordVolume

LEMMA UpdateOthersRuns ==
    ASSUME Known, Run, UpdateOthers
    PROVE  Run'
  <1>1. CASE updater' = [updater EXCEPT !.at = "images", !.todo = Service]
    <2>1. /\ updater'.at = "images" /\ updater'.task = updater.task /\ updater'.todo = Service
          /\ updater'.failed = updater.failed /\ replicas' = replicas /\ Live' = Live
          /\ Migrations' = Migrations
      BY <1>1 DEF Known, UpdaterKnown, Process, UpdateOthers, services, Live, tables, Migrations
    <2> QED
      BY <2>1 DEF Run, RunInv, ProgressInv, At, Down, UpdateOthers
  <1>2. CASE Abandon("backApp")
    BY <1>2, GivenUpRuns, Fields
  <1> QED
    BY <1>1, <1>2 DEF UpdateOthers

LEMMA UpdateImageRuns ==
    ASSUME Known, Run, NEW s \in Service, UpdateImage(s)
    PROVE  Run'
  <1> DEFINE worked == (Newer(s) /\ MoveImage(s)) \/ (~Newer(s) /\ UNCHANGED services)
  <1>1. PICK f \in BOOLEAN : ImageDone(s, f) /\ (f = TRUE \/ worked)
    BY DEF UpdateImage
  <1> HIDE DEF worked
  <1>2. /\ updater'.task = updater.task /\ updater'.was = updater.was
        /\ updater'.todo = updater.todo \ {s}
        /\ updater'.failed = (updater.failed \/ f)
        /\ updater'.at = IF updater.todo = {s} THEN "backApp" ELSE "images"
    BY <1>1 DEF ImageDone, Known, UpdaterKnown, Process, UpdateImage, At
  <1>3. RunInv'
    BY <1>2 DEF RunInv, At, Down
  <1>4. ProgressInv'
    <2>1. SUFFICES ASSUME ~updater'.failed
                   PROVE  ProgressInv'
      BY DEF ProgressInv
    <2>2. ~updater.failed /\ ((Newer(s) /\ MoveImage(s)) \/ (~Newer(s) /\ UNCHANGED services))
      <3>1. ~updater.failed /\ f # TRUE
        BY <1>2, <2>1
      <3> QED
        BY <1>1, <3>1 DEF worked
    <2>3. /\ s \in Image /\ "updater" # s /\ Args.release \in Nat /\ \A r \in Service : image[r] \in Nat
          /\ image \in [Image -> Nat] /\ replicas \in [Service -> Nat]
      <3>1. Args \in Request
        BY ArgsTyped DEF UpdateImage, At, OfTask, Updating
      <3>2. Args.release \in Nat
        BY <3>1, SystemUpdateAssumption DEF SystemUpdateAssumption, Request, Release
      <3>3. image \in [Image -> Nat] /\ replicas \in [Service -> Nat]
        BY SystemUpdateAssumption DEF SystemUpdateAssumption, Known, ServicesKnown, Replicas
      <3> QED
        BY <3>2, <3>3 DEF Image, Service
    <2>4. /\ Args' = Args /\ Migrations' = Migrations
          /\ \A r \in Service : r # s => image'[r] = image[r] /\ replicas'[r] = replicas[r]
      BY <1>2, <2>2, <2>3 DEF UpdateImage, requests, Args, Migrations, MoveImage, services, Image
    <2>5. Live' = Live /\ Live.schema >= Migrations /\ Live.shape = "clean"
      BY <2>2 DEF Run, ProgressInv, UpdateImage, At, Live, tables
    <2>6. \A r \in Service : IF r \in updater.todo THEN replicas[r] = 0 ELSE DoneTo(r)
      BY <2>2 DEF Run, ProgressInv, UpdateImage, At
    <2>7. DoneTo(s)'
      <3>1. CASE MoveImage(s)
        BY <1>2, <2>3, <2>4, <3>1 DEF MoveImage, DoneTo
      <3>2. CASE ~Newer(s) /\ UNCHANGED services
        <4>1. image[s] >= Args.release
          BY <2>3, <3>2 DEF Newer
        <4>2. replicas[s] \in {0, updater.was[s]}
          BY <2>6 DEF UpdateImage, DoneTo
        <4> QED
          BY <1>2, <2>4, <3>2, <4>1, <4>2 DEF DoneTo, services
      <3> QED
        BY <2>2, <3>1, <3>2
    <2>9. \A r \in Service : IF r \in updater'.todo THEN replicas'[r] = 0 ELSE DoneTo(r)'
      BY <1>2, <2>4, <2>6, <2>7 DEF DoneTo, UpdateImage
    <2>8. At("backApp")' => updater'.todo = {}
      BY <1>2 DEF At
    <2> QED
      BY <1>2, <2>4, <2>5, <2>8, <2>9 DEF ProgressInv, At
  <1> QED
    BY <1>3, <1>4 DEF Run

\* A service brought back without a failure has the replicas it had.
LEMMA BringsBack ==
    ASSUME Known, Run, ~updater.failed, updater.at \in {"backApp", "backWorker"},
           NEW s \in Service, NEW there \in {"backWorker", "save"}, Goto(there),
           IF updater.was[s] > 0 THEN Scale(s, updater.was[s]) ELSE UNCHANGED services,
           UNCHANGED <<tables, db, postgres, args>>
    PROVE  /\ Live' = Live /\ Migrations' = Migrations
           /\ \A r \in Service : r # s => replicas'[r] = replicas[r]
           /\ replicas'[s] = updater.was[s] /\ \A r \in Service : DoneTo(r)'
  <1>1. Live' = Live /\ image' = image /\ updater'.was = updater.was /\ updater'.task = updater.task
    BY Fields DEF Live, tables, services, Scale
  <1>0. Args' = Args /\ Migrations' = Migrations
    BY <1>1, SameRelease
  <1>2. \A r \in Service : DoneTo(r)
    BY DEF Run, ProgressInv
  <1>3. \A r \in Service : r # s => replicas'[r] = replicas[r]
    BY DEF services, Scale, Known, ServicesKnown
  <1>4. replicas'[s] = updater.was[s]
    <2>1. updater.was[s] \in 0..Replicas
      BY DEF Known, UpdaterKnown, Process
    <2>2. CASE updater.was[s] > 0
      BY <2>2 DEF Scale, Known, ServicesKnown
    <2>3. CASE updater.was[s] = 0
      BY <1>2, <2>3 DEF services, DoneTo
    <2> QED
      BY <2>1, <2>2, <2>3 DEF Replicas
  <1> QED
    BY <1>0, <1>1, <1>2, <1>3, <1>4 DEF DoneTo

LEMMA BackRuns ==
    ASSUME Known, Run, BackApp \/ BackWorker
    PROVE  Run'
  <1>1. CASE Abandon("save")
    BY <1>1, Fields DEF Run, RunInv, ProgressInv, At, Down
  <1>2. ASSUME NEW s \in Service, NEW here \in {"backApp", "backWorker"},
               NEW there \in {"backWorker", "save"}, BringBack(s, here, there), Goto(there)
        PROVE  /\ updater'.at = there /\ RunInv'
               /\ updater.at = here
               /\ ~updater'.failed =>
                    /\ ~updater.failed /\ updater'.was = updater.was
                    /\ Live'.schema >= Migrations' /\ Live'.shape = "clean"
                    /\ \A r \in Service : r # s => replicas'[r] = replicas[r]
                    /\ replicas'[s] = updater'.was[s] /\ \A r \in Service : DoneTo(r)'
    <2>1. updater.at = here /\ updater'.at = there /\ RunInv'
      BY <1>2, Fields DEF BringBack, At, RunInv, Down
    <2>2. ASSUME ~updater'.failed
          PROVE  /\ ~updater.failed /\ updater'.was = updater.was /\ updater'.task = updater.task
                 /\ IF updater.was[s] > 0 THEN Scale(s, updater.was[s]) ELSE UNCHANGED services
      BY <1>2, <2>2, Fields DEF BringBack, Abandon, Known, UpdaterKnown, Process
    <2>3. ~updater'.failed => Live.schema >= Migrations /\ Live.shape = "clean"
      BY <2>1, <2>2 DEF Run, ProgressInv
    <2>4. UNCHANGED <<tables, db, postgres, args>>
      BY <1>2 DEF BringBack, requests
    <2> QED
      BY <1>2, <2>1, <2>2, <2>3, <2>4, BringsBack
  <1>3. CASE BackApp /\ Goto("backWorker")
    BY <1>2, <1>3 DEF BackApp, Service, Run, ProgressInv, At
  <1>4. CASE BackWorker /\ Goto("save")
    <2>1. ~updater'.failed => replicas["app"] = updater.was["app"]
      BY <1>2, <1>4 DEF BackWorker, Service, Run, ProgressInv, At
    <2> QED
      BY <1>2, <1>4, <2>1 DEF BackWorker, Service, Run, ProgressInv, At
  <1> QED
    BY <1>1, <1>3, <1>4 DEF BackApp, BackWorker, BringBack

LEMMA InitRuns == Init => Run
  BY ProcessTyped DEF Init, Run, RunInv, ProgressInv, At, Down

LEMMA RunKept ==
    ASSUME Known, Run, [Next]_vars
    PROVE  Run'
  <1>1. CASE \E r \in Release, m \in Major, skip \in Skips : RequestUpdate(r, m, skip)
    BY <1>1, NoUpdateRuns, ProcessTyped DEF RequestUpdate, TurnOn
  <1>2. CASE CommitRequest \/ LoseRequest \/ HourPasses
    <2>1. Live'.schema = Live.schema /\ Live'.shape = Live.shape
      BY <1>2, LiveTyped
      DEF CommitRequest, LoseRequest, HourPasses, Live, tables, Tables, Known, TablesKnown
    <2> QED
      BY <1>2, <2>1, OthersRun DEF CommitRequest, LoseRequest, HourPasses, services
  <1>3. CASE \E s \in Service : Write(s) \/ ContainersStop(s)
    <2>1. Live'.schema = Live.schema /\ Live'.shape = Live.shape
      BY <1>3, LiveTyped DEF Write, ContainersStop, Live, tables, Tables, Known, TablesKnown
    <2> QED
      BY <1>3, <2>1, OthersRun DEF Write, ContainersStop, services, requests
  <1>4. CASE Deploy
    BY <1>4, NoUpdateRuns DEF Deploy, At
  <1>5. CASE UpdaterStep
    <2>1. CASE LoadTask
      <3>1. updater'.at \in {"stopApp", "ensure"}
        BY <2>1, Fields DEF LoadTask, Known, UpdaterKnown, Process
      <3> QED
        BY <3>1, NoUpdateRuns
    <2>2. CASE SaveTask \/ EnsureApp
      BY <2>2, NoUpdateRuns, Fields DEF SaveTask, EnsureApp
    <2>3. CASE Shutdown
      BY <2>3, NoUpdateRuns, ProcessTyped DEF Shutdown
    <2> QED
      BY <1>5, <2>1, <2>2, <2>3, StopAppRuns, StopWorkerRuns, BackupRuns, PlanMajorRuns, MoveDbRuns,
         AwaitDbRuns, MigrateRuns, UndoRuns, RecordVolumeRuns, UpdateOthersRuns, UpdateImageRuns,
         BackRuns DEF UpdaterStep
  <1>6. CASE Deadline
    <2>1. /\ updater'.at = updater.at /\ updater'.failed = updater.failed
          /\ updater'.task = updater.task /\ updater'.was = updater.was
          /\ updater'.from = updater.from /\ updater'.moves = updater.moves
          /\ updater'.todo = updater.todo
      BY <1>6 DEF Deadline, Known, UpdaterKnown, Process
    <2>2. UNCHANGED <<replicas, image, db, postgres, args, Live>>
      BY <1>6 DEF Deadline, services, tables, requests, Live
    <2> QED
      BY <2>1, <2>2 DEF Run, RunInv, ProgressInv, At, Args, DoneTo, Migrations
  <1>7. CASE Crash
    BY <1>7, NoUpdateRuns, ProcessTyped DEF Crash
  <1>8. CASE UNCHANGED vars
    BY <1>8, OthersRun DEF vars, services, requests, tables, Live
  <1> QED
    BY <1>1, <1>2, <1>3, <1>4, <1>5, <1>6, <1>7, <1>8 DEF Next

LEMMA RunAlways == Spec => []Run
  BY InitRuns, RunKept, KnownAlways, PTL DEF Spec

\* A task that is stored as done was done to the end: the updater's migrations are
\* applied, and the app and the worker run the task's release or a newer one, as many
\* as before.
THEOREM DoneIsDone == Spec => OutcomeIsTrue
  <1> DEFINE Step == \A t \in Task : At("save") /\ Live.tasks[t] # "done" /\ Live'.tasks[t] = "done" =>
          /\ t = updater.task /\ Live.schema >= Migrations /\ Live.shape = "clean"
          /\ \A s \in Service : image[s] >= Args.release /\ replicas[s] = updater.was[s]
  <1>1. ASSUME Known, Run, [Next]_vars
        PROVE  Step
    <2> SUFFICES ASSUME NEW t \in Task, At("save"), Live.tasks[t] # "done", Live'.tasks[t] = "done"
                 PROVE  /\ t = updater.task /\ Live.schema >= Migrations /\ Live.shape = "clean"
                        /\ \A s \in Service : image[s] >= Args.release /\ replicas[s] = updater.was[s]
      OBVIOUS
    <2>1. \/ UNCHANGED <<volume, db, postgres>>
          \/ CommitRequest \/ \E s \in Service : Write(s)
          \/ SaveTask
      BY <1>1 DEF Next, vars, tables, UpdaterStep, At, RequestUpdate, LoseRequest, HourPasses, Deploy,
         ContainersStop, LoadTask, StopApp, StopWorker, StopService, Backup, PlanMajor, MoveDb, AwaitDb,
         Migrate, Undo, RevertMajor, RecordVolume, UpdateOthers, UpdateImage, BackApp, BackWorker,
         BringBack, EnsureApp, Shutdown, Deadline, Crash
    <2>2. CASE UNCHANGED <<volume, db, postgres>>
      BY <2>2 DEF Live
    <2>3. CASE CommitRequest
      <3>1. Live' = [Live EXCEPT !.tasks[asked] = "not_started"]
        <4>1. Live # None /\ volume' = [volume EXCEPT ![db].tasks[asked] = "not_started"]
              /\ UNCHANGED <<db, postgres>>
          BY <2>3 DEF CommitRequest
        <4>2. volume' = [volume EXCEPT ![db] = [Live EXCEPT !.tasks[asked] = "not_started"]]
          BY <1>1, <4>1, LiveIsVolume
        <4> QED
          BY <1>1, <4>1, <4>2, LiveIsVolume
      <3>2. Live'.tasks = [Live.tasks EXCEPT ![asked] = "not_started"]
        BY <1>1, <3>1, LiveTyped DEF Tables
      <3> QED
        BY <1>1, <3>2, LiveTyped DEF Tables
    <2>4. CASE \E s \in Service : Write(s)
      <3>1. Live'.tasks = Live.tasks
        <4>1. Live # None /\ volume' = [volume EXCEPT ![db].data = written'] /\ UNCHANGED <<db, postgres>>
          BY <2>4 DEF Write
        <4>2. volume' = [volume EXCEPT ![db] = [Live EXCEPT !.data = written']]
          BY <1>1, <4>1, LiveIsVolume
        <4>3. Live' = [Live EXCEPT !.data = written']
          BY <1>1, <4>1, <4>2, LiveIsVolume
        <4> QED
          BY <1>1, <4>3, LiveTyped DEF Tables
      <3> QED
        BY <3>1
    <2>5. CASE SaveTask
      <3>1. PICK status \in {"done", "failed"} :
               /\ volume' = [volume EXCEPT ![db].tasks[updater.task] = status] \/ volume' = volume
               /\ status = "done" => ~updater.failed
        BY <2>5 DEF SaveTask
      <3>2. Live # None /\ volume' = [volume EXCEPT ![db].tasks[updater.task] = status]
            /\ UNCHANGED <<db, postgres>>
        <4>1. volume' # volume /\ UNCHANGED <<db, postgres>>
          BY <2>5 DEF SaveTask, Live
        <4>2. Live.tasks[updater.task] # "none" /\ updater.task \in Task
          BY <1>1, <2>5, <4>1, ArgsTyped DEF SaveTask, At, OfTask
        <4> QED
          BY <3>1, <4>1, <4>2, TablesTyped
      <3>3. Live' = [Live EXCEPT !.tasks[updater.task] = status]
        <4>1. volume' = [volume EXCEPT ![db] = [Live EXCEPT !.tasks[updater.task] = status]]
          BY <1>1, <3>2, LiveIsVolume
        <4> QED
          BY <1>1, <3>2, <4>1, LiveIsVolume
      <3>4. Live'.tasks = [Live.tasks EXCEPT ![updater.task] = status]
        BY <1>1, <3>3, LiveTyped DEF Tables
      <3>5. t = updater.task /\ status = "done"
        BY <1>1, <3>4, LiveTyped DEF Tables
      <3>6. ~updater.failed
        BY <3>1, <3>5
      <3> QED
        BY <1>1, <3>5, <3>6 DEF Run, ProgressInv, At, DoneTo, Service
    <2> QED
      BY <2>1, <2>2, <2>3, <2>4, <2>5
  <1>2. Known /\ Run /\ [Next]_vars => [Step]_vars
    BY <1>1
  <1>3. Spec => [][Step]_vars
    BY <1>2, KnownAlways, RunAlways, PTL DEF Spec
  <1> QED
    BY <1>3 DEF OutcomeIsTrue


-----------------------------------------------------------------------------
(* Where the database is, and what its volumes and its dump hold, through  *)
(* one failed step.                                                        *)

\* Tables an app can serve from without a loss.
Good(ts) == ts.shape \in {"clean", "left"} /\ ts.data >= kept

\* The database is on the volume it moves to, which is not recorded yet.
Away == updater.moves /\ updater.at \in {"wait", "migrate", "record", "revert"}
\* The steps at which a move is planned, under way or taken back, and those at
\* which no update is under way or it is over for the database.
Moving == {"plan", "move", "wait", "migrate", "undo", "revert", "record"}
Idle == {"off", "load"} \cup Ending

\* The service is on the volume the record names, at that volume's major.
InPlace == db = record /\ Cluster(db) = postgres

\* What the record names can be served from, but while a migration of it is undone,
\* and the database is there - or on a move's way, or left at a new cluster.
PlaceInv ==
    /\ ~At("undo") => Good(volume[record])
    /\ At("undo") => InPlace
    /\ ~Away /\ ~At("undo") =>
          InPlace \/ ("wait" \in hurt /\ Live = None /\ updater.at \in Idle)
    /\ Away => record = updater.from /\ db # record
    /\ Away /\ updater.at \in {"migrate", "record"} => Good(Live)
    /\ updater.at \in {"record", "revert"} => updater.moves

\* The dump is as good, from when it is taken to when it may be needed.
DumpInv == updater.at \in {"plan", "move", "wait", "migrate", "undo"} => Good(dump)

\* The database moves to a newer major, and to the one the task names.
UpInv ==
    /\ At("move") /\ updater.moves => Args.major > postgres
    /\ Away => db = Args.major /\ postgres = db /\ db > Cluster(updater.from)

\* The newer majors, of which there is no cluster yet.
Ahead(m) == IF Away THEN m > Cluster(updater.from) /\ (m # db \/ At("wait")) ELSE m > postgres

\* Who takes back has had a fault; before the first, no volume and no dump has
\* anything left over, and those of newer majors are empty.
FirstFault ==
    /\ updater.at \in {"undo", "revert"} => faults # 0
    /\ faults = 0 =>
          /\ "wait" \notin hurt
          /\ \A v \in Volume : volume[v].shape \in {"clean", "none"}
          /\ updater.at \in {"plan", "move", "wait", "migrate"} => dump.shape = "clean"
          /\ \A m \in Major : Ahead(m) => volume[m] = None

Tame == ~updater.late /\ PlaceInv /\ DumpInv /\ UpInv /\ FirstFault
TameInv == OneFailedStep => Tame

\* Where the service belongs, its tables are the record's.
LEMMA PlaceTyped ==
    ASSUME Known
    PROVE  /\ record \in Nat /\ db \in Nat /\ postgres \in Nat /\ Cluster(db) \in Nat
           /\ InPlace => Live = volume[record] /\ Cluster(record) = postgres
           /\ db = postgres => Live = volume[db]
           /\ \A m \in Major : m \in Volume /\ m \in Nat /\ Cluster(m) = m
  BY ClustersTyped DEF Known, TablesKnown, InPlace, Live

\* Only one thing went wrong after a step if only one had before it.
LEMMA NoneGetsBetter ==
    ASSUME Known, [Next]_vars, OneFailedStep'
    PROVE  OneFailedStep
  <1>1. \A t \in DOMAIN args : t \in DOMAIN args' /\ args'[t] = args[t]
    <2>1. CASE UNCHANGED args
      BY <2>1
    <2>2. CASE \E r \in Release, m \in Major, skip \in Skips : RequestUpdate(r, m, skip)
      <3>1. PICK r \in Release, m \in Major, skip \in Skips : RequestUpdate(r, m, skip)
        BY <2>2
      <3> DEFINE arg == [release |-> r, major |-> m, skip |-> skip]
      <3>2. arg \in Request /\ args \in Seq(Request) /\ args' = Append(args, arg)
        BY <3>1, SystemUpdateAssumption
        DEF SystemUpdateAssumption, Known, RequestsKnown, RequestUpdate, Request
      <3> HIDE DEF arg
      <3> QED
        BY <3>2, AppendProperties, LenProperties
    <2> QED
      BY <2>1, <2>2
      DEF Next, vars, requests, UpdaterStep, CommitRequest, LoseRequest, HourPasses, Deploy, Write,
          ContainersStop, LoadTask, StopApp, StopWorker, StopService, Backup, PlanMajor, MoveDb, AwaitDb,
          Migrate, Undo, RevertMajor, RecordVolume, UpdateOthers, UpdateImage, BackApp, BackWorker,
          BringBack, SaveTask, EnsureApp, Shutdown, Deadline, Crash
  <1>2. hurt \subseteq hurt' /\ (faults' = faults \/ faults' = faults + 1)
    <2>1. \A what : CallWorks \/ CallFails(what) \/ Fault(what) =>
                       hurt \subseteq hurt' /\ (faults' = faults \/ faults' = faults + 1)
      BY DEF CallWorks, CallFails, Fault, history
    <2>2. CASE StopApp \/ StopWorker \/ Backup \/ PlanMajor \/ MoveDb
      BY <2>1, <2>2 DEF StopApp, StopWorker, StopService, Backup, PlanMajor, MoveDb, history
    <2>3. CASE AwaitDb \/ Migrate \/ Undo \/ RevertMajor \/ RecordVolume
      BY <2>1, <2>3 DEF AwaitDb, Migrate, Undo, RevertMajor, RecordVolume, history
    <2>4. CASE UpdateOthers \/ BackApp \/ BackWorker \/ \E s \in Service : UpdateImage(s)
      BY <2>1, <2>4 DEF UpdateOthers, UpdateImage, BackApp, BackWorker, BringBack, history
    <2>5. CASE LoadTask \/ SaveTask \/ EnsureApp \/ Shutdown
      BY <2>1, <2>5 DEF LoadTask, SaveTask, EnsureApp, Shutdown, history
    <2>6. CASE ~UpdaterStep
      BY <2>1, <2>6 DEF Next, vars, history, RequestUpdate, CommitRequest, LoseRequest, HourPasses,
          Deploy, Write, ContainersStop, Deadline, Crash
    <2> QED
      BY <2>2, <2>3, <2>4, <2>5, <2>6 DEF UpdaterStep
  <1>3. faults <= 1
    BY <1>2 DEF OneFailedStep, Known, HistoryKnown
  <1> QED
    BY <1>1, <1>2, <1>3 DEF OneFailedStep

\* The step that fails is the first one to.
LEMMA FirstToFail ==
    ASSUME Known, OneFailedStep', NEW what, Fault(what)
    PROVE  faults = 0 /\ faults' = 1 /\ hurt' = hurt \cup {what} /\ kept' = kept
  BY DEF Known, HistoryKnown, OneFailedStep, Fault

\* In time, a call fails only by a fault.
LEMMA InTime ==
    ASSUME Known, Tame, OneFailedStep', NEW what, CallFails(what)
    PROVE  faults = 0 /\ faults' = 1 /\ hurt' = hurt \cup {what} /\ kept' = kept
  BY FirstToFail DEF CallFails, Tame

LEMMA GoodTyped ==
    ASSUME NEW ts, Good(ts)
    PROVE  ts # None /\ ts # Broken /\ ts.shape # "half"
  BY TablesTyped DEF Good

LEMMA NotAway ==
    ASSUME updater.at \notin Moving
    PROVE  ~Away /\ ~At("undo") /\ ~At("move")
  BY DEF Away, Moving, At

\* Steps that do not touch the database, before it is planned where it goes or
\* after it is there.
LEMMA QuietTame ==
    ASSUME Known, Tame, UNCHANGED <<tables, db, postgres, kept>>, hurt \subseteq hurt',
           faults' = 0 => faults = 0 /\ hurt' = hurt,
           updater.at \notin Moving, updater'.at \notin Moving, ~updater'.late,
           InPlace \/ updater'.at \in Idle
    PROVE  Tame'
  <1>1. ~Away /\ ~At("undo") /\ ~Away' /\ ~At("undo")' /\ ~At("move")' /\ ~At("wait")'
    BY DEF Away, Moving, At
  <1>2. Live' = Live /\ UNCHANGED <<volume, dump, record>> /\ InPlace' = InPlace
    BY DEF Live, tables, InPlace
  <1>3. PlaceInv'
    BY <1>1, <1>2 DEF Tame, PlaceInv, Good, Moving
  <1>4. DumpInv' /\ UpInv'
    BY <1>1 DEF DumpInv, UpInv, Moving
  <1>5. FirstFault'
    BY <1>1, <1>2 DEF Tame, FirstFault, Moving, Ahead
  <1> QED
    BY <1>3, <1>4, <1>5 DEF Tame

\* Tables that are written to are those of the record, or of a move.
LEMMA WrittenTame ==
    ASSUME Known, Run, Tame, Live # None, NEW ts \in Tables, volume' = [volume EXCEPT ![db] = ts],
           ts.shape = Live.shape, kept' \in Nat,
           ts.data >= kept' \/ (ts.data = Live.data /\ kept' = kept),
           (\A s \in Service : replicas[s] = 0) => kept' = kept,
           UNCHANGED <<dump, record, db, postgres, hurt, faults, args>>,
           updater' = updater \/ (At("save") /\ updater'.at = "ensure" /\ ~updater'.late)
    PROVE  Tame'
  <1>0. /\ Live' = ts /\ \A v \in Volume : v # db => volume'[v] = volume[v]
        /\ volume'[db] = ts /\ Cluster(db) = postgres /\ Live = volume[db]
        /\ record \in Volume /\ db \in Volume /\ InPlace' = InPlace
    BY LiveIsVolume DEF Known, TablesKnown, InPlace
  <1>3. faults = 0 => \A m \in Major : Ahead(m) => m # db
    BY <1>0, PlaceTyped DEF Tame, FirstFault, Ahead, UpInv
  <1>1. CASE updater.at \in Down /\ updater' = updater
    <2>1. kept' = kept
      BY <1>1 DEF Run, RunInv
    <2>2. (Away <=> Away') /\ (\A here \in Down : At(here)' <=> At(here)) /\ Args' = Args
          /\ \A m \in Major : Ahead(m)' <=> Ahead(m)
      BY <1>1 DEF Away, At, Args, Ahead
    <2>3. PlaceInv'
      <3>1. Good(Live) => Good(Live)'
        BY <1>0, <2>1 DEF Good
      <3>2. Good(volume[record]) => Good(volume[record])'
        BY <1>0, <2>1 DEF Good
      <3> QED
        BY <1>0, <1>1, <2>1, <2>2, <3>1, <3>2 DEF Tame, PlaceInv, Down, Idle, Ending
    <2>4. DumpInv' /\ UpInv'
      BY <1>1, <2>1, <2>2 DEF Tame, DumpInv, UpInv, Good, Down
    <2>5. FirstFault'
      BY <1>0, <1>1, <1>3, <2>2, PlaceTyped DEF Tame, FirstFault, Down, At
    <2> QED
      BY <1>1, <2>3, <2>4, <2>5 DEF Tame
  <1>2. CASE updater.at \notin Down /\ updater'.at \notin Down
    <2>1. ~Away /\ ~At("undo") /\ ~Away' /\ ~At("undo")' /\ ~At("move")' /\ ~At("wait")' /\ ~updater'.late
      BY <1>2 DEF Away, At, Down, Tame
    <2>2. InPlace /\ Good(Live)
      BY <2>1, PlaceTyped DEF Tame, PlaceInv
    <2>3. PlaceInv'
      BY <1>0, <1>2, <2>1, <2>2, PlaceTyped DEF Tame, PlaceInv, Good, InPlace, Down
    <2>4. DumpInv' /\ UpInv'
      BY <1>2, <2>1 DEF DumpInv, UpInv, Down
    <2>5. FirstFault'
      BY <1>0, <1>2, <1>3, <2>1, PlaceTyped DEF Tame, FirstFault, Ahead, Down
    <2> QED
      BY <2>1, <2>3, <2>4, <2>5 DEF Tame
  <1> QED
    BY <1>1, <1>2 DEF Down, At

LEMMA RequestTame ==
    ASSUME Known, Run, Tame, OneFailedStep', NEW release \in Release, NEW major \in Major, NEW skip \in Skips,
           RequestUpdate(release, major, skip)
    PROVE  Tame'
  <1>1. updater.task = 0 /\ hurt' = hurt
    BY DEF RequestUpdate, OneFailedStep
  <1>2. updater.at \notin Moving
    BY <1>1 DEF Known, UpdaterKnown, OfTask, Updating, Moving
  <1>3. InPlace
    BY <1>2, NotAway DEF Tame, PlaceInv, RequestUpdate
  <1> QED
    BY <1>1, <1>2, <1>3, QuietTame, ProcessTyped DEF RequestUpdate, TurnOn, Moving

LEMMA OthersTame ==
    ASSUME Known, Run, Tame, CommitRequest \/ LoseRequest \/ HourPasses \/ Deploy
                             \/ \E s \in Service : Write(s) \/ ContainersStop(s)
    PROVE  Tame'
  <1>1. CASE UNCHANGED <<tables, db, postgres, updater, args, history>>
    BY <1>1 DEF Tame, PlaceInv, DumpInv, UpInv, FirstFault, Good, Away, At, Live, Args, InPlace, Ahead,
        tables, history
  <1>2. CASE CommitRequest
    <2> DEFINE ts == [Live EXCEPT !.tasks[asked] = "not_started"]
               rows == [Live.tasks EXCEPT ![asked] = "not_started"]
    <2>1. rows \in [Task -> {"none", "not_started", "done", "failed"}]
      BY LiveTyped DEF Tables
    <2>2. ts = [Live EXCEPT !.tasks = rows] /\ volume' = [volume EXCEPT ![db] = ts]
      BY <1>2, LiveIsVolume DEF CommitRequest
    <2> HIDE DEF ts, rows
    <2>3. ts \in Tables /\ ts.shape = Live.shape /\ ts.data = Live.data
      BY <2>1, <2>2, LiveTyped DEF Tables
    <2>4. Live # None /\ kept' = kept /\ kept \in Nat
      BY <1>2 DEF CommitRequest, history, Known, HistoryKnown
    <2> QED
      BY <1>2, <2>2, <2>3, <2>4, WrittenTame DEF CommitRequest, history
  <1>3. CASE \E s \in Service : Write(s)
    <2>1. PICK s \in Service : Write(s)
      BY <1>3
    <2> DEFINE ts == [Live EXCEPT !.data = written']
    <2>2. ts \in Tables /\ ts.shape = Live.shape /\ ts.data = written'
      BY <2>1, LiveTyped DEF Write, Tables, Known, HistoryKnown
    <2>5. Live = volume[db]
      BY <2>1, LiveIsVolume DEF Write
    <2>3. volume' = [volume EXCEPT ![db] = ts] /\ written' >= kept' /\ kept' \in Nat
      BY <2>1, <2>5 DEF Write, Known, HistoryKnown
    <2>4. /\ Live # None /\ ((\A r \in Service : replicas[r] = 0) => kept' = kept)
          /\ UNCHANGED <<dump, record, db, postgres, hurt, faults, args, updater>>
      BY <2>1 DEF Write, requests, Known, ServicesKnown, Replicas
    <2> HIDE DEF ts
    <2> QED
      BY <2>2, <2>3, <2>4, WrittenTame
  <1>4. CASE Deploy
    <2>1. /\ updater.at = "off" /\ updater' = updater /\ db' = record /\ db # record
          /\ UNCHANGED <<tables, history, postgres>>
      BY <1>4 DEF Deploy, At
    <2>2. ~Away /\ ~At("undo") /\ ~Away' /\ ~At("undo")' /\ ~At("move")' /\ ~At("wait")'
      BY <2>1 DEF Away, At
    <2>9. ~InPlace
      BY <2>1 DEF InPlace
    <2>3. "wait" \in hurt /\ Good(volume[record])
      BY <2>2, <2>9 DEF Tame, PlaceInv
    <2>4. InPlace' \/ Live' = None
      BY <2>1 DEF InPlace, Live, tables
    <2>5. PlaceInv'
      BY <2>1, <2>2, <2>3, <2>4 DEF PlaceInv, Good, Idle, tables, history
    <2>6. DumpInv' /\ UpInv'
      BY <2>1, <2>2 DEF DumpInv, UpInv
    <2>7. faults' # 0
      BY <2>1, <2>3 DEF Tame, FirstFault, history
    <2>8. FirstFault'
      BY <2>7 DEF FirstFault
    <2> QED
      BY <2>1, <2>5, <2>6, <2>8 DEF Tame
  <1> QED
    BY <1>1, <1>2, <1>3, <1>4 DEF LoseRequest, HourPasses, ContainersStop, requests

LEMMA CallHistory ==
    ASSUME Known, NEW what, UNCHANGED history \/ CallWorks \/ CallFails(what) \/ Fault(what)
    PROVE  kept' = kept /\ hurt \subseteq hurt' /\ (faults' = 0 => faults = 0 /\ hurt' = hurt)
  BY DEF Known, HistoryKnown, history, CallWorks, CallFails, Fault

LEMMA StopsTame ==
    ASSUME Known, Tame, StopApp \/ StopWorker
    PROVE  Tame'
  <1>1. PICK s \in Service : \E here \in {"stopApp", "stopWorker"}, there \in {"stopWorker", "backup"} :
                                StopService(s, here, there)
    BY DEF StopApp, StopWorker, Service
  <1>2. updater'.at \in {"stopWorker", "backup", "backApp"} /\ updater'.late = updater.late
    BY <1>1 DEF StopService, Known, UpdaterKnown, Process
  <1>3. kept' = kept /\ hurt \subseteq hurt' /\ (faults' = 0 => faults = 0 /\ hurt' = hurt)
    BY <1>1, CallHistory DEF StopService
  <1>4. updater.at \in {"stopApp", "stopWorker"} /\ UNCHANGED <<tables, db, postgres>>
    BY <1>1 DEF StopService, At
  <1>5. InPlace
    BY <1>4, NotAway DEF Tame, PlaceInv, Moving, Idle, Ending
  <1> QED
    BY <1>2, <1>3, <1>4, <1>5, QuietTame DEF Moving, Tame

LEMMA LoadTame ==
    ASSUME Known, Tame, LoadTask
    PROVE  Tame'
  <1>1. /\ updater.at = "load" /\ UNCHANGED <<tables, db, postgres>>
        /\ kept' = kept /\ hurt \subseteq hurt' /\ (faults' = 0 => faults = 0 /\ hurt' = hurt)
    BY CallHistory DEF LoadTask, At
  <1>2. CASE \E t \in Waiting : updater' = [updater EXCEPT !.at = "stopApp", !.task = t]
    <2>1. updater'.at = "stopApp" /\ updater'.late = updater.late
      BY <1>2 DEF Known, UpdaterKnown, Process
    <2>2. Live # None
      BY <1>2, TablesTyped DEF Waiting
    <2>3. InPlace
      BY <1>1, <2>2, NotAway DEF Tame, PlaceInv, Moving
    <2> QED
      BY <1>1, <2>1, <2>3, QuietTame DEF Moving, Tame
  <1>3. CASE Goto("ensure")
    BY <1>1, <1>3, Fields, QuietTame DEF Moving, Tame, Idle, Ending
  <1> QED
    BY <1>2, <1>3 DEF LoadTask

\* The steps once the database is where it belongs.
LEMMA EndsTame ==
    ASSUME Known, Tame, UNCHANGED <<tables, db, postgres>>,
           NEW what, UNCHANGED history \/ CallWorks \/ CallFails(what) \/ Fault(what),
           updater.at \in {"rest", "images"} \cup Ending, updater'.at \in {"images", "off"} \cup Ending,
           updater.at \in Ending => updater'.at \in Idle,
           updater'.late => updater.late
    PROVE  Tame'
  <1>1. kept' = kept /\ hurt \subseteq hurt' /\ (faults' = 0 => faults = 0 /\ hurt' = hurt)
    BY CallHistory
  <1>2. updater.at \notin Moving /\ updater'.at \notin Moving
    BY DEF Moving, Ending
  <1>3. InPlace \/ updater'.at \in Idle
    BY <1>2, NotAway DEF Tame, PlaceInv, Idle, Ending
  <1> QED
    BY <1>1, <1>2, <1>3, QuietTame DEF Tame

LEMMA RestTame ==
    ASSUME Known, Tame, UpdateOthers \/ \E s \in Service : UpdateImage(s)
    PROVE  Tame'
  <1>1. CASE UpdateOthers
    <2>1. updater'.at \in {"images", "backApp"} /\ updater'.late = updater.late
      BY <1>1, Fields DEF UpdateOthers, Known, UpdaterKnown, Process
    <2> QED
      BY <1>1, <2>1, EndsTame DEF UpdateOthers, At, Ending
  <1>2. CASE \E s \in Service : UpdateImage(s)
    <2>1. PICK s \in Service, f \in BOOLEAN : UpdateImage(s) /\ ImageDone(s, f)
      BY <1>2 DEF UpdateImage
    <2>2. updater.at = "images" /\ updater'.at \in {"images", "backApp"} /\ updater'.late = updater.late
      BY <2>1 DEF UpdateImage, At, ImageDone, Known, UpdaterKnown, Process
    <2>3. UNCHANGED <<tables, db, postgres>> /\ \E what : CallWorks \/ CallFails(what) \/ Fault(what)
      BY <2>1 DEF UpdateImage
    <2> QED
      BY <2>2, <2>3, EndsTame DEF Ending
  <1> QED
    BY <1>1, <1>2

LEMMA BackTame ==
    ASSUME Known, Tame, BackApp \/ BackWorker \/ EnsureApp \/ Shutdown
    PROVE  Tame'
  <1>1. PICK what : UNCHANGED history \/ Fault(what)
    BY DEF BackApp, BackWorker, BringBack, EnsureApp, Shutdown
  <1>2. updater.at \in Ending /\ updater'.at \in Idle \ {"load"} /\ (updater'.late => updater.late)
    BY Fields, ProcessTyped DEF BackApp, BackWorker, BringBack, EnsureApp, Shutdown, At, Ending, Idle
  <1>3. UNCHANGED <<tables, db, postgres>>
    BY DEF BackApp, BackWorker, BringBack, EnsureApp, Shutdown
  <1> QED
    BY <1>1, <1>2, <1>3, EndsTame DEF Idle

LEMMA SaveTame ==
    ASSUME Known, Run, Tame, SaveTask
    PROVE  Tame'
  <1>1. updater.at = "save" /\ updater'.at = "ensure" /\ ~updater'.late
    BY Fields DEF SaveTask, At, Tame
  <1>2. CASE UNCHANGED volume
    <2>1. PICK what : UNCHANGED history \/ Fault(what)
      BY DEF SaveTask
    <2> QED
      BY <1>1, <1>2, <2>1, EndsTame DEF SaveTask, tables, Ending, Idle
  <1>3. CASE /\ Live.tasks[updater.task] # "none" /\ UNCHANGED history
             /\ \E status \in {"done", "failed"} :
                    volume' = [volume EXCEPT ![db].tasks[updater.task] = status]
    <2>1. PICK status \in {"done", "failed"} :
                    volume' = [volume EXCEPT ![db].tasks[updater.task] = status]
      BY <1>3
    <2> DEFINE rows == [Live.tasks EXCEPT ![updater.task] = status]
               ts == [Live EXCEPT !.tasks = rows]
    <2>2. rows \in [Task -> {"none", "not_started", "done", "failed"}]
      BY LiveTyped DEF Tables
    <2>3. Live # None
      BY <1>1, <1>3, ArgsTyped, TablesTyped DEF OfTask
    <2>5. volume' = [volume EXCEPT ![db] = ts]
      BY <2>1, <2>3, LiveIsVolume
    <2> HIDE DEF rows
    <2>4. ts \in Tables /\ ts.shape = Live.shape /\ ts.data = Live.data
      BY <2>2, LiveTyped DEF Tables
    <2> HIDE DEF ts
    <2>6. UNCHANGED <<dump, record, db, postgres, hurt, faults, args, kept>> /\ kept \in Nat
      BY <1>3 DEF SaveTask, requests, history, Known, HistoryKnown
    <2> QED
      BY <1>1, <2>3, <2>4, <2>5, <2>6, WrittenTame DEF At
  <1> QED
    BY <1>2, <1>3 DEF SaveTask

\* An update that gives up after its first fault, with the database in its place.
LEMMA GivenUpTame ==
    ASSUME updater'.at = "backApp", ~updater'.late, faults' # 0, InPlace', Good(volume[record])'
    PROVE  Tame'
  <1>1. ~Away' /\ ~At("undo")' /\ ~At("move")'
    BY DEF Away, At
  <1> QED
    BY <1>1 DEF Tame, PlaceInv, DumpInv, UpInv, FirstFault, At

LEMMA BackupTame ==
    ASSUME Known, Run, Tame, OneFailedStep, OneFailedStep', Backup
    PROVE  Tame'
  <1>1. /\ updater.at = "backup" /\ ~Args.skip /\ ~updater.late
        /\ InPlace /\ InPlace' /\ Good(Live) /\ Good(volume[record]) /\ Live = volume[record]
        /\ UNCHANGED <<volume, record, db, postgres>>
    <2>1. updater.at = "backup" /\ UNCHANGED <<volume, record, db, postgres>>
      BY DEF Backup, At
    <2>2. ~Args.skip
      BY <2>1, ArgsTyped, LenProperties
      DEF OfTask, Updating, OneFailedStep, Args, Known, RequestsKnown
    <2>3. InPlace /\ Good(volume[record])
      BY <2>1, NotAway DEF Tame, PlaceInv, Moving, Idle, Ending
    <2> QED
      BY <2>1, <2>2, <2>3, PlaceTyped DEF Tame, InPlace
  <1>2. CASE CallWorks /\ dump' = Live /\ Goto("plan")
    <2>1. updater'.at = "plan" /\ ~updater'.late /\ UNCHANGED history
      BY <1>1, <1>2, Fields DEF CallWorks
    <2>2. ~Away /\ ~Away' /\ ~At("undo")' /\ ~At("move")' /\ ~At("wait")'
      BY <1>1, <2>1 DEF Away, At
    <2>3. PlaceInv'
      BY <1>1, <2>1, <2>2 DEF PlaceInv, Good, history
    <2>4. DumpInv' /\ UpInv'
      BY <1>1, <1>2, <2>1, <2>2 DEF DumpInv, UpInv, Good, history
    <2>5. FirstFault'
      <3>1. faults = 0 => dump'.shape = "clean"
        BY <1>1, <1>2 DEF Tame, FirstFault, Good, Known, TablesKnown
      <3>2. \A m \in Major : Ahead(m)' <=> Ahead(m)
        BY <1>1, <2>2 DEF Ahead
      <3> QED
        BY <1>1, <2>1, <3>1, <3>2 DEF Tame, FirstFault, history
    <2> QED
      BY <2>1, <2>3, <2>4, <2>5 DEF Tame
  <1>3. CASE CallFails("command") /\ Abandon("backApp")
    <2>1. faults' = 1 /\ kept' = kept
      BY <1>3, InTime
    <2> QED
      BY <1>1, <1>3, <2>1, Fields, GivenUpTame DEF Good
  <1> QED
    BY <1>1, <1>2, <1>3 DEF Backup

LEMMA PlanTame ==
    ASSUME Known, Run, Tame, OneFailedStep, OneFailedStep', PlanMajor
    PROVE  Tame'
  <1>1. /\ updater.at = "plan" /\ ~Args.skip /\ ~updater.late /\ ~Away
        /\ InPlace /\ InPlace' /\ Good(volume[record])
        /\ Good(dump) /\ UNCHANGED <<tables, db, postgres, kept>> /\ Live' = Live
    <2>1. /\ updater.at = "plan" /\ UNCHANGED <<tables, db, postgres, kept>>
      BY DEF PlanMajor, At, history, CallFails, Fault
    <2>2. ~Args.skip
      BY <2>1, ArgsTyped, LenProperties
      DEF OfTask, Updating, OneFailedStep, Args, Known, RequestsKnown
    <2>3. InPlace /\ Good(volume[record]) /\ ~Away
      BY <2>1 DEF Tame, PlaceInv, Idle, Ending, Away, At
    <2> QED
      BY <2>1, <2>2, <2>3 DEF Tame, DumpInv, InPlace, Live, tables
  <1>2. CASE /\ hurt' = IF Args.major < postgres THEN hurt \cup {"older"} ELSE hurt
             /\ UNCHANGED <<kept, faults>>
             /\ updater' = [updater EXCEPT !.at = "move", !.from = db, !.moves = (postgres # Args.major)]
    <2>1. hurt' = hurt /\ Args.major >= postgres /\ Args.major \in Nat
      <3>1. Args.major \in Major
        BY <1>1, ArgsTyped DEF OfTask, Updating, Request
      <3> QED
        BY <1>2, <3>1, PlaceTyped DEF OneFailedStep
    <2>2. /\ updater'.at = "move" /\ (updater'.moves <=> postgres # Args.major) /\ ~updater'.late
          /\ updater'.task = updater.task
      BY <1>1, <1>2 DEF Known, UpdaterKnown, Process
    <2>3. Args' = Args
      BY <2>2 DEF PlanMajor, requests, Args
    <2>4. ~Away /\ ~Away' /\ ~At("undo")' /\ ~At("wait")'
      BY <1>1, <2>2 DEF Away, At
    <2>5. PlaceInv'
      BY <1>1, <2>2, <2>4 DEF PlaceInv, Good, tables
    <2>6. DumpInv'
      BY <1>1 DEF DumpInv, Good, tables
    <2>7. UpInv'
      <3>1. At("move")' /\ updater'.moves => Args'.major > postgres'
        BY <1>1, <2>1, <2>2, <2>3, PlaceTyped
      <3> QED
        BY <2>4, <3>1 DEF UpInv
    <2>8. FirstFault'
      BY <1>1, <1>2, <2>1, <2>2, <2>4 DEF Tame, FirstFault, Ahead, tables
    <2> QED
      BY <2>2, <2>5, <2>6, <2>7, <2>8 DEF Tame
  <1>3. CASE CallFails("docker") /\ Abandon("backApp")
    <2>1. faults' = 1
      BY <1>3, InTime
    <2> QED
      BY <1>1, <1>3, <2>1, Fields, GivenUpTame DEF Good, tables
  <1> QED
    BY <1>1, <1>2, <1>3 DEF PlanMajor

LEMMA MoveTame ==
    ASSUME Known, Run, Tame, OneFailedStep', MoveDb
    PROVE  Tame'
  <1>1. /\ updater.at = "move" /\ ~updater.late /\ ~Away /\ InPlace
        /\ Good(volume[record]) /\ Good(dump)
        /\ updater.from = db /\ (updater.moves <=> postgres # Args.major)
        /\ Args.major \in Major /\ Args.major \in Nat
        /\ (updater.moves => Args.major > postgres /\ Args.major # record)
        /\ UNCHANGED <<tables, kept, args>>
    <2>1. updater.at = "move" /\ UNCHANGED <<tables, kept, args>>
      BY DEF MoveDb, At, CallWorks, CallFails, Fault, history, requests
    <2>2. InPlace /\ Good(volume[record]) /\ ~Away
      BY <2>1 DEF Tame, PlaceInv, Idle, Ending, Away, At
    <2>3. Args.major \in Major /\ Args.major \in Nat
      BY <2>1, ArgsTyped, PlaceTyped DEF OfTask, Updating, Request
    <2>4. updater.moves => Args.major > postgres /\ Args.major # record
      BY <2>1, <2>2, <2>3, PlaceTyped DEF Tame, UpInv, At
    <2> QED
      BY <2>1, <2>2, <2>3, <2>4 DEF Tame, DumpInv, Run, RunInv, At
  <1>2. CASE CallWorks /\ RollDb /\ Goto("wait")
    <2>1. /\ updater'.at = "wait" /\ updater'.moves = updater.moves /\ updater'.from = db
          /\ ~updater'.late /\ updater'.task = updater.task /\ UNCHANGED history
      BY <1>1, <1>2, Fields DEF CallWorks
    <2>2. (Away' <=> updater.moves) /\ ~At("undo")' /\ ~At("move")' /\ Args' = Args
      BY <1>1, <1>2, <2>1 DEF Away, At, Args
    <2>3. IF updater.moves THEN db' = Args.major /\ postgres' = Args.major
          ELSE UNCHANGED <<db, postgres>>
      BY <1>1, <1>2, PlaceTyped DEF RollDb
    <2>4. PlaceInv'
      BY <1>1, <2>1, <2>2, <2>3 DEF PlaceInv, InPlace, Good, tables
    <2>5. DumpInv' /\ UpInv'
      BY <1>1, <2>1, <2>2, <2>3 DEF DumpInv, UpInv, InPlace, Good, tables
    <2>6. FirstFault'
      <3>1. \A m \in Major : Ahead(m)' <=> Ahead(m)
        BY <1>1, <2>1, <2>2, <2>3 DEF Ahead, InPlace, At
      <3> QED
        BY <1>1, <2>1, <3>1 DEF Tame, FirstFault, tables, history
    <2> QED
      BY <2>1, <2>4, <2>5, <2>6 DEF Tame
  <1>3. CASE CallFails("docker") /\ UNCHANGED <<db, postgres>> /\ Abandon("backApp")
    <2>1. faults' = 1
      BY <1>3, InTime
    <2> QED
      BY <1>1, <1>3, <2>1, Fields, GivenUpTame DEF Good, InPlace, tables
  <1>4. CASE Fault("wait") /\ RollDb /\ Abandon("backApp")
    <2>1. faults = 0 /\ faults' = 1 /\ hurt' = hurt \cup {"wait"}
      BY <1>4, FirstToFail
    <2>2. updater'.at = "backApp" /\ ~updater'.late
      BY <1>1, <1>4, Fields
    <2>3. InPlace' \/ Live' = None
      <3>1. CASE Args.major > postgres
        <4>1. volume[Args.major] = None
          BY <1>1, <2>1, <3>1 DEF Tame, FirstFault, Ahead
        <4>2. db' = Args.major /\ postgres' = Args.major /\ volume' = volume
          BY <1>1, <1>4, <3>1 DEF RollDb, tables
        <4> QED
          BY <4>1, <4>2 DEF Live
      <3>2. CASE ~(Args.major > postgres)
        BY <1>1, <1>4, <3>2 DEF RollDb, InPlace, tables
      <3> QED
        BY <3>1, <3>2
    <2>4. ~Away' /\ ~At("undo")' /\ ~At("move")'
      BY <2>2 DEF Away, At
    <2>5. PlaceInv'
      BY <1>1, <2>1, <2>2, <2>3, <2>4 DEF PlaceInv, Good, tables, Idle, Ending
    <2> QED
      BY <2>1, <2>2, <2>4, <2>5 DEF Tame, DumpInv, UpInv, FirstFault
  <1> QED
    BY <1>2, <1>3, <1>4 DEF MoveDb

\* A good dump that is restored leaves good tables.
LEMMA RestoreTame ==
    ASSUME Known, Cluster(db) = postgres, Good(dump), RestoreDb, UNCHANGED <<kept, db, postgres>>
    PROVE  /\ Good(Live)' /\ \A v \in Volume : v # db => volume'[v] = volume[v]
           /\ Live' = volume'[db] /\ (Live = None => Live' = dump)
  <1>1. /\ dump # None /\ db \in Volume /\ volume \in [Volume -> Tables] /\ dump \in Tables
        /\ Live \in Tables
    BY GoodTyped, LiveTyped DEF Known, TablesKnown
  <1>2. volume' = [volume EXCEPT ![db] = Restored(dump, Live)]
    BY <1>1 DEF RestoreDb
  <1>3. Live' = Restored(dump, Live) /\ Live' = volume'[db]
    BY <1>1, <1>2 DEF Live
  <1>4. Good(Restored(dump, Live))
    BY <1>1 DEF Restored, Good, Tables
  <1> QED
    BY <1>1, <1>2, <1>3, <1>4 DEF Good, Restored

LEMMA AwaitTame ==
    ASSUME Known, Run, Tame, OneFailedStep', AwaitDb
    PROVE  Tame'
  <1>1. /\ updater.at = "wait" /\ ~updater.late /\ Good(volume[record]) /\ Good(dump)
        /\ UNCHANGED <<dump, record, db, postgres, kept, args>> /\ (Away <=> updater.moves)
        /\ (updater.moves => /\ record = updater.from /\ db # record /\ postgres = db
                             /\ db = Args.major /\ db > Cluster(updater.from))
        /\ (~updater.moves => InPlace)
        /\ record \in Volume /\ db \in Volume /\ volume \in [Volume -> Tables]
    <2>1. /\ updater.at = "wait" /\ UNCHANGED <<dump, record, db, postgres, kept, args>>
          /\ record \in Volume /\ db \in Volume /\ volume \in [Volume -> Tables]
      BY DEF AwaitDb, At, CallWorks, CallFails, Fault, history, requests, Known, TablesKnown
    <2>2. (Away <=> updater.moves) /\ ~At("undo")
      BY <2>1 DEF Away, At
    <2>3. PlaceInv /\ DumpInv /\ UpInv /\ ~updater.late
      BY DEF Tame
    <2> QED
      BY <2>1, <2>2, <2>3 DEF PlaceInv, DumpInv, UpInv, Idle, Ending
  <1>0. Cluster(db) = postgres
    BY <1>1, PlaceTyped, ClustersTyped, ArgsTyped DEF InPlace, OfTask, Updating, Request
  <1>2. CASE CallWorks /\ Goto("migrate") /\ updater.moves /\ RestoreDb
    <2>1. /\ updater'.at = "migrate" /\ updater'.moves /\ updater'.from = updater.from
          /\ ~updater'.late /\ updater'.task = updater.task /\ UNCHANGED history
      BY <1>1, <1>2, Fields DEF CallWorks
    <2>2. Away' /\ ~At("undo")' /\ ~At("move")' /\ ~At("wait")' /\ Args' = Args
      BY <1>1, <2>1 DEF Away, At, Args
    <2>3. /\ Good(Live)' /\ \A v \in Volume : v # db => volume'[v] = volume[v]
          /\ Live' = volume'[db] /\ (Live = None => Live' = dump)
      BY <1>0, <1>1, <1>2, RestoreTame
    <2>4. PlaceInv'
      BY <1>1, <1>2, <2>1, <2>2, <2>3 DEF PlaceInv, Good
    <2>5. DumpInv' /\ UpInv'
      BY <1>1, <1>2, <2>1, <2>2 DEF DumpInv, UpInv, Good
    <2>6. FirstFault'
      <3>1. ASSUME faults = 0
            PROVE  dump.shape = "clean" /\ Live = None
        <4>1. At("wait") /\ db \in Major /\ db > Cluster(updater.from)
          BY <1>1, <1>2, ArgsTyped DEF At, OfTask, Updating, Request
        <4>2. Ahead(db)
          BY <1>1, <1>2, <4>1 DEF Ahead
        <4> QED
          BY <1>0, <1>1, <3>1, <4>1, <4>2 DEF Tame, FirstFault, Live
      <3>2. \A m \in Major : Ahead(m)' => Ahead(m) /\ m # db
        BY <1>1, <1>2, <2>1, <2>2 DEF Ahead
      <3>3. faults' = faults /\ hurt' = hurt /\ dump' = dump
        BY <1>1, <2>1 DEF history
      <3>4. faults = 0 => \A v \in Volume : volume'[v].shape \in {"clean", "none"}
        BY <2>3, <3>1 DEF Tame, FirstFault
      <3> QED
        BY <2>1, <2>3, <3>1, <3>2, <3>3, <3>4, PlaceTyped DEF Tame, FirstFault
    <2> QED
      BY <2>1, <2>4, <2>5, <2>6 DEF Tame
  <1>3. CASE CallWorks /\ Goto("migrate") /\ ~updater.moves /\ UNCHANGED volume
    <2>1. /\ updater'.at = "migrate" /\ ~updater'.moves /\ ~updater'.late /\ UNCHANGED history
      BY <1>1, <1>3, Fields DEF CallWorks
    <2>2. ~Away' /\ ~Away /\ ~At("undo")' /\ ~At("move")'
      BY <1>1, <1>3, <2>1 DEF Away, At
    <2>3. PlaceInv' /\ DumpInv' /\ UpInv'
      BY <1>1, <1>3, <2>1, <2>2 DEF PlaceInv, DumpInv, UpInv, Good, InPlace
    <2>4. FirstFault'
      BY <1>1, <1>3, <2>1, <2>2 DEF Tame, FirstFault, Ahead, history
    <2> QED
      BY <2>1, <2>3, <2>4 DEF Tame
  <1>4. CASE /\ UNCHANGED volume /\ Abandon(IF updater.moves THEN "revert" ELSE "backApp")
             /\ CallFails("docker") \/ CallFails("command")
    <2>1. faults' = 1
      BY <1>4, InTime
    <2>2. CASE ~updater.moves
      BY <1>1, <1>4, <2>1, <2>2, Fields, GivenUpTame DEF Good, InPlace
    <2>3. CASE updater.moves
      <3>1. /\ updater'.at = "revert" /\ updater'.moves /\ updater'.from = updater.from /\ ~updater'.late
            /\ updater'.task = updater.task
        BY <1>1, <1>4, <2>3, Fields
      <3>2. Away' /\ ~At("undo")' /\ ~At("move")' /\ Args' = Args
        BY <1>1, <3>1 DEF Away, At, Args
      <3> QED
        BY <1>1, <1>4, <2>1, <2>3, <3>1, <3>2 DEF Tame, PlaceInv, DumpInv, UpInv, FirstFault, Good
    <2> QED
      BY <2>2, <2>3
  <1> QED
    BY <1>2, <1>3, <1>4 DEF AwaitDb

LEMMA MigrateTame ==
    ASSUME Known, Run, Tame, OneFailedStep', Migrate
    PROVE  Tame'
  <1>1. /\ updater.at = "migrate" /\ ~updater.late /\ Good(volume[record]) /\ Good(dump) /\ Good(Live)
        /\ UNCHANGED <<dump, record, db, postgres, kept, args>> /\ (Away <=> updater.moves)
        /\ (updater.moves => /\ record = updater.from /\ db # record /\ postgres = db
                             /\ db = Args.major /\ db > Cluster(updater.from))
        /\ (~updater.moves => InPlace)
        /\ record \in Volume /\ db \in Volume /\ volume \in [Volume -> Tables]
    <2>1. /\ updater.at = "migrate" /\ UNCHANGED <<dump, record, db, postgres, kept, args>>
          /\ record \in Volume /\ db \in Volume /\ volume \in [Volume -> Tables]
      BY DEF Migrate, At, CallWorks, CallFails, Fault, history, requests, Known, TablesKnown
    <2>2. (Away <=> updater.moves) /\ ~At("undo")
      BY <2>1 DEF Away, At
    <2>3. PlaceInv /\ DumpInv /\ UpInv /\ ~updater.late
      BY DEF Tame
    <2> QED
      BY <2>1, <2>2, <2>3 DEF PlaceInv, DumpInv, UpInv, Idle, Ending, InPlace, Live
  <1>0. Cluster(db) = postgres
    BY <1>1, PlaceTyped, ClustersTyped, ArgsTyped DEF InPlace, OfTask, Updating, Request
  <1>2. CASE /\ CallWorks /\ volume' = [volume EXCEPT ![db] = Migrated]
             /\ Goto(IF updater.moves THEN "record" ELSE "rest")
    <2>1. /\ updater'.at = (IF updater.moves THEN "record" ELSE "rest") /\ updater'.moves = updater.moves
          /\ updater'.from = updater.from /\ ~updater'.late /\ updater'.task = updater.task
          /\ UNCHANGED history
      BY <1>1, <1>2, Fields DEF CallWorks
    <2>2. /\ (Away' <=> updater.moves) /\ ~At("undo")' /\ ~At("move")' /\ ~At("wait")'
          /\ ~At("wait") /\ Args' = Args
      BY <1>1, <2>1 DEF Away, At, Args
    <2>3. /\ Good(Live)' /\ volume'[db].shape = "clean" /\ Good(volume[db])'
          /\ \A v \in Volume : v # db => volume'[v] = volume[v]
      <3>1. Migrated \in Tables /\ Migrated.data = Live.data /\ Migrated.shape = "clean"
        BY MigratedTyped
      <3>2. volume'[db] = Migrated /\ Live' = volume'[db]
        BY <1>0, <1>1, <1>2 DEF Live
      <3> QED
        BY <1>1, <1>2, <3>1, <3>2 DEF Good
    <2>4. PlaceInv'
      BY <1>1, <2>1, <2>2, <2>3 DEF PlaceInv, Good, InPlace
    <2>5. DumpInv'
      BY <1>1, <2>1, <2>2 DEF DumpInv
    <2>6. UpInv'
      BY <1>1, <2>1, <2>2 DEF UpInv
    <2>7. FirstFault'
      <3>1. \A m \in Major : Ahead(m)' => Ahead(m) /\ m # db
        BY <1>0, <1>1, <2>1, <2>2, PlaceTyped DEF Ahead
      <3>2. faults = 0 => \A v \in Volume : volume'[v].shape \in {"clean", "none"}
        BY <2>3 DEF Tame, FirstFault
      <3> QED
        BY <1>1, <2>1, <2>3, <3>1, <3>2, PlaceTyped DEF Tame, FirstFault, history
    <2> QED
      BY <2>1, <2>4, <2>5, <2>6, <2>7 DEF Tame
  <1>3. CASE /\ CallFails("command") \/ (Live.shape # "clean" /\ UNCHANGED history)
             /\ volume' \in {volume, [volume EXCEPT ![db] = MigratedHalf]}
             /\ Abandon(IF updater.moves THEN "revert" ELSE "undo")
    <2>1. faults' # 0
      <3>1. faults = 0 => Live.shape = "clean"
        BY <1>0, <1>1 DEF Tame, FirstFault, Good, Live
      <3> QED
        BY <1>3, <3>1, InTime DEF history
    <2>2. /\ updater'.at = (IF updater.moves THEN "revert" ELSE "undo") /\ updater'.moves = updater.moves
          /\ updater'.from = updater.from /\ ~updater'.late /\ updater'.task = updater.task
      BY <1>1, <1>3, Fields
    <2>3. /\ (Away' <=> updater.moves) /\ (At("undo")' <=> ~updater.moves)
          /\ ~At("move")' /\ ~At("wait")' /\ Args' = Args
      BY <1>1, <2>2 DEF Away, At, Args
    <2>4. \A v \in Volume : v # db => volume'[v] = volume[v]
      BY <1>1, <1>3
    <2>5. PlaceInv'
      BY <1>1, <2>2, <2>3, <2>4 DEF PlaceInv, InPlace, Good
    <2> QED
      BY <1>1, <2>1, <2>2, <2>3, <2>5 DEF Tame, DumpInv, UpInv, FirstFault, Good
  <1> QED
    BY <1>2, <1>3 DEF Migrate

LEMMA UndoTame ==
    ASSUME Known, Run, Tame, OneFailedStep', Undo
    PROVE  Tame'
  <1>1. updater.at = "undo" /\ ~updater.late /\ InPlace /\ Good(dump) /\ dump # Broken /\ faults # 0
    BY GoodTyped DEF Undo, At, Tame, PlaceInv, DumpInv, FirstFault
  <1>2. CallWorks /\ RestoreDb /\ UNCHANGED <<db, postgres, record>>
    BY <1>1, InTime DEF Undo
  <1>3. Good(Live)' /\ Live' = volume'[db] /\ faults' = faults
    BY <1>1, <1>2, RestoreTame DEF CallWorks, history, InPlace
  <1>4. InPlace' /\ Good(volume[record])'
    BY <1>1, <1>2, <1>3 DEF InPlace, Good
  <1> QED
    BY <1>1, <1>3, <1>4, Fields, GivenUpTame DEF Undo

LEMMA RevertTame ==
    ASSUME Known, Run, Tame, OneFailedStep', RevertMajor
    PROVE  Tame'
  <1>1. updater.at = "revert" /\ ~updater.late /\ updater.from = record /\ Good(volume[record]) /\ faults # 0
    BY DEF RevertMajor, At, Tame, PlaceInv, FirstFault, Away
  <1>2. CallWorks /\ db' = updater.from /\ postgres' = Cluster(updater.from)
    BY <1>1, InTime DEF RevertMajor
  <1>3. Good(volume[record])' /\ InPlace' /\ UNCHANGED <<faults, record>>
    BY <1>1, <1>2 DEF RevertMajor, CallWorks, history, tables, Good, InPlace
  <1> QED
    BY <1>1, <1>2, <1>3, Fields, GivenUpTame DEF RevertMajor

LEMMA RecordTame ==
    ASSUME Known, Run, Tame, OneFailedStep', RecordVolume
    PROVE  Tame'
  <1>1. /\ updater.at = "record" /\ ~updater.late /\ Good(volume[record]) /\ Good(Live) /\ updater.moves
        /\ record = updater.from /\ db # record /\ Away /\ Args.major \in Major
        /\ db = Args.major /\ postgres = db /\ db > Cluster(updater.from)
        /\ UNCHANGED <<volume, dump, db, postgres, kept, args>>
    <2>1. updater.at = "record" /\ UNCHANGED <<volume, dump, db, postgres, kept, args>>
      BY DEF RecordVolume, At, Fault, history, requests
    <2>2. PlaceInv /\ UpInv /\ ~updater.late /\ ~At("undo")
      BY <2>1 DEF Tame, At
    <2>3. Away
      BY <2>1, <2>2 DEF Away, PlaceInv
    <2>4. Args.major \in Major
      BY <2>1, ArgsTyped DEF OfTask, Updating, Request
    <2> QED
      BY <2>1, <2>2, <2>3, <2>4 DEF PlaceInv, UpInv
  <1>2. CASE record' = Args.major /\ Goto("rest") /\ UNCHANGED history
    <2>1. updater'.at = "rest" /\ ~updater'.late
      BY <1>1, <1>2, Fields
    <2>2. ~Away' /\ ~At("undo")' /\ ~At("move")' /\ ~At("wait") /\ ~At("wait")'
      BY <1>1, <2>1 DEF Away, At
    <2>3. InPlace' /\ Good(volume[record])'
      BY <1>1, <1>2, PlaceTyped DEF InPlace, Live, Good
    <2>4. PlaceInv' /\ DumpInv' /\ UpInv'
      BY <2>1, <2>2, <2>3 DEF PlaceInv, DumpInv, UpInv
    <2>5. FirstFault'
      <3>1. \A m \in Major : Ahead(m)' => Ahead(m)
        BY <1>1, <2>2, PlaceTyped, ClustersTyped DEF Ahead, Known, TablesKnown
      <3> QED
        BY <1>1, <1>2, <2>1, <3>1 DEF Tame, FirstFault, history
    <2> QED
      BY <2>1, <2>4, <2>5 DEF Tame
  <1>3. CASE Fault("command") /\ Abandon("revert") /\ UNCHANGED record
    <2>1. faults' = 1
      BY <1>3, FirstToFail
    <2>2. /\ updater'.at = "revert" /\ updater'.moves /\ updater'.from = updater.from /\ ~updater'.late
          /\ updater'.task = updater.task
      BY <1>1, <1>3, Fields
    <2>3. Away' /\ ~At("undo")' /\ ~At("move")' /\ Args' = Args
      BY <1>1, <2>2 DEF Away, At, Args
    <2> QED
      BY <1>1, <1>3, <2>1, <2>2, <2>3 DEF Tame, PlaceInv, DumpInv, UpInv, FirstFault, Good
  <1> QED
    BY <1>2, <1>3 DEF RecordVolume

LEMMA InitTame == Init => TameInv
  <1> SUFFICES ASSUME Init PROVE Tame
    BY DEF TameInv
  <1>1. updater.at = "off" /\ ~updater.late
    BY ProcessTyped DEF Init
  <1>2. ~Away /\ ~At("undo") /\ ~At("move")
    BY <1>1 DEF Away, At
  <1>3. /\ 0 \in Volume /\ Cluster(0) = 1 /\ \A m \in Major : m \in Volume /\ m # 0
    BY ClustersTyped
  <1>4. PlaceInv
    BY <1>1, <1>2, <1>3, TablesTyped DEF Init, PlaceInv, InPlace, Good, First
  <1>5. FirstFault
    BY <1>1, <1>2, <1>3, TablesTyped DEF Init, FirstFault, Ahead
  <1> QED
    BY <1>1, <1>2, <1>4, <1>5 DEF Tame, DumpInv, UpInv

LEMMA TameKept ==
    ASSUME Known, Run, TameInv, [Next]_vars
    PROVE  TameInv'
  <1> SUFFICES ASSUME OneFailedStep' PROVE Tame'
    BY DEF TameInv
  <1>1. Tame /\ OneFailedStep
    BY NoneGetsBetter DEF TameInv
  <1>2. CASE \E r \in Release, m \in Major, skip \in Skips : RequestUpdate(r, m, skip)
    BY <1>1, <1>2, RequestTame
  <1>3. CASE CommitRequest \/ LoseRequest \/ HourPasses \/ Deploy
                \/ \E s \in Service : Write(s) \/ ContainersStop(s)
    BY <1>1, <1>3, OthersTame
  <1>4. CASE UpdaterStep
    BY <1>1, <1>4, LoadTame, StopsTame, BackupTame, PlanTame, MoveTame, AwaitTame, MigrateTame, UndoTame,
       RevertTame, RecordTame, RestTame, BackTame, SaveTame DEF UpdaterStep
  <1>5. CASE Deadline \/ Crash
    BY <1>5 DEF Deadline, Crash, Fault, OneFailedStep
  <1>6. CASE UNCHANGED vars
    BY <1>1, <1>6 DEF vars, Tame, PlaceInv, DumpInv, UpInv, FirstFault, Good, Away, At, Live, Args,
       InPlace, Ahead, tables, requests, history
  <1> QED
    BY <1>2, <1>3, <1>4, <1>5, <1>6 DEF Next

LEMMA TameAlways == Spec => []TameInv
  BY InitTame, TameKept, KnownAlways, RunAlways, PTL DEF Spec

\* While the app serves, the database is in its place, or the new cluster was
\* never loaded.
LEMMA Serving ==
    ASSUME Known, Run, TameInv, OneFailedStep, replicas["app"] > 0
    PROVE  \/ InPlace /\ Good(Live)
           \/ "wait" \in hurt /\ Live = None
  <1>1. updater.at \notin Down
    BY DEF Run, RunInv, Service
  <1>2. ~Away /\ ~At("undo")
    BY <1>1 DEF Away, At, Down
  <1> QED
    BY <1>2, PlaceTyped DEF TameInv, Tame, PlaceInv

\* Nothing the app and the worker wrote before they were told to stop is lost,
\* whichever one step of the updates fails.
THEOREM NothingIsLost == Spec => []KeptIfBackedUp
  <1>1. Known /\ Run /\ TameInv => KeptIfBackedUp
    BY Serving, GoodTyped DEF KeptIfBackedUp, NothingKeptIsLost, Good
  <1> QED
    BY <1>1, KnownAlways, RunAlways, TameAlways, PTL

\* The app that comes back finds no schema that was migrated by half.
THEOREM NoneIsHalfMigrated == Spec => []NoHalfSchema
  <1>1. Known /\ Run /\ TameInv => NoHalfSchema
    BY Serving, GoodTyped, TablesTyped DEF NoHalfSchema
  <1> QED
    BY <1>1, KnownAlways, RunAlways, TameAlways, PTL
=============================================================================
