---------------------------- MODULE SystemUpdate ----------------------------
(***************************************************************************)
(* The update of HivePaaS by itself.  A request served by the app stores a *)
(* task and turns the updater service on; the updater (tasksystemupdate,   *)
(* sysupdateservice) stops the app and the worker, dumps the database,     *)
(* moves it to its new major version if the release does, migrates it,     *)
(* updates the other services, the app and the worker, brings back the two *)
(* and turns itself off.  Swarm starts it again if it dies.                *)
(*                                                                         *)
(* The task is a row of the database the update moves, migrates and puts   *)
(* back, so what the tables hold is a record per volume and per dump.      *)
(*                                                                         *)
(* Releases are numbered as they were cut, and all their images are in one *)
(* repository.  The updater is moved to a release by whoever asks for it,  *)
(* so it may be another's than the task's it runs.  Volume 0 is the one of *)
(* the installation, of postgres 1; a major upgrade names the others.      *)
(***************************************************************************)
EXTENDS Naturals, Sequences

CONSTANTS
    Major,          \* the postgres majors releases name
    Skips,          \* whether an update is asked to skip the backup
    MaxReleases,    \* bound: releases
    MaxUpdates,     \* bound: requests
    MaxWrites,      \* bound: what the app and the worker write
    MaxFaults       \* bound: for each kind of mishap, how many faults there are in a
                    \* behaviour with one of the kind: docker refuses a call or rolls
                    \* it back, the wait for a rollout fails, a command of postgres
                    \* fails, the task's hour passes, the updater is killed; and, no
                    \* fault, the update is to a release of an older postgres major

Mishap == {"docker", "wait", "command", "deadline", "killed", "older"}

ASSUME SystemUpdateAssumption ==
    /\ Major \in SUBSET (Nat \ {0}) /\ 1 \in Major /\ Skips \subseteq BOOLEAN
    /\ MaxReleases \in Nat /\ MaxUpdates \in Nat /\ MaxWrites \in Nat
    /\ MaxFaults \in [Mishap -> Nat]

VARIABLES
    volume,         \* [Volume -> Tables] what the tables on a volume hold
    dump,           \* what the dump of the last backup holds
    record,         \* the volume db-volume.env names for the next deploy
    db,             \* the volume the db service is on
    postgres,       \* the major of its image
    replicas,       \* [Service -> Nat] of the app's and the worker's service
    image,          \* [Image -> Nat] the release a service is at, the updater's too
    up,             \* the services with containers that still run
    on,             \* the updater's service is at one replica
    updater,        \* its process, if it runs
    args,           \* the requests so far, in order
    asked,          \* the request whose transaction is open, or 0
    fresh,          \* the tasks made within the hour
    written,        \* the last thing written
    kept,           \* history: the last written by a service not told to stop
    faults,         \* how many faults there were
    hurt            \* history: and which kinds of mishap

tables == <<volume, dump, record>>
services == <<replicas, image, up>>
requests == <<args, asked, fresh>>
history == <<kept, faults, hurt>>
vars == <<tables, db, postgres, services, on, updater, requests, written, history>>

-----------------------------------------------------------------------------
Service == {"app", "worker"}
Image == Service \cup {"updater"}
Release == 1 .. MaxReleases
Volume == {0} \cup Major
Replicas == 2                   \* how many of each there are to begin with
Task == 1 .. MaxUpdates

(***************************************************************************)
(* The tables: the last thing written, the release of the schema, its      *)
(* shape - "left" has objects of migrations that were undone beside it -   *)
(* and the update tasks.  A cluster just made has none, a dump cut short   *)
(* cannot be restored.                                                     *)
(***************************************************************************)
Tables == [data : Nat, schema : Nat, shape : {"clean", "half", "left", "none", "broken"},
           tasks : [Task -> {"none", "not_started", "done", "failed"}]]
First == [data |-> 0, schema |-> 0, shape |-> "clean", tasks |-> [t \in Task |-> "none"]]
None == [First EXCEPT !.shape = "none"]
Broken == [First EXCEPT !.shape = "broken"]

\* The major of the clusters on a volume.
Cluster(v) == IF v = 0 THEN 1 ELSE v

\* Postgres does not start on a cluster of another major.
Live == IF Cluster(db) = postgres THEN volume[db] ELSE None
Waiting == {t \in Task : Live.tasks[t] = "not_started"}

(***************************************************************************)
(* The updater's process: where it is, the task, the replicas found before *)
(* they were changed, the volume left behind, whether the database moves,  *)
(* whether a step failed, whether the task's hour is over and which images *)
(* are still to be moved.                                                  *)
(***************************************************************************)
Stopped == [at |-> "off", task |-> 0, was |-> [s \in Service |-> 0], from |-> 0,
            moves |-> FALSE, failed |-> FALSE, late |-> FALSE, todo |-> {}]
Booting == [Stopped EXCEPT !.at = "load"]
Updating == {"stopApp", "stopWorker", "backup", "plan", "move", "wait", "migrate",
             "undo", "revert", "record", "rest", "images"}
Ending == {"backApp", "backWorker", "save", "ensure", "shutdown"}

Process == [at : {"off", "load"} \cup Updating \cup Ending, task : 0 .. MaxUpdates,
            was : [Service -> 0 .. Replicas], from : Volume, moves : BOOLEAN,
            failed : BOOLEAN, late : BOOLEAN, todo : SUBSET Service]

Request == [release : Release, major : Major, skip : BOOLEAN]

At(here) == updater.at = here
Goto(there) == updater' = [updater EXCEPT !.at = there]
Abandon(there) == updater' = [updater EXCEPT !.at = there, !.failed = TRUE]
Args == args[updater.task]

\* A fault of this kind happens.
Fault(what) ==
    /\ \A kind \in hurt \cup {what} : faults < MaxFaults[kind]
    /\ faults' = faults + 1
    /\ hurt' = hurt \cup {what}
    /\ UNCHANGED kept

\* A call made for the update fails: refused, or past the task's deadline.
CallFails(what) == Fault(what) \/ (updater.late /\ UNCHANGED history)
CallWorks == ~updater.late /\ UNCHANGED history

Init ==
    /\ volume = [v \in Volume |-> IF v = 0 THEN First ELSE None]
    /\ dump = None /\ record = 0 /\ db = 0 /\ postgres = 1
    /\ replicas = [s \in Service |-> Replicas]
    /\ image = [i \in Image |-> 0]
    /\ up = Service
    /\ on = FALSE /\ updater = Stopped
    /\ args = <<>> /\ asked = 0 /\ fresh = {}
    /\ written = 0 /\ kept = 0 /\ faults = 0 /\ hurt = {}

-----------------------------------------------------------------------------
\* Swarm starts the process of a service just turned on or changed; one that
\* runs is replaced.
TurnOn == on' = TRUE /\ updater' = Booting

\* A release is asked for that is newer than the app: none may wait that was asked
\* for within the hour, and one of a newer postgres major has to take a backup.  The
\* updater is moved to it and turned on, or killed if it still runs, before the
\* task is stored.
RequestUpdate(release, major, skip) ==
    /\ "app" \in up /\ replicas["app"] > 0 /\ Live # None
    /\ asked = 0 /\ Len(args) < MaxUpdates
    /\ release > image["app"]
    /\ \A t \in DOMAIN args : args[t].release = release => args[t].major = major
    /\ major > postgres => ~skip
    /\ Waiting \cap fresh = {}
    /\ args' = Append(args, [release |-> release, major |-> major, skip |-> skip])
    /\ asked' = Len(args) + 1
    /\ image' = [image EXCEPT !["updater"] = release]
    /\ TurnOn
    /\ hurt' = IF updater.task # 0 THEN hurt \cup {"killed"} ELSE hurt
    /\ UNCHANGED <<tables, db, postgres, replicas, up, fresh, written, kept, faults>>

CommitRequest ==
    /\ asked # 0 /\ "app" \in up /\ Live # None
    /\ volume' = [volume EXCEPT ![db].tasks[asked] = "not_started"]
    /\ fresh' = fresh \cup {asked}
    /\ asked' = 0
    /\ UNCHANGED <<dump, record, db, postgres, services, on, updater, args, written, history>>

\* The app's containers stopped, or the database moved, before it.
LoseRequest ==
    /\ asked # 0 /\ ("app" \notin up \/ Live = None)
    /\ asked' = 0
    /\ UNCHANGED <<tables, db, postgres, services, on, updater, args, fresh, written, history>>

\* The hour within which a request is refused is also the one an update has.
HourPasses ==
    /\ Waiting \cap fresh # {} /\ fresh' = {}
    /\ At("off") \/ updater.late
    /\ UNCHANGED <<tables, db, postgres, services, on, updater, args, asked, written, history>>

\* Scaled to none, a service has the ten minutes of its grace period to stop.
Write(s) ==
    /\ s \in up /\ Live # None /\ written < MaxWrites
    /\ written' = written + 1
    /\ volume' = [volume EXCEPT ![db].data = written']
    /\ kept' = IF replicas[s] > 0 THEN written' ELSE kept
    /\ UNCHANGED <<dump, record, db, postgres, services, on, updater, requests, faults, hurt>>

ContainersStop(s) ==
    /\ s \in up /\ replicas[s] = 0
    /\ up' = up \ {s}
    /\ UNCHANGED <<tables, db, postgres, replicas, image, on, updater, requests, written, history>>

\* The operator deploys the stack again: the db service goes where the record says,
\* at the image it has.
Deploy ==
    /\ At("off") /\ asked = 0 /\ db # record
    /\ db' = record /\ UNCHANGED postgres
    /\ on' = FALSE
    /\ UNCHANGED <<tables, services, updater, requests, written, history>>

-----------------------------------------------------------------------------
(***************************************************************************)
(* The updater: Execute, SysUpdate and Start, one action per step.         *)
(***************************************************************************)

\* Execute: the last task that waits, if the database answers.
LoadTask ==
    /\ At("load")
    /\ \/ /\ \E t \in Waiting : /\ \A u \in Waiting : u <= t
                                /\ updater' = [updater EXCEPT !.at = "stopApp", !.task = t]
          /\ UNCHANGED history
       \/ Waiting = {} /\ Goto("ensure") /\ UNCHANGED history
       \/ Fault("command") /\ Goto("ensure")
    /\ UNCHANGED <<tables, db, postgres, services, on, requests, written>>

Scale(s, n) ==
    /\ replicas' = [replicas EXCEPT ![s] = n]
    /\ up' = IF n > 0 THEN up \cup {s} ELSE up
    /\ UNCHANGED image

\* stopServices: the replicas are remembered before they are changed.
StopService(s, here, there) ==
    /\ At(here)
    /\ \/ CallWorks /\ Scale(s, 0)
          /\ updater' = [updater EXCEPT !.at = there, !.was[s] = replicas[s]]
       \/ CallFails("docker") /\ UNCHANGED services
          /\ \E n \in {0, replicas[s]} :
                updater' = [updater EXCEPT !.at = "backApp", !.failed = TRUE, !.was[s] = n]
    /\ UNCHANGED <<tables, db, postgres, on, requests, written>>

\* onBeforeSystemUpdate.  A dump that fails leaves what it wrote of the file.
Backup ==
    /\ At("backup")
    /\ \/ Args.skip /\ Goto("plan") /\ UNCHANGED <<dump, history>>
       \/ ~Args.skip /\ CallWorks /\ dump' = Live /\ Goto("plan")
       \/ ~Args.skip /\ CallFails("command") /\ dump' \in {dump, Broken} /\ Abandon("backApp")
    /\ UNCHANGED <<volume, record, db, postgres, services, on, requests, written>>

\* planDbMajorUpgrade.  Any other major is one to move to, an older one too.
PlanMajor ==
    /\ At("plan")
    /\ LET moves == postgres # Args.major IN
       \/ /\ ~updater.late /\ ~(moves /\ Args.skip)
          /\ hurt' = IF Args.major < postgres THEN hurt \cup {"older"} ELSE hurt
          /\ UNCHANGED <<kept, faults>>
          /\ updater' = [updater EXCEPT !.at = "move", !.from = db, !.moves = moves]
       \/ UNCHANGED history /\ moves /\ Args.skip /\ Abandon("backApp")
       \/ CallFails("docker") /\ Abandon("backApp")
    /\ UNCHANGED <<tables, db, postgres, services, on, requests, written>>

\* The service gets a newer image, and with one of a newer major its volume; an
\* older one is skipped.
RollDb ==
    IF Args.major > postgres THEN db' = Args.major /\ postgres' = Args.major
    ELSE UNCHANGED <<db, postgres>>

\* updateServiceImage of the db service.  If the wait for the rollout fails,
\* it has been sent all the same.
MoveDb ==
    /\ At("move")
    /\ \/ CallWorks /\ RollDb /\ Goto("wait")
       \/ CallFails("docker") /\ UNCHANGED <<db, postgres>> /\ Abandon("backApp")
       \/ Args.major >= postgres /\ Fault("wait") /\ RollDb /\ Abandon("backApp")
    /\ UNCHANGED <<tables, services, on, requests, written>>

\* pg_restore --clean: what the dump holds, and what it does not know is left.
Restored(from, onto) ==
    IF onto = None \/ from.shape = "half" \/ (onto.shape = "clean" /\ onto.schema = from.schema)
    THEN from ELSE [from EXCEPT !.shape = "left"]

\* restoreDB: nothing is done if there is no file.
RestoreDb ==
    /\ dump # Broken
    /\ volume' = IF dump = None THEN volume ELSE [volume EXCEPT ![db] = Restored(dump, Live)]

\* The cluster runs, and is loaded if the database was to move.
AwaitDb ==
    /\ At("wait")
    /\ \/ CallWorks /\ Goto("migrate")
          /\ IF updater.moves THEN RestoreDb ELSE UNCHANGED volume
       \/ \/ CallFails("docker")
          \/ updater.moves /\ CallFails("command")
          /\ UNCHANGED volume
          /\ Abandon(IF updater.moves THEN "revert" ELSE "backApp")
    /\ UNCHANGED <<dump, record, db, postgres, services, on, requests, written>>

\* The migrations are those of the updater's own image: none is undone.
Migrations == image["updater"]
Migrated == [Live EXCEPT !.schema = IF @ < Migrations THEN Migrations ELSE @, !.shape = "clean"]
MigratedHalf == [Live EXCEPT !.shape = "half"]

\* Faulty: a failed migration is left as it is.
MigrateNotUndone ==
    /\ At("migrate") /\ Live # None
    /\ \/ CallWorks /\ volume' = [volume EXCEPT ![db] = Migrated]
          /\ Goto(IF updater.moves THEN "record" ELSE "rest")
       \/ \/ CallFails("command")
          \/ Live.shape # "clean" /\ UNCHANGED history
          /\ volume' \in {volume, [volume EXCEPT ![db] = MigratedHalf]}
          /\ Abandon(IF updater.moves THEN "revert" ELSE "backApp")
    /\ UNCHANGED <<dump, record, db, postgres, services, on, requests, written>>

\* migrateDBSchema and migrateDBData.  What is not clean may fail them; a command
\* that fails may be one refused for migrations the updater does not know.
Migrate ==
    /\ At("migrate") /\ Live # None
    /\ \/ CallWorks /\ volume' = [volume EXCEPT ![db] = Migrated]
          /\ Goto(IF updater.moves THEN "record" ELSE "rest")
       \/ \/ CallFails("command")
          \/ Live.shape # "clean" /\ UNCHANGED history
          /\ volume' \in {volume, [volume EXCEPT ![db] = MigratedHalf]}
          /\ Abandon(IF updater.moves THEN "revert" ELSE "undo")
    /\ UNCHANGED <<dump, record, db, postgres, services, on, requests, written>>

\* An ordinary update's migration is undone from the dump.
Undo ==
    /\ At("undo") /\ Goto("backApp")
    /\ \/ CallWorks /\ RestoreDb
       \/ CallFails("command") /\ UNCHANGED volume
       \/ dump = Broken /\ UNCHANGED <<volume, history>>
    /\ UNCHANGED <<dump, record, db, postgres, services, on, requests, written>>

\* revertDbMajorUpgrade: the service goes back to where it was, which is where it is
\* if it was not moved.
RevertMajor ==
    /\ At("revert") /\ Goto("backApp")
    /\ \/ CallWorks /\ db' = updater.from /\ postgres' = Cluster(updater.from)
       \/ CallFails("docker") /\ UNCHANGED <<db, postgres>>
    /\ UNCHANGED <<tables, services, on, requests, written>>

\* Faulty: the volume the database moved to is not recorded.
RecordVolumeNot ==
    /\ At("record") /\ Goto("rest")
    /\ UNCHANGED <<tables, db, postgres, services, on, requests, written, history>>

\* recordDbVolume: a file is written that names the volume of the plan.
RecordVolume ==
    /\ At("record")
    /\ \/ record' = Args.major /\ Goto("rest") /\ UNCHANGED history
       \/ Fault("command") /\ Abandon("revert") /\ UNCHANGED record
    /\ UNCHANGED <<volume, dump, db, postgres, services, on, requests, written>>

\* Redis, traefik, the system apps and the agent.
UpdateOthers ==
    /\ At("rest")
    /\ \/ CallWorks /\ updater' = [updater EXCEPT !.at = "images", !.todo = Service]
       \/ CallFails("docker") /\ Abandon("backApp")
    /\ UNCHANGED <<tables, db, postgres, services, on, requests, written>>

\* The app and the worker are moved side by side, each for itself.
ImageDone(s, failed) ==
    updater' = [updater EXCEPT !.todo = @ \ {s}, !.failed = @ \/ failed,
                               !.at = IF updater.todo = {s} THEN "backApp" ELSE @]

Newer(s) == Args.release > image[s]

MoveImage(s) ==
    /\ image' = [image EXCEPT ![s] = Args.release]
    /\ replicas' = [replicas EXCEPT ![s] = updater.was[s]]
    /\ up' = IF updater.was[s] > 0 THEN up \cup {s} ELSE up

\* Faulty: a rollout swarm rolled back is taken for one done.
UpdateImageRolledBack(s) ==
    /\ At("images") /\ s \in updater.todo
    /\ \/ CallWorks /\ IF Newer(s) THEN MoveImage(s) ELSE UNCHANGED services
       \/ CallFails("docker") /\ UNCHANGED services
       \/ Newer(s) /\ Fault("wait") /\ MoveImage(s)
    /\ ImageDone(s, FALSE)
    /\ UNCHANGED <<tables, db, postgres, on, requests, written>>

\* A service that is not at an older release is skipped.  Rolled back, one is as it
\* was before the rollout: at no replicas.
UpdateImage(s) ==
    /\ At("images") /\ s \in updater.todo
    /\ \/ CallWorks /\ Newer(s) /\ MoveImage(s) /\ ImageDone(s, FALSE)
       \/ CallWorks /\ ~Newer(s) /\ UNCHANGED services /\ ImageDone(s, FALSE)
       \/ CallFails("docker") /\ UNCHANGED services /\ ImageDone(s, TRUE)
       \/ Newer(s) /\ Fault("wait") /\ MoveImage(s) /\ ImageDone(s, TRUE)
    /\ UNCHANGED <<tables, db, postgres, on, requests, written>>

\* Faulty: the services are brought back through the task's own deadline.
BringBackInTime(s, here, there) ==
    /\ At(here)
    /\ \/ ~updater.late /\ Goto(there) /\ UNCHANGED history
          /\ IF updater.was[s] > 0 THEN Scale(s, updater.was[s]) ELSE UNCHANGED services
       \/ CallFails("docker") /\ Abandon("save") /\ UNCHANGED services
    /\ UNCHANGED <<tables, db, postgres, on, requests, written>>

\* onAfterSystemUpdate, in a deadline of its own.
BringBack(s, here, there) ==
    /\ At(here)
    /\ \/ Goto(there) /\ UNCHANGED history
          /\ IF updater.was[s] > 0 THEN Scale(s, updater.was[s]) ELSE UNCHANGED services
       \/ updater.was[s] > 0 /\ Fault("docker") /\ Abandon("save") /\ UNCHANGED services
    /\ UNCHANGED <<tables, db, postgres, on, requests, written>>

\* The task is stored where the db service is now, if its row is there; if it
\* cannot be, that is as if it had never run.
SaveTask ==
    /\ At("save") /\ Goto("ensure")
    /\ \/ UNCHANGED history
          /\ volume' = IF Live.tasks[updater.task] = "none" THEN volume
                       ELSE [volume EXCEPT ![db].tasks[updater.task] =
                                IF updater.failed THEN "failed" ELSE "done"]
       \/ Fault("command") /\ UNCHANGED volume
    /\ UNCHANGED <<dump, record, db, postgres, services, on, requests, written>>

\* Faulty: nothing is ensured by a process that found no task.
EnsureAppOfTask ==
    /\ At("ensure") /\ Goto("shutdown")
    /\ IF replicas["app"] = 0 /\ updater.task # 0 THEN Scale("app", 1) ELSE UNCHANGED services
    /\ UNCHANGED <<tables, db, postgres, on, requests, written, history>>

\* ensureAppIsBack: one replica is enough to serve the dashboard.
EnsureApp ==
    /\ At("ensure") /\ Goto("shutdown")
    /\ \/ UNCHANGED history
          /\ IF replicas["app"] = 0 THEN Scale("app", 1) ELSE UNCHANGED services
       \/ replicas["app"] = 0 /\ Fault("docker") /\ UNCHANGED services
    /\ UNCHANGED <<tables, db, postgres, on, requests, written>>

\* Faulty: the service is off, and its process goes on.
ShutdownLeftRunning ==
    /\ At("shutdown")
    /\ on' = FALSE
    /\ UNCHANGED <<tables, db, postgres, services, updater, requests, written, history>>

\* ShutdownHpUpdaterSwarmService, then the process ends itself, as one that did
\* not fail: swarm starts no other even if the service is still on.
Shutdown ==
    /\ At("shutdown") /\ updater' = Stopped
    /\ \/ on' = FALSE /\ UNCHANGED history
       \/ Fault("docker") /\ UNCHANGED on
    /\ UNCHANGED <<tables, db, postgres, services, requests, written>>

-----------------------------------------------------------------------------
\* The task's hour is over.
Deadline ==
    /\ updater.at \in Updating /\ ~updater.late
    /\ Fault("deadline")
    /\ updater' = [updater EXCEPT !.late = TRUE]
    /\ UNCHANGED <<tables, db, postgres, services, on, requests, written>>

\* The process is killed; swarm starts another.
Crash ==
    /\ on /\ ~At("off")
    /\ Fault("killed")
    /\ updater' = Booting
    /\ dump' \in IF At("backup") THEN {dump, Broken} ELSE {dump}
    /\ volume' \in IF At("migrate") THEN {volume, [volume EXCEPT ![db] = MigratedHalf]} ELSE {volume}
    /\ UNCHANGED <<record, db, postgres, services, on, requests, written>>

StopApp == StopService("app", "stopApp", "stopWorker")
StopWorker == StopService("worker", "stopWorker", "backup")
BackApp == BringBack("app", "backApp", "backWorker")
BackWorker == BringBack("worker", "backWorker", "save")

UpdaterStep ==
    \/ LoadTask \/ StopApp \/ StopWorker \/ Backup \/ PlanMajor \/ MoveDb \/ AwaitDb
    \/ Migrate \/ Undo \/ RevertMajor \/ RecordVolume \/ UpdateOthers
    \/ \E s \in Service : UpdateImage(s)
    \/ BackApp \/ BackWorker \/ SaveTask \/ EnsureApp \/ Shutdown

Next ==
    \/ \E r \in Release, m \in Major, skip \in Skips : RequestUpdate(r, m, skip)
    \/ CommitRequest \/ LoseRequest \/ HourPasses \/ Deploy
    \/ \E s \in Service : Write(s) \/ ContainersStop(s)
    \/ UpdaterStep \/ Deadline \/ Crash

Spec == Init /\ [][Next]_vars

\* The updater's process runs while swarm keeps it.
FairSpec == Spec /\ WF_vars(UpdaterStep)

-----------------------------------------------------------------------------
\* Every variable has its type.
TypeOK ==
    /\ volume \in [Volume -> Tables] /\ dump \in Tables
    /\ record \in Volume /\ db \in Volume /\ postgres \in Major
    /\ replicas \in [Service -> 0 .. Replicas] /\ image \in [Image -> 0 .. MaxReleases]
    /\ up \subseteq Service /\ on \in BOOLEAN
    /\ updater \in Process /\ updater.task <= Len(args) /\ (At("off") \/ on)
    /\ args \in Seq(Request) /\ Len(args) <= MaxUpdates
    /\ asked \in 0 .. Len(args) /\ fresh \subseteq 1 .. Len(args)
    /\ written \in Nat /\ kept \in 0 .. written
    /\ faults \in Nat /\ hurt \subseteq Mishap

\* Whenever the app serves, the database is one that holds all it and the worker
\* wrote before they were told to stop.  update_db_backup.go says of restoreDB
\* that it "puts the database back from the dump taken before the update".
NothingKeptIsLost == replicas["app"] > 0 => Live # None /\ Live.data >= kept

\* At most one step has failed, every update has taken its dump, and none was to a
\* release of an older postgres major.
OneFailedStep ==
    /\ faults <= 1
    /\ \A t \in DOMAIN args : ~args[t].skip
    /\ hurt \cap {"killed", "deadline", "older"} = {}

\* It is so as long as no update skipped its backup or named an older postgres, the
\* updater was not killed, did not run out of time and did see the database's
\* rollout end: through a failed step, a migration undone, a move put back, a stack
\* deployed again.
KeptIfBackedUp == OneFailedStep /\ "wait" \notin hurt => NothingKeptIsLost

\* With a dump to go back to and one step that fails, the app that comes back
\* finds no schema that was migrated by half.
NoHalfSchema == OneFailedStep /\ replicas["app"] > 0 => Live.shape # "half"

\* A major upgrade finds the cluster it moves to empty, as updateDbService says.
NewClusterIsEmpty == At("wait") /\ updater.moves /\ postgres = Args.major => Live = None

\* The volume a deploy is pointed at is one the database was moved to: to point it
\* at another, updateDbService says, "would be worse than pointing it at the old one".
RecordIsMovedTo == record # 0 => volume[record] # None

\* A task stored as done did all of it: the database has every migration the updater
\* came with, the app and the worker run the task's release or a newer one, as many
\* as there were.
OutcomeIsTrue ==
    [][\A t \in Task : At("save") /\ Live.tasks[t] # "done" /\ Live'.tasks[t] = "done" =>
          /\ t = updater.task /\ Live.schema >= Migrations /\ Live.shape = "clean"
          /\ \A s \in Service : image[s] >= Args.release /\ replicas[s] = updater.was[s]]_vars

\* The database has every migration of the release the task moved the app to.
DoneIsMigrated ==
    [][\A t \in Task : At("save") /\ Live.tasks[t] # "done" /\ Live'.tasks[t] = "done" =>
          Live.schema >= args[t].release]_vars

\* However an update ends - killed, out of time, refused - the updater goes and
\* the app is back (EnsureHpAppRunning), unless docker refuses both attempts.
AppComesBack == []<>(At("off") /\ (replicas["app"] > 0 \/ (faults > 1 /\ "docker" \in hurt)))

\* The worker too, unless the process that knew how many there were was killed
\* or a call to docker failed.
WorkerComesBack == []<>(replicas["worker"] = Replicas \/ hurt \cap {"killed", "docker"} # {})
=============================================================================
