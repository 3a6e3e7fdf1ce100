----------------------------- MODULE Migrations -----------------------------
(***************************************************************************)
(* transmogr-init: jobs that migrate the state schema of one database up or  *)
(* down, possibly several at a time and dying at any point.                  *)
(*                                                                         *)
(* A migration is its version.  `objects` counts how often a migration's      *)
(* objects exist in the database; a job inside a transaction works on a      *)
(* draft of the database that Commit makes the database.  The advisory lock  *)
(* belongs to the job's connection and goes with it.                         *)
(*                                                                         *)
(* The script that undoes migration 1 drops the whole state schema, the table *)
(* schema_migrations in it included, which setVersion then cannot write: such *)
(* a job fails and its transaction is rolled back.                           *)
(***************************************************************************)
EXTENDS Integers

CONSTANTS
  Jobs, DownJobs,        \* runs of the tool; those that migrate down
  Latest,                \* migrations 1..Latest are embedded
  MaxDeaths              \* bound: jobs that die or fail

ASSUME MigrationsAssumption ==
  /\ Latest \in Nat \ {0} /\ DownJobs \subseteq Jobs /\ MaxDeaths \in Nat
  /\ "free" \notin Jobs

VARIABLES
  db,           \* schema_migrations: does it exist, version, dirty; the objects
  lock,         \* holder of the advisory lock, or "free"
  job,          \* per job: where it is, the version it counts from, its draft
  deaths

mvars == <<db, lock, job, deaths>>

Free == "free"
Versions == 1..Latest
EmptyDB == [table |-> FALSE, version |-> 0, dirty |-> FALSE, objects |-> [v \in Versions |-> 0]]
Idle == [at |-> "start", from |-> 0, draft |-> EmptyDB]
At(j, place) == job' = [job EXCEPT ![j].at = place]
\* The job returns an error: rolled back, unlocked.
GivesUp(j) == At(j, "failed") /\ lock' = Free

MInit == db = EmptyDB /\ lock = Free /\ job = [j \in Jobs |-> Idle] /\ deaths = 0

\* Deliberately wrong variant of Lock: the lock is taken without waiting for it.
LockShared(j) ==
  /\ job[j].at = "start"
  /\ lock' = j /\ At(j, "read")
  /\ UNCHANGED <<db, deaths>>

Lock(j) ==
  /\ job[j].at = "start" /\ lock = Free
  /\ lock' = j /\ At(j, "read")
  /\ UNCHANGED <<db, deaths>>

\* ensureMigrationsTable, currentVersion: a dirty schema is an error.
ReadVersion(j) ==
  /\ job[j].at = "read"
  /\ db' = [db EXCEPT !.table = TRUE]
  /\ IF db.dirty THEN GivesUp(j)
     ELSE /\ job' = [job EXCEPT ![j].from = db.version, ![j].at = "next"]
          /\ UNCHANGED lock
  /\ UNCHANGED deaths

\* The migration the loop comes to next.
Target(j) == IF j \in DownJobs THEN job[j].from ELSE job[j].from + 1

\* Deliberately wrong variant of Begin: going down, it does not stop at version 0.
BeginAtZero(j) ==
  /\ job[j].at = "next" /\ Target(j) \in 0..Latest
  /\ job' = [job EXCEPT ![j].draft = [db EXCEPT !.version = Target(j), !.dirty = TRUE],
                        ![j].at = "execute"]
  /\ UNCHANGED <<db, lock, deaths>>

\* Begin the transaction and mark the version as dirty in it.
Begin(j) ==
  /\ job[j].at = "next" /\ Target(j) \in Versions
  /\ job' = [job EXCEPT ![j].draft = [db EXCEPT !.version = Target(j), !.dirty = TRUE],
                        ![j].at = "execute"]
  /\ UNCHANGED <<db, lock, deaths>>

Dropped == [EmptyDB EXCEPT !.dirty = TRUE]

\* What the script of the migration makes of the draft.
Scripted(j, draft) ==
  LET objects == [draft.objects EXCEPT ![Target(j)] = @ + (IF j \in DownJobs THEN -1 ELSE 1)] IN
  IF j \in DownJobs /\ Target(j) = 1 THEN Dropped ELSE [draft EXCEPT !.objects = objects]

Execute(j) ==
  /\ job[j].at = "execute"
  /\ job' = [job EXCEPT ![j].draft = Scripted(j, job[j].draft), ![j].at = "version"]
  /\ UNCHANGED <<db, lock, deaths>>

\* setVersion, not dirty: to the migration's version, or to the one before it.
SetVersion(j) ==
  /\ job[j].at = "version"
  /\ LET left == IF j \in DownJobs THEN Target(j) - 1 ELSE Target(j) IN
     IF job[j].draft.table
       THEN /\ job' = [job EXCEPT ![j].draft.version = left, ![j].draft.dirty = FALSE,
                                  ![j].at = "commit"]
            /\ UNCHANGED lock
       ELSE GivesUp(j)
  /\ UNCHANGED <<db, deaths>>

Commit(j) ==
  /\ job[j].at = "commit"
  /\ db' = job[j].draft
  /\ job' = [job EXCEPT ![j].from = db'.version, ![j].at = "next"]
  /\ UNCHANGED <<lock, deaths>>

Finish(j) ==
  /\ job[j].at = "next" /\ Target(j) \notin Versions
  /\ At(j, "done") /\ lock' = Free
  /\ UNCHANGED <<db, deaths>>

\* A statement fails or the job dies: the transaction is rolled back and the lock released.
\* Either way the job may be started again.
Die(j) ==
  /\ job[j].at \notin {"start", "done", "failed"} /\ deaths < MaxDeaths
  /\ deaths' = deaths + 1
  /\ job' = [job EXCEPT ![j] = Idle] /\ lock' = Free
  /\ UNCHANGED db

JobStep(j) ==
  Lock(j) \/ ReadVersion(j) \/ Begin(j) \/ Execute(j) \/ SetVersion(j) \/ Commit(j) \/ Finish(j)

MNext == \E j \in Jobs : JobStep(j) \/ Die(j)

MTypeOK ==
  /\ db.version \in 0..Latest /\ db.dirty \in BOOLEAN
  /\ lock \in Jobs \cup {Free} /\ deaths \in 0..MaxDeaths
  /\ \A j \in Jobs : job[j].at \in {"start", "read", "next", "execute", "version", "commit", "done",
                                   "failed"}

\* The version in schema_migrations tells which migrations are in place, each once, and the
\* schema is never left dirty, whoever migrates at the same time or dies (applyUp, applyDown).
SchemaMatchesVersion ==
  /\ ~db.dirty
  /\ \A v \in Versions : db.objects[v] = (IF v <= db.version THEN 1 ELSE 0)
=============================================================================
