----------------------------- MODULE Migrations -----------------------------
(***************************************************************************)
(* pgsql.Manager.Migrate, which each instance of the service runs when it  *)
(* starts, over one database: another instance may migrate at the same     *)
(* time, and any of them may crash.  Up is golang-migrate's: it takes an   *)
(* advisory lock, and marks the schema dirty while a migration runs.       *)
(***************************************************************************)
EXTENDS Integers

CONSTANTS
    Instances,
    NoOne,      \* the owner of a free lock
    Latest      \* the last version among the embedded migrations

ASSUME MigrationAssumption ==
    /\ NoOne \notin Instances
    /\ Latest \in Nat \ {0}

VARIABLES
    version,    \* schema_migrations
    dirty,
    lock,       \* who has the advisory lock
    applied,    \* how often each migration is in effect
    pc          \* where each instance is

migrationVars == <<version, dirty, lock, applied, pc>>

\* The version of a schema without a migration.  Migrations are counted from 1,
\* so that 0 is the version of none.
NilVersion == -1

Migrating == {"read", "begin", "apply", "clean"}

InstancePC == {"down", "schema", "check", "lock", "serving", "told", "failed"}
                \cup Migrating

Goto(i, l) == pc' = [pc EXCEPT ![i] = l]

MigrationInit ==
    /\ version = NilVersion
    /\ dirty = FALSE
    /\ lock = NoOne
    /\ applied = [k \in 1 .. Latest |-> 0]
    /\ pc = [i \in Instances |-> "down"]

----------------------------------------------------------------------------
Start(i) ==
    /\ pc[i] \in {"down", "told", "failed"}
    /\ Goto(i, "schema")
    /\ UNCHANGED <<version, dirty, lock, applied>>

\* CREATE SCHEMA IF NOT EXISTS, the search path, the driver; each may fail.
\* The driver has the lock for a moment to create its table.
PrepareSchema(i) ==
    /\ pc[i] = "schema"
    /\ \/ lock = NoOne /\ Goto(i, "check")
       \/ Goto(i, "failed")
    /\ UNCHANGED <<version, dirty, lock, applied>>

\* A mutant of CheckVersion: a dirty schema is forced back by the service.
ForceVersion(i) ==
    /\ pc[i] = "check"
    /\ Goto(i, "lock")
    /\ version' = IF dirty THEN version - 1 ELSE version
    /\ dirty' = FALSE
    /\ UNCHANGED <<lock, applied>>

\* The version is read without the lock.
CheckVersion(i) ==
    /\ pc[i] = "check"
    /\ Goto(i, IF dirty THEN "told" ELSE "lock")
    /\ UNCHANGED <<version, dirty, lock, applied>>

TakeLock(i) ==
    /\ pc[i] = "lock"
    /\ lock = NoOne
    /\ lock' = i
    /\ Goto(i, "read")
    /\ UNCHANGED <<version, dirty, applied>>

\* Up waits 15 seconds for the lock.
LockTimesOut(i) ==
    /\ pc[i] = "lock"
    /\ lock # NoOne
    /\ Goto(i, "failed")
    /\ UNCHANGED <<version, dirty, lock, applied>>

\* A mutant of ReadVersion: every error of Up is taken for ErrNoChange.
ReadVersionIgnoresErrors(i) ==
    /\ pc[i] = "read"
    /\ IF dirty \/ version \in {0, Latest}
       THEN Goto(i, "serving") /\ lock' = NoOne
       ELSE Goto(i, "begin") /\ UNCHANGED lock
    /\ UNCHANGED <<version, dirty, applied>>

\* Up looks again with the lock: ErrDirty, ErrNoChange, or work to do after the
\* migration that is recorded, which has to exist.
ReadVersion(i) ==
    /\ pc[i] = "read"
    /\ \/ dirty /\ Goto(i, "told") /\ lock' = NoOne
       \/ ~dirty /\ version = Latest /\ Goto(i, "serving") /\ lock' = NoOne
       \/ ~dirty /\ version = 0 /\ Goto(i, "failed") /\ lock' = NoOne
       \/ /\ ~dirty /\ version # 0 /\ version < Latest
          /\ Goto(i, "begin")
          /\ UNCHANGED lock
    /\ UNCHANGED <<version, dirty, applied>>

BeginMigration(i) ==
    /\ pc[i] = "begin"
    /\ version' = IF version = NilVersion THEN 1 ELSE version + 1
    /\ dirty' = TRUE
    /\ Goto(i, "apply")
    /\ UNCHANGED <<lock, applied>>

\* A migration is sent as one query and so takes effect as a whole.
ApplyMigration(i) ==
    /\ pc[i] = "apply"
    /\ applied' = [applied EXCEPT ![version] = @ + 1]
    /\ Goto(i, "clean")
    /\ UNCHANGED <<version, dirty, lock>>

\* A mutant of MigrationFails: the migration is taken back and tried again.
MigrationFailsRetried(i) ==
    /\ pc[i] = "apply"
    /\ version' = version - 1
    /\ dirty' = FALSE
    /\ Goto(i, "read")
    /\ UNCHANGED <<lock, applied>>

\* The schema stays dirty, which Migrate reports.
MigrationFails(i) ==
    /\ pc[i] = "apply"
    /\ lock' = NoOne
    /\ Goto(i, "told")
    /\ UNCHANGED <<version, dirty, applied>>

EndMigration(i) ==
    /\ pc[i] = "clean"
    /\ dirty' = FALSE
    /\ IF version = Latest
       THEN Goto(i, "serving") /\ lock' = NoOne
       ELSE Goto(i, "begin") /\ UNCHANGED lock
    /\ UNCHANGED <<version, applied>>

\* The session of an instance that crashes ends, and with it its lock; the
\* query it had sent may be executed all the same.
Crash(i) ==
    /\ pc[i] # "down"
    /\ Goto(i, "down")
    /\ lock' = IF lock = i THEN NoOne ELSE lock
    /\ \/ UNCHANGED applied
       \/ pc[i] = "apply" /\ applied' = [applied EXCEPT ![version] = @ + 1]
    /\ UNCHANGED <<version, dirty>>

\* The repair the error message asks for, by somebody who has made sure that
\* nobody migrates: force version - 1, or version if it was completed.  For the
\* first migration that is version 0, with which no instance gets any further.
Repair ==
    /\ dirty /\ lock = NoOne
    /\ \E i \in Instances : pc[i] = "told"
    /\ dirty' = FALSE
    /\ \/ /\ version' = version - 1
          /\ applied' = [applied EXCEPT ![version] = 0]
       \/ /\ applied' = [applied EXCEPT ![version] = 1]
          /\ UNCHANGED version
    /\ UNCHANGED <<lock, pc>>

MigrateStep(i) ==
    \/ PrepareSchema(i) \/ CheckVersion(i) \/ TakeLock(i) \/ LockTimesOut(i)
    \/ ReadVersion(i) \/ BeginMigration(i) \/ ApplyMigration(i)
    \/ MigrationFails(i) \/ EndMigration(i)

MigrationNext ==
    \/ \E i \in Instances : Start(i) \/ MigrateStep(i) \/ Crash(i)
    \/ Repair

MigrationSpec == MigrationInit /\ [][MigrationNext]_migrationVars

\* Every statement of an instance that has not crashed returns.
MigrationFairness == \A i \in Instances : WF_migrationVars(MigrateStep(i))

----------------------------------------------------------------------------
(* Properties *)

\* "Call this once at service startup, before the service accepts traffic": an
\* instance that serves has every migration in effect exactly once under it,
\* whoever else migrates, fails, crashes or repairs before or after.
ServesLatest ==
    \A i \in Instances : pc[i] = "serving" =>
        /\ version = Latest /\ ~dirty
        /\ \A k \in 1 .. Latest : applied[k] = 1

\* No migration takes effect twice, though instances migrate concurrently and
\* crash between the query and the record of it.
AppliedOnce == \A k \in 1 .. Latest : applied[k] <= 1

\* Every start comes to an end: the instance serves, or its error is reported.
StartEnds ==
    \A i \in Instances :
        pc[i] = "schema" ~> pc[i] \in {"down", "serving", "told", "failed"}

MigrationTypeOK ==
    /\ version \in NilVersion .. Latest
    /\ dirty \in BOOLEAN
    /\ lock \in Instances \cup {NoOne}
    /\ applied \in [1 .. Latest -> Nat]
    /\ pc \in [Instances -> InstancePC]

\* Who has the lock, and what the record says of the migrations meanwhile.
Holders == \A i \in Instances : lock = i <=> pc[i] \in Migrating

DirtyInProgress ==
    /\ dirty => version > 0
    /\ \A i \in Instances :
          /\ pc[i] = "begin" => ~dirty /\ version # 0 /\ version < Latest
          /\ pc[i] \in {"apply", "clean"} => dirty
          /\ pc[i] = "apply" => applied[version] = 0
          /\ pc[i] = "clean" => applied[version] = 1

RecordIsTrue ==
    \A k \in 1 .. Latest :
        /\ k < version \/ (k = version /\ ~dirty) => applied[k] = 1
        /\ k > version => applied[k] = 0
        /\ k = version => applied[k] <= 1

\* The inductive invariant.
MigrationInv ==
    /\ MigrationTypeOK
    /\ Holders
    /\ DirtyInProgress
    /\ RecordIsTrue
    /\ ServesLatest
============================================================================
