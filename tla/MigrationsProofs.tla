-------------------------- MODULE MigrationsProofs --------------------------
(* The safety properties of Migrations, for any instances and migrations. *)
EXTENDS Migrations, TLAPS

\* Only pc changes, outside the lock.
LEMMA StartKeeps ==
    ASSUME MigrationInv, NEW i \in Instances, Start(i)
    PROVE  MigrationInv'
<1>1. MigrationTypeOK'
  BY DEF MigrationInv, Start, MigrationTypeOK, Goto, InstancePC
<1>2. Holders'
  BY DEF MigrationInv, Start, Holders, Goto, Migrating
<1>3. DirtyInProgress' /\ RecordIsTrue' /\ ServesLatest'
  BY DEF MigrationInv, Start, DirtyInProgress, RecordIsTrue, ServesLatest,
     Goto
<1>4. QED
  BY <1>1, <1>2, <1>3 DEF MigrationInv

\* Only pc changes, outside the lock.
LEMMA PrepareSchemaKeeps ==
    ASSUME MigrationInv, NEW i \in Instances, PrepareSchema(i)
    PROVE  MigrationInv'
<1>1. MigrationTypeOK'
  BY DEF MigrationInv, PrepareSchema, MigrationTypeOK, Goto, InstancePC
<1>2. Holders'
  BY DEF MigrationInv, PrepareSchema, Holders, MigrationTypeOK, Goto,
     Migrating
<1>3. DirtyInProgress'
  BY DEF MigrationInv, PrepareSchema, DirtyInProgress, MigrationTypeOK, Goto
<1>4. ServesLatest'
  BY DEF MigrationInv, PrepareSchema, ServesLatest, MigrationTypeOK, Goto
<1>5. RecordIsTrue'
  BY DEF MigrationInv, PrepareSchema, RecordIsTrue
<1>6. QED
  BY <1>1, <1>2, <1>3, <1>4, <1>5 DEF MigrationInv

\* The version is read, and nothing is written.
LEMMA CheckVersionKeeps ==
    ASSUME MigrationInv, NEW i \in Instances, CheckVersion(i)
    PROVE  MigrationInv'
<1>1. MigrationTypeOK'
  BY DEF MigrationInv, CheckVersion, MigrationTypeOK, Goto, InstancePC
<1>2. Holders'
  BY DEF MigrationInv, CheckVersion, Holders, Goto, Migrating
<1>3. DirtyInProgress' /\ RecordIsTrue' /\ ServesLatest'
  BY DEF MigrationInv, CheckVersion, DirtyInProgress, RecordIsTrue,
     ServesLatest, Goto
<1>4. QED
  BY <1>1, <1>2, <1>3 DEF MigrationInv

\* The lock was free, so nobody is migrating.
LEMMA TakeLockKeeps ==
    ASSUME MigrationInv, NEW i \in Instances, TakeLock(i)
    PROVE  MigrationInv'
<1>1. MigrationTypeOK'
  BY DEF MigrationInv, TakeLock, MigrationTypeOK, Goto, Migrating,
     InstancePC
<1>2. Holders'
  BY MigrationAssumption DEF MigrationInv, TakeLock, Holders,
     MigrationTypeOK, Goto, Migrating
<1>3. DirtyInProgress' /\ RecordIsTrue' /\ ServesLatest'
  BY DEF MigrationInv, TakeLock, DirtyInProgress, RecordIsTrue,
     ServesLatest, Goto
<1>4. QED
  BY <1>1, <1>2, <1>3 DEF MigrationInv

\* Only pc changes, outside the lock.
LEMMA LockTimesOutKeeps ==
    ASSUME MigrationInv, NEW i \in Instances, LockTimesOut(i)
    PROVE  MigrationInv'
<1>1. MigrationTypeOK'
  BY DEF MigrationInv, LockTimesOut, MigrationTypeOK, Goto, InstancePC
<1>2. Holders'
  BY DEF MigrationInv, LockTimesOut, Holders, Goto, Migrating
<1>3. DirtyInProgress' /\ RecordIsTrue' /\ ServesLatest'
  BY DEF MigrationInv, LockTimesOut, DirtyInProgress, RecordIsTrue,
     ServesLatest, Goto
<1>4. QED
  BY <1>1, <1>2, <1>3 DEF MigrationInv

\* With the lock, what is read stays true; a clean record at Latest is what
\* serving needs.
LEMMA ReadVersionKeeps ==
    ASSUME MigrationInv, NEW i \in Instances, ReadVersion(i)
    PROVE  MigrationInv'
<1>1. MigrationTypeOK'
  BY DEF MigrationInv, ReadVersion, MigrationTypeOK, Goto, Migrating,
     InstancePC
<1>2. Holders'
  BY MigrationAssumption DEF MigrationInv, ReadVersion, Holders,
     MigrationTypeOK, Goto, Migrating
<1>3. DirtyInProgress'
  BY DEF MigrationInv, ReadVersion, DirtyInProgress, MigrationTypeOK, Goto
<1>4. ServesLatest'
  BY DEF MigrationInv, ReadVersion, ServesLatest, MigrationTypeOK,
     RecordIsTrue, Goto, NilVersion
<1>5. RecordIsTrue'
  BY DEF MigrationInv, ReadVersion, RecordIsTrue
<1>6. QED
  BY <1>1, <1>2, <1>3, <1>4, <1>5 DEF MigrationInv

\* The record was clean below Latest, so nobody serves.
LEMMA BeginMigrationKeeps ==
    ASSUME MigrationInv, NEW i \in Instances, BeginMigration(i)
    PROVE  MigrationInv'
<1>1. MigrationTypeOK'
  BY MigrationAssumption DEF MigrationInv, BeginMigration, MigrationTypeOK,
     DirtyInProgress, Goto, Migrating, InstancePC, NilVersion
<1>2. Holders'
  BY DEF MigrationInv, BeginMigration, Holders, Goto, Migrating
<1>3. DirtyInProgress'
  BY MigrationAssumption DEF MigrationInv, BeginMigration, DirtyInProgress,
     MigrationTypeOK, Holders, RecordIsTrue, Goto, Migrating, NilVersion
<1>4. RecordIsTrue'
  BY DEF MigrationInv, BeginMigration, RecordIsTrue, MigrationTypeOK,
     DirtyInProgress, NilVersion
<1>5. ServesLatest'
  BY MigrationAssumption DEF MigrationInv, BeginMigration, ServesLatest,
     DirtyInProgress, Goto
<1>6. QED
  BY <1>1, <1>2, <1>3, <1>4, <1>5 DEF MigrationInv

\* The dirty version was not in effect.
LEMMA ApplyMigrationKeeps ==
    ASSUME MigrationInv, NEW i \in Instances, ApplyMigration(i)
    PROVE  MigrationInv'
<1>1. MigrationTypeOK'
  BY DEF MigrationInv, ApplyMigration, MigrationTypeOK, DirtyInProgress,
     Goto, Migrating, InstancePC
<1>2. Holders'
  BY DEF MigrationInv, ApplyMigration, Holders, Goto, Migrating
<1>3. DirtyInProgress'
  BY DEF MigrationInv, ApplyMigration, DirtyInProgress, MigrationTypeOK,
     Holders, Goto, Migrating
<1>4. RecordIsTrue'
  BY DEF MigrationInv, ApplyMigration, RecordIsTrue, DirtyInProgress
<1>5. ServesLatest'
  BY DEF MigrationInv, ApplyMigration, ServesLatest, DirtyInProgress, Goto
<1>6. QED
  BY <1>1, <1>2, <1>3, <1>4, <1>5 DEF MigrationInv

\* The schema stays dirty.
LEMMA MigrationFailsKeeps ==
    ASSUME MigrationInv, NEW i \in Instances, MigrationFails(i)
    PROVE  MigrationInv'
<1>1. MigrationTypeOK'
  BY DEF MigrationInv, MigrationFails, MigrationTypeOK, Goto, InstancePC
<1>2. Holders'
  BY MigrationAssumption DEF MigrationInv, MigrationFails, Holders,
     MigrationTypeOK, Goto, Migrating
<1>3. DirtyInProgress' /\ RecordIsTrue' /\ ServesLatest'
  BY DEF MigrationInv, MigrationFails, DirtyInProgress, RecordIsTrue,
     ServesLatest, Goto
<1>4. QED
  BY <1>1, <1>2, <1>3 DEF MigrationInv

\* The migration that was recorded as dirty is in effect.
LEMMA EndMigrationKeeps ==
    ASSUME MigrationInv, NEW i \in Instances, EndMigration(i)
    PROVE  MigrationInv'
<1>1. MigrationTypeOK'
  BY DEF MigrationInv, EndMigration, MigrationTypeOK, Goto, Migrating,
     InstancePC
<1>2. Holders'
  BY MigrationAssumption DEF MigrationInv, EndMigration, Holders,
     MigrationTypeOK, Goto, Migrating
<1>3. DirtyInProgress'
  BY MigrationAssumption DEF MigrationInv, EndMigration, DirtyInProgress,
     MigrationTypeOK, Holders, Goto, Migrating, NilVersion
<1>4. RecordIsTrue'
  BY DEF MigrationInv, EndMigration, RecordIsTrue, DirtyInProgress
<1>5. ServesLatest'
  BY DEF MigrationInv, EndMigration, ServesLatest, MigrationTypeOK,
     DirtyInProgress, RecordIsTrue, Goto
<1>6. QED
  BY <1>1, <1>2, <1>3, <1>4, <1>5 DEF MigrationInv

\* The lock is released; only a dirty version may come into effect.
LEMMA CrashKeeps ==
    ASSUME MigrationInv, NEW i \in Instances, Crash(i)
    PROVE  MigrationInv'
<1>1. MigrationTypeOK'
  BY DEF MigrationInv, Crash, MigrationTypeOK, Goto, InstancePC
<1>2. Holders'
  BY MigrationAssumption DEF MigrationInv, Crash, Holders, MigrationTypeOK,
     Goto, Migrating
<1>3. DirtyInProgress'
  BY DEF MigrationInv, Crash, DirtyInProgress, MigrationTypeOK, Holders,
     Goto, Migrating
<1>4. RecordIsTrue'
  BY MigrationAssumption DEF MigrationInv, Crash, RecordIsTrue,
     MigrationTypeOK, DirtyInProgress, NilVersion
<1>5. ServesLatest'
  BY DEF MigrationInv, Crash, ServesLatest, DirtyInProgress, Goto
<1>6. QED
  BY <1>1, <1>2, <1>3, <1>4, <1>5 DEF MigrationInv

\* Nobody has the lock, and nobody serves a dirty schema.
LEMMA RepairKeeps ==
    ASSUME MigrationInv, Repair
    PROVE  MigrationInv'
<1>1. MigrationTypeOK'
  <2>1. version' \in NilVersion .. Latest
    BY MigrationAssumption
       DEF MigrationInv, Repair, MigrationTypeOK, DirtyInProgress, NilVersion
  <2>2. applied' \in [1 .. Latest -> Nat]
    BY DEF MigrationInv, Repair, MigrationTypeOK
  <2>3. QED
    BY <2>1, <2>2 DEF MigrationInv, Repair, MigrationTypeOK
<1>2. DirtyInProgress'
  BY MigrationAssumption DEF MigrationInv, Repair, DirtyInProgress, Holders,
     Migrating
<1>3. RecordIsTrue'
  BY MigrationAssumption DEF MigrationInv, Repair, RecordIsTrue,
     MigrationTypeOK, NilVersion
<1>4. Holders' /\ ServesLatest'
  BY DEF MigrationInv, Repair, Holders, ServesLatest
<1>5. QED
  BY <1>1, <1>2, <1>3, <1>4 DEF MigrationInv

LEMMA InitEstablishes == MigrationInit => MigrationInv
<1>1. MigrationInit => MigrationTypeOK
  <2>1. NilVersion \in NilVersion .. Latest
    BY MigrationAssumption DEF NilVersion
  <2>2. [k \in 1 .. Latest |-> 0] \in [1 .. Latest -> Nat]
    OBVIOUS
  <2>3. [i \in Instances |-> "down"] \in [Instances -> InstancePC]
    BY DEF InstancePC
  <2>4. QED
    BY <2>1, <2>2, <2>3 DEF MigrationInit, MigrationTypeOK
<1>2. MigrationInit => Holders
  BY MigrationAssumption DEF MigrationInit, Holders, Migrating
<1>3. MigrationInit => DirtyInProgress /\ RecordIsTrue /\ ServesLatest
  BY DEF MigrationInit, DirtyInProgress, RecordIsTrue, ServesLatest, NilVersion
<1>4. QED
  BY <1>1, <1>2, <1>3 DEF MigrationInv

LEMMA NextKeeps ==
    MigrationInv /\ [MigrationNext]_migrationVars => MigrationInv'
<1> SUFFICES ASSUME MigrationInv, [MigrationNext]_migrationVars
             PROVE  MigrationInv'
  OBVIOUS
<1>1. ASSUME NEW i \in Instances, Start(i) \/ MigrateStep(i) \/ Crash(i)
      PROVE  MigrationInv'
  BY <1>1, StartKeeps, PrepareSchemaKeeps, CheckVersionKeeps, TakeLockKeeps,
     LockTimesOutKeeps, ReadVersionKeeps, BeginMigrationKeeps,
     ApplyMigrationKeeps, MigrationFailsKeeps, EndMigrationKeeps, CrashKeeps
     DEF MigrateStep
<1>2. CASE UNCHANGED migrationVars
  BY <1>2 DEF migrationVars, MigrationInv, MigrationTypeOK, Holders,
     DirtyInProgress, RecordIsTrue, ServesLatest
<1>3. QED
  BY <1>1, <1>2, RepairKeeps DEF MigrationNext

\* What schema_migrations says is true of the schema, and whoever has the lock
\* is the only one to change it.
THEOREM MigrationInvariant == MigrationSpec => []MigrationInv
<1>1. QED
  BY InitEstablishes, NextKeeps, PTL DEF MigrationSpec

\* An instance that serves has the latest schema under it.
THEOREM InstancesServeLatest == MigrationSpec => []ServesLatest
<1>1. MigrationInv => ServesLatest
  BY DEF MigrationInv
<1>2. QED
  BY <1>1, MigrationInvariant, PTL

\* No migration takes effect twice.
THEOREM MigrationsApplyOnce == MigrationSpec => []AppliedOnce
<1>1. MigrationInv => AppliedOnce
  <2> SUFFICES ASSUME MigrationInv, NEW k \in 1 .. Latest
               PROVE  applied[k] <= 1
    BY DEF AppliedOnce
  <2>1. version \in Int /\ k \in Nat /\ applied[k] \in Nat
    BY MigrationAssumption DEF MigrationInv, MigrationTypeOK, NilVersion
  <2>2. k < version \/ k = version \/ k > version
    BY <2>1
  <2>3. QED
    BY <2>1, <2>2 DEF MigrationInv, RecordIsTrue
<1>2. QED
  BY <1>1, MigrationInvariant, PTL
============================================================================
