--------------------------- MODULE ServiceInstance ---------------------------
(***************************************************************************)
(* ServerProcess composed with Migrations: the process of one instance,    *)
(* Self, among the instances that share a database.  Migrations says how   *)
(* main.run's call of Migrate ends; the process says when Self calls it,   *)
(* and its end is a crash to the database.                                 *)
(***************************************************************************)
EXTENDS ServerProcess, Migrations

CONSTANT Self

ASSUME InstanceAssumption == Self \in Instances

instanceVars == <<processVars, migrationVars>>

\* How Migrate ends: without an error only for an instance that may serve.
Outcome == {"serving", "told", "failed"}

InstanceInit == ProcessInit /\ MigrationInit

----------------------------------------------------------------------------
\* The schema as the steps of the process leave it: the end of the process
\* ends the session of Self.
SchemaKept ==
    IF main' = "gone" /\ main # "gone" /\ pc[Self] # "down"
    THEN Crash(Self)
    ELSE UNCHANGED migrationVars

\* The process comes to its call of Migrate.
CallMigrate ==
    /\ InitServices
    /\ IF main' = "migrate" THEN Start(Self) ELSE UNCHANGED migrationVars

RunMigrate ==
    /\ main = "migrate"
    /\ MigrateStep(Self)
    /\ UNCHANGED processVars

\* A mutant of MigrateReturns: the error is logged and the service starts.
MigrateReturnsAnyway ==
    /\ main = "migrate"
    /\ pc[Self] \in Outcome
    /\ Migrate
    /\ main' = "listen"
    /\ UNCHANGED migrationVars

MigrateReturns ==
    /\ main = "migrate"
    /\ pc[Self] \in Outcome
    /\ Migrate
    /\ error' = (pc[Self] # "serving")
    /\ UNCHANGED migrationVars

\* Every other step of the process.
ProcessGoes ==
    /\ main \in {"services", "migrate"} => main' \in {main, "gone"}
    /\ ProcessNext
    /\ SchemaKept

OthersGo ==
    /\ \/ \E i \in Instances \ {Self} : Start(i) \/ MigrateStep(i) \/ Crash(i)
       \/ Repair
    /\ UNCHANGED processVars

InstanceNext ==
    \/ CallMigrate \/ RunMigrate \/ MigrateReturns
    \/ ProcessGoes
    \/ OthersGo

InstanceSpec ==
    /\ InstanceInit
    /\ [][InstanceNext]_instanceVars
    /\ ProcessFairness
    /\ MigrationFairness

----------------------------------------------------------------------------
(* Properties *)

\* "Call this once at service startup, before the service accepts traffic": as
\* long as the process takes calls, its schema is the one it was built for,
\* whatever other instances do to the database meanwhile.
ServesMigrated ==
    grpc # "none" /\ Alive =>
        /\ version = Latest /\ ~dirty
        /\ \A k \in 1 .. Latest : applied[k] = 1

\* Why: a process that has come to its servers has migrated its schema, and
\* one that has not has no error and no server.
SelfServes ==
    /\ main \in {"listen", "serving"} => pc[Self] = "serving"
    /\ grpc # "none" /\ Alive => pc[Self] = "serving"
    /\ main \in {"otel", "services", "migrate"} => ~error /\ grpc = "none"
    /\ stopper # "idle" => grpc # "none"
============================================================================
