------------------------------- MODULE PgPool -------------------------------
(***************************************************************************)
(* pgsql.Manager: the one connection pool of the process, which its        *)
(* callers probe, replace and close concurrently.  Callers are the         *)
(* statements of the handlers and of the executor, the health endpoint and *)
(* the metrics callback; Main is the shutdown, which calls Close.          *)
(*                                                                         *)
(* A pool is closed in two steps, as in pgxpool: it rejects new            *)
(* connections, then waits for those in use.  A closed pool that nobody    *)
(* refers to stands for the next one to be created.                        *)
(***************************************************************************)
EXTENDS Integers, FiniteSets

CONSTANTS
    Callers,    \* goroutines that call getPool
    Main,       \* the goroutine that calls Close
    NoOne,      \* the owner of a free mutex
    Pools,      \* pools, one more than callers at least
    NoPool,     \* nil
    MaxConns,   \* connections of a pool
    MaxCloses   \* calls of Close, two in main.go

ASSUME PoolAssumption ==
    /\ Main \notin Callers
    /\ NoOne \notin Callers \cup {Main}
    /\ NoPool \notin Pools
    /\ MaxConns \in Nat \ {0}
    /\ MaxCloses \in Nat

VARIABLES
    pool,       \* m.pool
    mu,         \* who has m.mu locked; readers hold it within one step
    hcMu,       \* who has m.hcMu locked
    recent,     \* lastHc is less than a window ago
    hcErr,      \* lastHcErr is an error
    openPools,  \* the pools that give out connections
    database,   \* PostgreSQL, or a configuration no pool accepts
    pc,         \* where each thread is
    held,       \* its local variable pool
    closes      \* calls of Close so far

manager  == <<pool, mu, hcMu, recent, hcErr>>
poolVars == <<manager, openPools, database, pc, held, closes>>

----------------------------------------------------------------------------
Threads == Callers \cup {Main}

\* The part of recreatePool that runs with m.mu locked.
Locked == {"recheck", "reping", "close", "drain", "reset", "connect", "probe"}

CallerPC == {"idle", "read", "check", "ping", "lock", "got", "using", "failed"}
              \cup Locked

\* Connections in use.
Users(p) == {c \in Callers : pc[c] = "using" /\ held[c] = p}

Alive(p) == p \in openPools /\ database = "up"

\* Acquire waits for a connection, unless the pool is closed.
Acquires(p) == p \in openPools => Cardinality(Users(p)) < MaxConns

Unused == {p \in Pools \ (openPools \cup {pool}) : \A c \in Callers : held[c] # p}

Unlocked(c) == IF mu = c THEN NoOne ELSE mu

Goto(c, l) == pc' = [pc EXCEPT ![c] = l]

Hold(c, p) == held' = [held EXCEPT ![c] = p]

PoolInit ==
    /\ pool = NoPool
    /\ mu = NoOne
    /\ hcMu = NoOne
    /\ recent = FALSE
    /\ hcErr = FALSE
    /\ openPools = {}
    /\ database \in {"up", "misconfigured"}
    /\ pc = [t \in Threads |-> "idle"]
    /\ held = [c \in Callers |-> NoPool]
    /\ closes = 0

----------------------------------------------------------------------------
(* getPool *)

Call(c) ==
    /\ pc[c] = "idle"
    /\ Goto(c, "read")
    /\ UNCHANGED <<manager, openPools, database, held, closes>>

\* A mutant of ReadPool: without the read lock.
ReadPoolUnlocked(c) ==
    /\ pc[c] = "read"
    /\ Hold(c, pool)
    /\ Goto(c, IF pool = NoPool THEN "lock" ELSE "check")
    /\ UNCHANGED <<manager, openPools, database, closes>>

ReadPool(c) ==
    /\ pc[c] = "read"
    /\ mu = NoOne
    /\ Hold(c, pool)
    /\ Goto(c, IF pool = NoPool THEN "lock" ELSE "check")
    /\ UNCHANGED <<manager, openPools, database, closes>>

----------------------------------------------------------------------------
(* healthcheck, called by getPool ("check") and recreatePool ("recheck") *)

\* The last check was successful, less than a window ago.
CheckIsRecent(c) ==
    /\ pc[c] \in {"check", "recheck"}
    /\ hcMu = NoOne
    /\ recent /\ ~hcErr
    /\ Goto(c, "got")
    /\ mu' = Unlocked(c)
    /\ UNCHANGED <<pool, hcMu, recent, hcErr, openPools, database, held, closes>>

StartPing(c) ==
    /\ pc[c] \in {"check", "recheck"}
    /\ hcMu = NoOne
    /\ ~recent \/ hcErr
    /\ hcMu' = c
    /\ Goto(c, IF pc[c] = "check" THEN "ping" ELSE "reping")
    /\ UNCHANGED <<pool, mu, recent, hcErr, openPools, database, held, closes>>

Ping(c) ==
    /\ pc[c] \in {"ping", "reping"}
    /\ Acquires(held[c])
    /\ hcMu' = NoOne
    /\ recent' = TRUE
    /\ hcErr' = ~Alive(held[c])
    /\ \/ Alive(held[c]) /\ Goto(c, "got") /\ mu' = Unlocked(c)
       \/ /\ ~Alive(held[c])
          /\ Goto(c, IF pc[c] = "ping" THEN "lock" ELSE "close")
          /\ UNCHANGED mu
    /\ UNCHANGED <<pool, openPools, database, held, closes>>

----------------------------------------------------------------------------
(* recreatePool *)

\* A mutant of LockManager: m.pool is not looked at again.
LockAndConnect(c) ==
    /\ pc[c] = "lock"
    /\ mu = NoOne
    /\ mu' = c
    /\ Hold(c, pool)
    /\ Goto(c, "connect")
    /\ UNCHANGED <<pool, hcMu, recent, hcErr, openPools, database, closes>>

LockManager(c) ==
    /\ pc[c] = "lock"
    /\ mu = NoOne
    /\ mu' = c
    /\ Hold(c, pool)
    /\ Goto(c, IF pool = NoPool THEN "connect" ELSE "recheck")
    /\ UNCHANGED <<pool, hcMu, recent, hcErr, openPools, database, closes>>

\* A mutant of BeginClose: m.pool is set to nil first.
ForgetAndClose(c) ==
    /\ pc[c] = "close"
    /\ openPools' = openPools \ {pool}
    /\ pool' = NoPool
    /\ Goto(c, "drain")
    /\ UNCHANGED <<mu, hcMu, recent, hcErr, database, held, closes>>

BeginClose(c) ==
    /\ pc[c] = "close"
    /\ openPools' = openPools \ {pool}
    /\ Goto(c, "drain")
    /\ UNCHANGED <<manager, database, held, closes>>

EndClose(c) ==
    /\ pc[c] = "drain"
    /\ Users(pool) = {}
    /\ pool' = NoPool
    /\ Hold(c, NoPool)
    /\ Goto(c, "reset")
    /\ UNCHANGED <<mu, hcMu, recent, hcErr, openPools, database, closes>>

Reset(c) ==
    /\ pc[c] = "reset"
    /\ hcMu = NoOne
    /\ recent' = FALSE
    /\ hcErr' = FALSE
    /\ Goto(c, "connect")
    /\ UNCHANGED <<pool, mu, hcMu, openPools, database, held, closes>>

ConnectFails(c) ==
    /\ pc[c] = "connect"
    /\ database = "misconfigured"
    /\ mu' = NoOne
    /\ Goto(c, "failed")
    /\ UNCHANGED <<pool, hcMu, recent, hcErr, openPools, database, held, closes>>

Connect(c) ==
    /\ pc[c] = "connect"
    /\ database # "misconfigured"
    /\ \E p \in Unused : openPools' = openPools \cup {p} /\ Hold(c, p)
    /\ Goto(c, "probe")
    /\ UNCHANGED <<manager, database, closes>>

ProbeSucceeds(c) ==
    /\ pc[c] = "probe"
    /\ database = "up"
    /\ pool' = held[c]
    /\ mu' = NoOne
    /\ Goto(c, "got")
    /\ UNCHANGED <<hcMu, recent, hcErr, openPools, database, held, closes>>

\* A mutant of ProbeFails: the new pool is not closed.
ProbeFailsAndLeaks(c) ==
    /\ pc[c] = "probe"
    /\ database # "up"
    /\ mu' = NoOne
    /\ Hold(c, NoPool)
    /\ Goto(c, "failed")
    /\ UNCHANGED <<pool, hcMu, recent, hcErr, openPools, database, closes>>

\* A mutant of ProbeFails: m.mu stays locked.
ProbeFailsLocked(c) ==
    /\ pc[c] = "probe"
    /\ database # "up"
    /\ openPools' = openPools \ {held[c]}
    /\ Hold(c, NoPool)
    /\ Goto(c, "failed")
    /\ UNCHANGED <<manager, database, closes>>

ProbeFails(c) ==
    /\ pc[c] = "probe"
    /\ database # "up"
    /\ openPools' = openPools \ {held[c]}
    /\ mu' = NoOne
    /\ Hold(c, NoPool)
    /\ Goto(c, "failed")
    /\ UNCHANGED <<pool, hcMu, recent, hcErr, database, closes>>

----------------------------------------------------------------------------
(* Exec, QueryRow and Query; Healthcheck and Pool make no statement *)

Statement(c) ==
    /\ pc[c] = "got"
    /\ Acquires(held[c])
    /\ Goto(c, IF Alive(held[c]) THEN "using" ELSE "failed")
    /\ UNCHANGED <<manager, openPools, database, held, closes>>

Finish(c) ==
    /\ pc[c] \in {"got", "using", "failed"}
    /\ Hold(c, NoPool)
    /\ Goto(c, "idle")
    /\ UNCHANGED <<manager, openPools, database, closes>>

----------------------------------------------------------------------------
(* Close *)

CloseRequest ==
    /\ pc[Main] = "idle"
    /\ closes < MaxCloses
    /\ closes' = closes + 1
    /\ Goto(Main, "closing")
    /\ UNCHANGED <<manager, openPools, database, held>>

LockToClose ==
    /\ pc[Main] = "closing"
    /\ mu = NoOne
    /\ \/ pool = NoPool /\ Goto(Main, "idle") /\ UNCHANGED <<mu, openPools>>
       \/ /\ pool # NoPool
          /\ mu' = Main
          /\ openPools' = openPools \ {pool}
          /\ Goto(Main, "drain")
    /\ UNCHANGED <<pool, hcMu, recent, hcErr, database, held, closes>>

\* A mutant of FinishClose: m.pool is not set to nil.
FinishCloseKeepsPool ==
    /\ pc[Main] = "drain"
    /\ Users(pool) = {}
    /\ mu' = NoOne
    /\ Goto(Main, "idle")
    /\ UNCHANGED <<pool, hcMu, recent, hcErr, openPools, database, held, closes>>

FinishClose ==
    /\ pc[Main] = "drain"
    /\ Users(pool) = {}
    /\ pool' = NoPool
    /\ mu' = NoOne
    /\ Goto(Main, "idle")
    /\ UNCHANGED <<hcMu, recent, hcErr, openPools, database, held, closes>>

----------------------------------------------------------------------------
(* PostgreSQL and time *)

DatabaseChanges ==
    /\ \/ database = "up" /\ database' = "down"
       \/ database = "down" /\ database' = "up"
    /\ UNCHANGED <<manager, openPools, pc, held, closes>>

WindowEnds ==
    /\ recent
    /\ recent' = FALSE
    /\ UNCHANGED <<pool, mu, hcMu, hcErr, openPools, database, pc, held, closes>>

----------------------------------------------------------------------------
Recreate(c) ==
    \/ LockManager(c)
    \/ BeginClose(c)
    \/ EndClose(c)
    \/ Reset(c)
    \/ ConnectFails(c)
    \/ Connect(c)
    \/ ProbeSucceeds(c)
    \/ ProbeFails(c)

CallerStep(c) ==
    \/ ReadPool(c)
    \/ CheckIsRecent(c)
    \/ StartPing(c)
    \/ Ping(c)
    \/ Recreate(c)
    \/ Statement(c)
    \/ Finish(c)

CloseStep == LockToClose \/ FinishClose

PoolNext ==
    \/ \E c \in Callers : Call(c) \/ CallerStep(c)
    \/ CloseRequest
    \/ CloseStep
    \/ DatabaseChanges
    \/ WindowEnds

PoolSpec == PoolInit /\ [][PoolNext]_poolVars

\* The mutexes of Go and the pool's queue of waiters are first come, first
\* served when contended: a goroutine that waits for one is not passed over for
\* ever.
FairPoolSpec ==
    /\ PoolSpec
    /\ \A c \in Callers : SF_poolVars(CallerStep(c))
    /\ SF_poolVars(CloseStep)

----------------------------------------------------------------------------
(* Properties *)

\* Callers that find the pool unhealthy together replace it once: there is
\* never more than one pool with connections, and it is m.pool or the one that
\* is about to be; none is leaked when PostgreSQL does not answer.
NoLeak ==
    \A p \in openPools :
        /\ p = pool \/ \E c \in Callers : pc[c] = "probe" /\ held[c] = p
        /\ \A q \in openPools : q = p

\* A statement under way uses m.pool: no pool is given up before the statements
\* that other callers run on it have ended.
UsersAreWaitedFor ==
    \A c \in Callers : pc[c] = "using" => held[c] = pool

\* A caller that finds a pool in the manager finds an open one, never one
\* that recreatePool or Close is about to replace.
ReadsOpenPool ==
    [][\A c \in Callers :
          pc[c] = "read" /\ pc'[c] = "check" => held'[c] \in openPools]_poolVars

\* Every call of getPool and of Close returns, whatever the database does:
\* neither the two mutexes nor the connections form a cycle.
EveryCallReturns ==
    /\ \A c \in Callers : pc[c] = "read" ~> pc[c] = "idle"
    /\ pc[Main] = "closing" ~> pc[Main] = "idle"

\* Whom a thread waits for: the owner of a mutex, or those who have all
\* connections of its pool, or any connection of the one it closes.
WaitsFor(t) ==
    CASE pc[t] \in {"read", "lock", "closing"}   -> {mu} \ {NoOne}
      [] pc[t] \in {"check", "recheck", "reset"} -> {hcMu} \ {NoOne}
      [] pc[t] \in {"ping", "reping", "got"} ->
            IF Acquires(held[t]) THEN {} ELSE Users(held[t])
      [] pc[t] = "drain" -> Users(pool)
      [] OTHER -> {}

\* The order of what a thread may hold while it waits: m.mu before hcMu, both
\* before a connection.
Rank(t) ==
    CASE pc[t] = "using" -> 0
      [] pc[t] \in {"ping", "reping", "got", "drain"} -> 1
      [] pc[t] \in {"read", "lock", "closing"} -> 3
      [] OTHER -> 2

\* The safety half of EveryCallReturns: threads wait for threads of a lower
\* rank only, so no circle of them waits for each other, and whoever is waited
\* for without waiting has a connection or the next step to itself.
WaitsAreOrdered ==
    \A t \in Threads : \A u \in WaitsFor(t) :
        u \in Threads /\ Rank(u) < Rank(t)

\* "Automatic reconnection": once PostgreSQL stays up, there is a time after
\* which no call fails and every pool that is handed out is open, even if no
\* window of the health check ends.
Reconnects ==
    <>[](database = "up") =>
        <>[](\A c \in Callers : /\ pc[c] # "failed"
                                /\ pc[c] = "got" => held[c] \in openPools)

\* The manager implements ConnectionPool: with m.pool read as the pool and the
\* statements under way as its leases, whoever replaces or closes the pool,
\* every step of every goroutine is one of its steps or none.
Phase ==
    IF pool = NoPool THEN "none"
    ELSE IF pool \in openPools THEN "open" ELSE "closing"

Leases == {c \in Callers : pc[c] = "using"}

Leased ==
    INSTANCE ConnectionPool
        WITH Clients <- Callers, phase <- Phase, leases <- Leases

ImplementsPool == Leased!ConnectionPoolSpec

PoolTypeOK ==
    /\ pool \in Pools \cup {NoPool}
    /\ mu \in Threads \cup {NoOne}
    /\ hcMu \in Callers \cup {NoOne}
    /\ recent \in BOOLEAN
    /\ hcErr \in BOOLEAN
    /\ openPools \subseteq Pools
    /\ database \in {"up", "down", "misconfigured"}
    /\ pc \in [Threads -> CallerPC \cup {"closing"}]
    /\ held \in [Callers -> Pools \cup {NoPool}]
    /\ closes \in 0 .. MaxCloses
    /\ pc[Main] \in {"idle", "closing", "drain"}

\* Who is in a critical section, by pc.
Owners ==
    /\ \A c \in Callers : mu = c <=> pc[c] \in Locked
    /\ mu = Main <=> pc[Main] = "drain"
    /\ \A c \in Callers : hcMu = c <=> pc[c] \in {"ping", "reping"}

\* What a thread knows of m.pool, the owner of m.mu above all.
ThreadsKnow ==
    /\ \A c \in Callers :
           /\ pc[c] \in {"recheck", "reping", "close", "drain"} =>
                 held[c] = pool /\ pool # NoPool
           /\ pc[c] \in {"reset", "connect", "probe"} => pool = NoPool
           /\ pc[c] = "using" => held[c] # NoPool
           /\ pc[c] = "probe" =>
                 /\ held[c] \in openPools
                 /\ \A d \in Callers \ {c} : held[d] # held[c]
    /\ pc[Main] = "drain" => pool # NoPool

\* m.pool is open, unless it is being closed.
PoolIsOpen ==
    pool # NoPool =>
        (pool \in openPools <=> \A t \in Threads : pc[t] # "drain")

\* The inductive invariant.
PoolInv ==
    /\ PoolTypeOK
    /\ Owners
    /\ ThreadsKnow
    /\ PoolIsOpen
    /\ NoLeak
    /\ UsersAreWaitedFor
============================================================================
