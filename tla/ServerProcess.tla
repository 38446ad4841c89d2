---------------------------- MODULE ServerProcess ----------------------------
(***************************************************************************)
(* cmd/mulval: the life of one process.  main.run sets telemetry and the   *)
(* services up, migrates, serves, and on a signal stops what it started in *)
(* an order of its own, against a grace period.                            *)
(*                                                                         *)
(* Calls come over gRPC (Rpcs) and over HTTP connections (Conns).  An HTTP *)
(* request is either forwarded to the gRPC server, in which case it is one *)
(* of its calls, or served by the operations wrapper without it.  What a   *)
(* call does is left open: it may use the pool, launch a run, or sleep.    *)
(***************************************************************************)
EXTENDS Naturals, Sequences

CONSTANTS
    Rpcs,       \* slots for calls of gRPC clients
    Conns,      \* slots for HTTP connections
    Runs,       \* executor goroutines, each used once
    Collector   \* the periodic reader of the metrics

ASSUME ProcessAssumption == Collector \notin Rpcs \cup Conns \cup Runs

VARIABLES
    main,       \* where main.run is
    error,      \* err is not nil
    exit,       \* how the process ended
    provider,   \* the OpenTelemetry providers
    signalled,  \* ctx is done
    grace,      \* shutdownCtx has expired
    stopper,    \* where the goroutine that stops everything is
    grpc,       \* grpcServer
    httpServer,
    rpc,        \* the calls of gRPC clients in flight
    http,       \* what each HTTP connection is doing
    run,        \* goroutines of the executor
    pool,       \* pgsql.Manager's pool
    users       \* who has a connection of the pool

calls       == <<rpc, http, run>>
servers     == <<grpc, httpServer>>
database    == <<pool, users>>
control     == <<main, error, exit, provider, signalled, grace, stopper>>
processVars == <<control, servers, calls, database>>

----------------------------------------------------------------------------
(* The order in which SetupOTelSDK registers the providers. *)
Providers == <<"traces", "metrics", "logs">>

AllDown == [i \in DOMAIN Providers |->
              IF provider[i] = "up" THEN "down" ELSE provider[i]]

MetricsUp == \E i \in DOMAIN Providers :
                Providers[i] = "metrics" /\ provider[i] = "up"

\* Calls the gRPC server waits for: its clients' and those forwarded to it.
GrpcCalls == {r \in Rpcs : rpc[r] = "active"}
               \cup {h \in Conns : http[h] = "forwarded"}

HttpCalls == {h \in Conns : http[h] \in {"forwarded", "direct"}}

Running == {r \in Runs : run[r] = "running"}

Clients == Rpcs \cup Conns \cup Runs \cup {Collector}

\* Whoever may ask the manager for a pool now.  The reader collects as long as its
\* provider is up, once more when it is shut down, and calls back Healthcheck
\* when InitPostgreSQL has registered it.
CallbackSet == /\ MetricsUp
               /\ main \notin {"otel", "services"}

PoolClients == GrpcCalls \cup HttpCalls \cup Running
                 \cup (IF CallbackSet THEN {Collector} ELSE {})

Alive == main # "gone"

ProcessInit ==
    /\ main = "otel"
    /\ error = FALSE
    /\ exit = "none"
    /\ provider = [i \in DOMAIN Providers |-> "unset"]
    /\ signalled = FALSE
    /\ grace = FALSE
    /\ stopper = "idle"
    /\ grpc = "none"
    /\ httpServer = "none"
    /\ rpc = [r \in Rpcs |-> "idle"]
    /\ http = [h \in Conns |-> "closed"]
    /\ run = [r \in Runs |-> "idle"]
    /\ pool = "none"
    /\ users = {}

----------------------------------------------------------------------------
(* Start-up *)

\* main.run gives up before it serves: the deferred functions run.
ReturnError ==
    /\ main' = "returning"
    /\ error' = TRUE

SetUpProvider(i) ==
    /\ main = "otel"
    /\ provider[i] = "unset"
    /\ \A j \in 1 .. i - 1 : provider[j] = "up"
    /\ provider' = [provider EXCEPT ![i] = "up"]
    /\ main' = IF i = Len(Providers) THEN "services" ELSE main
    /\ UNCHANGED <<error, exit, signalled, grace, stopper>>
    /\ UNCHANGED <<servers, calls, database>>

\* A mutant of SetUpFails: an error leaves the earlier providers up.
SetUpFailsWithoutCleanup ==
    /\ main = "otel"
    /\ main' = "gone"
    /\ error' = TRUE
    /\ exit' = "error"
    /\ UNCHANGED <<provider, signalled, grace, stopper>>
    /\ UNCHANGED <<servers, calls, database>>

\* handleErr shuts down what is set up; nothing is deferred yet.
SetUpFails ==
    /\ main = "otel"
    /\ provider' = AllDown
    /\ main' = "gone"
    /\ error' = TRUE
    /\ exit' = "error"
    /\ UNCHANGED <<signalled, grace, stopper>>
    /\ UNCHANGED <<servers, calls, database>>

InitServices ==
    /\ main = "services"
    /\ \/ main' = "migrate" /\ UNCHANGED error
       \/ ReturnError
    /\ UNCHANGED <<exit, provider, signalled, grace, stopper>>
    /\ UNCHANGED <<servers, calls, database>>

\* Creating the schema takes a pool.
Migrate ==
    /\ main = "migrate"
    /\ \/ main' = "listen" /\ UNCHANGED error
       \/ ReturnError
    /\ pool' \in {pool, "open"}
    /\ UNCHANGED <<exit, provider, signalled, grace, stopper>>
    /\ UNCHANGED <<servers, calls, users>>

\* Server.Run.  listen closes the listener again when it fails.
StartServer ==
    /\ main = "listen"
    /\ \/ /\ main' = "serving"
          /\ grpc' = "serving"
          /\ httpServer' = "serving"
          /\ UNCHANGED error
       \/ ReturnError /\ UNCHANGED servers
    /\ UNCHANGED <<exit, provider, signalled, grace, stopper, calls, database>>

----------------------------------------------------------------------------
(* Calls *)

\* A stream that reaches the server before its client has seen the GOAWAY of
\* GracefulStop is still served.
AcceptsRpcs == grpc \in {"serving", "draining"}

RpcArrives(r) ==
    /\ Alive /\ AcceptsRpcs
    /\ rpc[r] = "idle"
    /\ rpc' = [rpc EXCEPT ![r] = "active"]
    /\ UNCHANGED <<control, servers, http, run, database>>

RpcReturns(r) ==
    /\ Alive
    /\ rpc[r] = "active" /\ r \notin users
    /\ rpc' = [rpc EXCEPT ![r] = "idle"]
    /\ UNCHANGED <<control, servers, http, run, database>>

Connect(h) ==
    /\ Alive
    /\ httpServer = "serving"
    /\ http[h] = "closed"
    /\ http' = [http EXCEPT ![h] = "idle"]
    /\ UNCHANGED <<control, servers, rpc, run, database>>

\* A kept connection carries the next request, also while the gRPC server
\* drains; the gateway reaches that server no more once it is stopped.
HttpRequest(h) ==
    /\ Alive
    /\ httpServer \in {"serving", "shutting"}
    /\ http[h] = "idle"
    /\ \/ http' = [http EXCEPT ![h] = "direct"]
       \/ AcceptsRpcs /\ http' = [http EXCEPT ![h] = "forwarded"]
    /\ UNCHANGED <<control, servers, rpc, run, database>>

\* The answer; a server that shuts down does not keep the connection.
HttpAnswer(h) ==
    /\ Alive
    /\ h \in HttpCalls /\ h \notin users
    /\ http' = [http EXCEPT ![h] =
                  IF httpServer = "serving" THEN "idle" ELSE "closed"]
    /\ UNCHANGED <<control, servers, rpc, run, database>>

\* Executor.RunMulVAL: wg.Add and a goroutine, from CreateAnalysis only.
Launch(c, r) ==
    /\ Alive
    /\ c \in GrpcCalls
    /\ run[r] = "idle"
    /\ run' = [run EXCEPT ![r] = "running"]
    /\ UNCHANGED <<control, servers, rpc, http, database>>

RunEnds(r) ==
    /\ Alive
    /\ r \in Running /\ r \notin users
    /\ run' = [run EXCEPT ![r] = "ended"]
    /\ UNCHANGED <<control, servers, rpc, http, database>>

\* getPool opens a pool when there is none; it waits while Close drains one.
Acquire(c) ==
    /\ Alive
    /\ c \in PoolClients \ users
    /\ pool # "closing"
    /\ pool' = "open"
    /\ users' = users \cup {c}
    /\ UNCHANGED <<control, servers, calls>>

Release(c) ==
    /\ Alive
    /\ c \in users
    /\ users' = users \ {c}
    /\ UNCHANGED <<control, servers, calls, pool>>

----------------------------------------------------------------------------
(* Signals and the end of main.run *)

\* NotifyContext has replaced the default behaviour after "otel".
Signal ==
    /\ main \notin {"otel", "returning", "gone"}
    /\ ~signalled
    /\ signalled' = TRUE
    /\ UNCHANGED <<main, error, exit, provider, grace, stopper>>
    /\ UNCHANGED <<servers, calls, database>>

\* SIGKILL or a panic; and any signal before NotifyContext and after stop(),
\* which is also the first function that main.run has deferred to run.
Killed ==
    /\ Alive
    /\ main' = "gone"
    /\ exit' = "killed"
    /\ UNCHANGED <<error, provider, signalled, grace, stopper>>
    /\ UNCHANGED <<servers, calls, database>>

\* <-ctx.Done(); the timer of the grace period and the goroutine start.
BeginStop ==
    /\ main = "serving" /\ signalled
    /\ main' = "stopping"
    /\ stopper' = "graceful"
    /\ grpc' = "draining"
    /\ UNCHANGED <<error, exit, provider, signalled, grace, httpServer>>
    /\ UNCHANGED <<calls, database>>

\* Fifteen seconds are ample for the steps of the goroutine: they pass only
\* when it waits for a call, for a run or for a connection of the pool.
GraceExpires ==
    /\ main = "stopping"
    /\ ~grace
    /\ HttpCalls \cup GrpcCalls \cup Running \cup users # {}
    /\ grace' = TRUE
    /\ UNCHANGED <<main, error, exit, provider, signalled, stopper>>
    /\ UNCHANGED <<servers, calls, database>>

\* A mutant of MainReturns: main.run does not wait for the goroutine.
MainReturnsEarly ==
    /\ main = "stopping"
    /\ main' = "returning"
    /\ UNCHANGED <<error, exit, provider, signalled, grace, stopper>>
    /\ UNCHANGED <<servers, calls, database>>

MainReturns ==
    /\ main = "stopping"
    /\ stopper = "done"
    /\ main' = "returning"
    /\ UNCHANGED <<error, exit, provider, signalled, grace, stopper>>
    /\ UNCHANGED <<servers, calls, database>>

\* A mutant of ForcedExit: the goroutine alone ends the wait.
ForcedExitWhenDone ==
    /\ main = "stopping"
    /\ grace /\ stopper = "done"
    /\ main' = "gone"
    /\ exit' = "forced"
    /\ UNCHANGED <<error, provider, signalled, grace, stopper>>
    /\ UNCHANGED <<servers, calls, database>>

\* os.Exit(1) runs no deferred function.
ForcedExit ==
    /\ main = "stopping"
    /\ grace
    /\ main' = "gone"
    /\ exit' = "forced"
    /\ UNCHANGED <<error, provider, signalled, grace, stopper>>
    /\ UNCHANGED <<servers, calls, database>>

\* The deferred otelShutdown, one provider after the other.
ShutdownProvider(i) ==
    /\ main = "returning"
    /\ provider[i] = "up"
    /\ \A j \in 1 .. i - 1 : provider[j] = "down"
    /\ Providers[i] = "metrics" => Collector \notin users
    /\ provider' = [provider EXCEPT ![i] = "down"]
    /\ UNCHANGED <<main, error, exit, signalled, grace, stopper>>
    /\ UNCHANGED <<servers, calls, database>>

ProcessEnds ==
    /\ main = "returning"
    /\ \A i \in DOMAIN Providers : provider[i] = "down"
    /\ main' = "gone"
    /\ exit' = IF error THEN "error" ELSE "ok"
    /\ UNCHANGED <<error, provider, signalled, grace, stopper>>
    /\ UNCHANGED <<servers, calls, database>>

----------------------------------------------------------------------------
(* The goroutine: Server.Stop, Executor.Wait, Close twice *)

StopperAt(l) == Alive /\ stopper = l

\* A mutant of GracefulStop: Stop, which waits for nobody.
GracefulStopAtOnce ==
    /\ StopperAt("graceful")
    /\ grpc' = "stopped"
    /\ httpServer' = "shutting"
    /\ stopper' = "http"
    /\ UNCHANGED <<main, error, exit, provider, signalled, grace>>
    /\ UNCHANGED <<calls, database>>

\* GracefulStop returns when no call is in flight, whatever the grace period;
\* httpServer.Shutdown begins.
GracefulStop ==
    /\ StopperAt("graceful")
    /\ GrpcCalls = {}
    /\ grpc' = "stopped"
    /\ httpServer' = "shutting"
    /\ stopper' = "http"
    /\ UNCHANGED <<main, error, exit, provider, signalled, grace>>
    /\ UNCHANGED <<calls, database>>

\* Shutdown closes the connections that are idle ...
CloseIdle(h) ==
    /\ StopperAt("http")
    /\ http[h] = "idle"
    /\ http' = [http EXCEPT ![h] = "closed"]
    /\ UNCHANGED <<control, servers, rpc, run, database>>

\* ... and returns when all are closed, or with an error, which is logged, when
\* the grace period ends.  tcpm.Close and GWConn.Close follow.
HttpShutdown ==
    /\ StopperAt("http")
    /\ grace \/ \A h \in Conns : http[h] = "closed"
    /\ httpServer' = "stopped"
    /\ stopper' = "wait"
    /\ UNCHANGED <<main, error, exit, provider, signalled, grace, grpc>>
    /\ UNCHANGED <<calls, database>>

\* A mutant of ExecutorWait: a Wait that obeys its context.
ExecutorWaitsForGrace ==
    /\ StopperAt("wait")
    /\ grace \/ Running = {}
    /\ stopper' = "close"
    /\ UNCHANGED <<main, error, exit, provider, signalled, grace>>
    /\ UNCHANGED <<servers, calls, database>>

\* Executor.Wait ignores its context.
ExecutorWait ==
    /\ StopperAt("wait")
    /\ Running = {}
    /\ stopper' = "close"
    /\ UNCHANGED <<main, error, exit, provider, signalled, grace>>
    /\ UNCHANGED <<servers, calls, database>>

\* Close: the pool gives out no more connections ...
BeginClose ==
    /\ StopperAt("close") \/ StopperAt("reclose")
    /\ pool = "open"
    /\ pool' = "closing"
    /\ UNCHANGED <<control, servers, calls, users>>

\* ... and is gone when those in use have been returned; Close is called a
\* second time.
EndClose ==
    /\ StopperAt("close") \/ StopperAt("reclose")
    /\ pool # "open"
    /\ users = {}
    /\ pool' = "none"
    /\ stopper' = IF stopper = "close" THEN "reclose" ELSE "done"
    /\ UNCHANGED <<main, error, exit, provider, signalled, grace>>
    /\ UNCHANGED <<servers, calls, users>>

----------------------------------------------------------------------------
MainNext ==
    \/ \E i \in DOMAIN Providers : SetUpProvider(i) \/ ShutdownProvider(i)
    \/ SetUpFails \/ InitServices \/ Migrate \/ StartServer
    \/ BeginStop \/ MainReturns \/ ForcedExit \/ ProcessEnds

StopperNext ==
    \/ GracefulStop \/ HttpShutdown \/ ExecutorWait
    \/ BeginClose \/ EndClose
    \/ \E h \in Conns : CloseIdle(h)

CallsNext ==
    \/ \E r \in Rpcs : RpcArrives(r) \/ RpcReturns(r)
    \/ \E h \in Conns : Connect(h) \/ HttpRequest(h) \/ HttpAnswer(h)
    \/ \E r \in Runs : RunEnds(r) \/ \E c \in Rpcs \cup Conns : Launch(c, r)
    \/ \E c \in Clients : Acquire(c) \/ Release(c)

ProcessNext ==
    MainNext \/ StopperNext \/ CallsNext \/ Signal \/ Killed \/ GraceExpires

ProcessSpec == ProcessInit /\ [][ProcessNext]_processVars

\* The goroutines of main.run and the timer make progress.  A query of the
\* callback returns, and the reader collects at intervals, so what waits for it
\* gets a turn.  No call and no run is assumed to return.
ProcessFairness ==
    /\ WF_processVars(MainNext)
    /\ SF_processVars(StopperNext)
    /\ WF_processVars(GraceExpires)
    /\ WF_processVars(Release(Collector))
    /\ SF_processVars(\E i \in DOMAIN Providers : ShutdownProvider(i))

----------------------------------------------------------------------------
(* Properties *)

\* Where the goroutine is once it calls Close, and once it calls Executor.Wait.
AtClose == {"close", "reclose", "done"}

AtWait == {"wait"} \cup AtClose

\* Executor.Wait misses no run: nothing is added to its wait group once the
\* goroutine of main.run has reached it, because the gRPC server, its own calls
\* and the gateway's, has been drained before.
NoLaunchWhileWaiting ==
    [][Running' \subseteq Running
         \/ stopper \notin AtWait]_processVars

\* Within the grace period the pool is not closed under anybody's work: when
\* Close is called, all runs have ended, and all calls of both servers, unless
\* the HTTP server was given up on.
WorkEndsBeforeClose ==
    stopper \in AtClose =>
        /\ Running = {} /\ GrpcCalls = {}
        /\ ~grace => HttpCalls = {}

\* "shutdown complete": a process that ends by itself with status 0 leaves no
\* run and no gRPC call behind, whenever the signal came.
OrderlyExit == exit = "ok" => Running = {} /\ GrpcCalls = {}

\* However far SetupOTelSDK or the start-up got, a process that returns from
\* main.run has shut down every provider it has set up.
ProvidersShutDown ==
    exit \in {"ok", "error"} => \A i \in DOMAIN Providers : provider[i] # "up"

\* A signal ends the process, though a call or a run may sleep for ever: the
\* grace period bounds the wait for the goroutine that stops everything.
SignalEndsProcess == signalled ~> main = "gone"

\* What this module says of the manager of the connections is what the manager
\* does: calls, runs and the callback of the metrics are clients of the same
\* ConnectionPool that PgPool implements.
Shared == INSTANCE ConnectionPool WITH phase <- pool, leases <- users

SharesPool == Shared!ConnectionPoolSpec

ProcessTypeOK ==
    /\ main \in {"otel", "services", "migrate", "listen", "serving",
                 "stopping", "returning", "gone"}
    /\ error \in BOOLEAN /\ signalled \in BOOLEAN /\ grace \in BOOLEAN
    /\ exit \in {"none", "ok", "error", "killed", "forced"}
    /\ provider \in [DOMAIN Providers -> {"unset", "up", "down"}]
    /\ stopper \in {"idle", "graceful", "http"} \cup AtWait
    /\ grpc \in {"none", "serving", "draining", "stopped"}
    /\ httpServer \in {"none", "serving", "shutting", "stopped"}
    /\ rpc \in [Rpcs -> {"idle", "active"}]
    /\ http \in [Conns -> {"closed", "idle", "direct", "forwarded"}]
    /\ run \in [Runs -> {"idle", "running", "ended"}]
    /\ pool \in {"none", "open", "closing"}
    /\ users \subseteq Clients

\* The goroutine runs behind main.run, and what it has stopped stays stopped.
StaysStopped ==
    /\ stopper # "idle" => main \in {"stopping", "returning", "gone"}
    /\ stopper \in {"http"} \cup AtWait => grpc = "stopped" /\ GrpcCalls = {}
    /\ stopper \in AtWait =>
          /\ httpServer = "stopped"
          /\ ~grace => HttpCalls = {}
    /\ stopper \in AtClose => Running = {}

\* Without an error, only a goroutine that is done lets main.run return.
ReturnsInOrder ==
    /\ exit # "none" => main = "gone"
    /\ main = "returning" /\ ~error => stopper = "done"
    /\ exit = "ok" => stopper = "done"

\* The inductive invariant.
ProcessInv ==
    /\ ProcessTypeOK
    /\ StaysStopped
    /\ ReturnsInOrder
    /\ ProvidersShutDown
=============================================================================
